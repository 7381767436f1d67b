-------------------------- MODULE EngineStoreProofs --------------------------
(***************************************************************************)
(* Proofs about EngineStore for any number of admins, requests, slots,     *)
(* engine ids and saves.  StoreInv is inductive: it follows the list from  *)
(* a handler's copy through the settings row into the cache, and counts    *)
(* the saves that are under way.                                           *)
(***************************************************************************)
EXTENDS EngineStore, FiniteSetTheorems, TLAPS

-----------------------------------------------------------------------------
(* Lists and the edits of a list.                                          *)

\* A list is a function from some ids to configurations.
LEMMA ListShape ==
  ASSUME NEW list
  PROVE  list \in Lists <=> DOMAIN list \in SUBSET Ids /\ list \in [DOMAIN list -> Configs]
<1>1. ASSUME list \in Lists PROVE DOMAIN list \in SUBSET Ids /\ list \in [DOMAIN list -> Configs]
  <2>1. PICK ids \in SUBSET Ids : list \in [ids -> Configs]
    BY <1>1 DEF Lists
  <2>2. QED
    BY <2>1
<1>2. ASSUME DOMAIN list \in SUBSET Ids, list \in [DOMAIN list -> Configs] PROVE list \in Lists
  BY <1>2 DEF Lists
<1>3. QED
  BY <1>1, <1>2

\* A configuration without a field of the other type.
Clean(config) == IF config.type = "ollama" THEN config.key = NoKey ELSE config.port = 0

\* Whatever was stored and whatever the form says, an edit leaves a clean
\* configuration behind.
LEMMA EditIsClean ==
  ASSUME NEW config \in Configs, NEW type \in {"ollama", "openai_compat"},
         NEW key \in Keys
  PROVE  /\ applyEngineEdit(config, type, key) \in Configs
         /\ Clean(applyEngineEdit(config, type, key))
<1> DEFINE edited == applyEngineEdit(config, type, key)
<1>1. config.key \in Keys
  BY DEF Configs
<1>2. CASE type = "ollama"
  <2>1. edited = [type |-> "ollama", key |-> NoKey, port |-> 11434] /\ NoKey \in Keys
    BY <1>2 DEF applyEngineEdit, Keys
  <2>2. QED
    BY <2>1 DEF Configs, Clean
<1>3. CASE type = "openai_compat"
  <2>1. PICK k \in Keys : edited = [type |-> "openai_compat", key |-> k, port |-> 0]
    BY <1>1, <1>3 DEF applyEngineEdit
  <2>2. QED
    BY <2>1 DEF Configs, Clean
<1>4. QED
  BY <1>2, <1>3

CleanList(list) == \A e \in DOMAIN list : Clean(list[e])

\* Every list a form can lead to is a list, and clean if the stored one was.
LEMMA EditedLists ==
  ASSUME NEW list \in Lists, CleanList(list),
         NEW next \in Updated(list) \cup Removed(list)
                        \cup {l \in Created(list) : DOMAIN l \subseteq Ids}
  PROVE  next \in Lists /\ CleanList(next)
<1>1. DOMAIN list \in SUBSET Ids /\ list \in [DOMAIN list -> Configs]
  BY ListShape
<1>2. \A e \in DOMAIN list : list[e] \in Configs
  BY <1>1
<1>3. CASE next \in Updated(list)
  <2>1. PICK e \in DOMAIN list, type \in {"ollama", "openai_compat"}, key \in Keys :
          next = [list EXCEPT ![e] = applyEngineEdit(list[e], type, key)]
    BY <1>3 DEF Updated
  <2>2. /\ applyEngineEdit(list[e], type, key) \in Configs
        /\ Clean(applyEngineEdit(list[e], type, key))
    BY <1>2, EditIsClean
  <2>3. DOMAIN next = DOMAIN list /\ next \in [DOMAIN list -> Configs]
    BY <1>1, <2>1, <2>2
  <2>4. CleanList(next)
    BY <1>1, <2>1, <2>2, <2>3 DEF CleanList
  <2>5. QED
    BY <1>1, <2>3, <2>4, ListShape
<1>4. CASE next \in Removed(list)
  <2>1. PICK e \in DOMAIN list : next = Restrict(list, DOMAIN list \ {e})
    BY <1>4 DEF Removed
  <2>2. /\ DOMAIN next = DOMAIN list \ {e}
        /\ \A x \in DOMAIN next : next[x] = list[x]
        /\ next \in [DOMAIN next -> Configs]
    BY <1>1, <2>1 DEF Restrict
  <2>3. CleanList(next)
    BY <2>2 DEF CleanList
  <2>4. QED
    BY <1>1, <2>2, <2>3, ListShape
<1>5. CASE next \in {l \in Created(list) : DOMAIN l \subseteq Ids}
  <2>1. PICK type \in {"ollama", "openai_compat"}, key \in Keys :
          next = With(list, newID(list), applyEngineEdit(Blank, type, key))
    BY <1>5 DEF Created
  <2> DEFINE config == applyEngineEdit(Blank, type, key)
  <2>2. Blank \in Configs
    BY DEF Blank, Configs, Keys
  <2>3. config \in Configs /\ Clean(config)
    BY <2>2, EditIsClean
  <2> HIDE DEF config
  <2>4. /\ DOMAIN next = DOMAIN list \cup {newID(list)}
        /\ next[newID(list)] = config
        /\ \A x \in DOMAIN list : x # newID(list) => next[x] = list[x]
        /\ next = [x \in DOMAIN next |-> next[x]]
    BY <2>1 DEF With, config
  <2>5. next \in [DOMAIN next -> Configs]
    BY <1>1, <2>3, <2>4
  <2>6. CleanList(next)
    BY <2>3, <2>4 DEF CleanList
  <2>7. QED
    BY <1>5, <2>5, <2>6, ListShape
<1>6. QED
  BY <1>3, <1>4, <1>5

-----------------------------------------------------------------------------
(* The inductive invariant.                                                *)

\* Handlers that will write a list, and handlers that have yet to publish one.
Writing == {a \in Admins : admin[a].pc = "set"}
Reloading == {a \in Admins : admin[a].pc \in {"reload", "publish"}}
Holding(x) == {r \in Requests : request[r].pc = "holding" /\ request[r].adapter = x}

\* The bound on the saves leaves room for those under way, and every reload
\* made or to be made belongs to a save.
SavesCounted ==
  /\ settings.n + Cardinality(Writing) <= MaxSaves
  /\ cache.reload + Cardinality(Reloading) <= settings.n

\* A list read back for a reload is the stored one until the next save.
ReadBack ==
  \A a \in Admins : admin[a].pc = "publish" =>
    /\ admin[a].base <= settings.n
    /\ admin[a].base = settings.n => admin[a].list = settings.list

\* The handlers' copies are as clean as what is stored and served.
AllClean ==
  /\ CleanList(settings.list) /\ CleanList(cache.list)
  /\ \A a \in Admins : CleanList(admin[a].list)

\* A request that waits or holds a slot has an adapter.
Routed == \A r \in Requests : request[r].pc # "idle" => request[r].adapter \in Adapters

StoreInv ==
  /\ TypeOK /\ SavesCounted /\ ReadBack /\ CacheIsStored /\ AllClean /\ Routed
  /\ SlotsAccounted

\* No more requests can hold a slot than there are, and none is counted twice.
LEMMA Countable ==
  /\ IsFiniteSet(Writing) /\ IsFiniteSet(Reloading)
  /\ \A x : IsFiniteSet(Holding(x))
  /\ Cardinality(Writing) \in Nat /\ Cardinality(Reloading) \in Nat
  /\ \A x : Cardinality(Holding(x)) \in Nat
<1>1. Writing \in SUBSET Admins /\ Reloading \in SUBSET Admins
      /\ \A x : Holding(x) \in SUBSET Requests
  BY DEF Writing, Reloading, Holding
<1>2. IsFiniteSet(Writing) /\ IsFiniteSet(Reloading) /\ \A x : IsFiniteSet(Holding(x))
  BY <1>1, StoreAssumption, FS_Subset
<1>3. QED
  BY <1>2, FS_CardinalityType

\* The process starts with what is stored, and nobody at work.
LEMMA InvInit == Init => StoreInv
<1> SUFFICES ASSUME Init PROVE StoreInv
  OBVIOUS
<1> DEFINE config == [type |-> "openai_compat", key |-> "key", port |-> 0]
<1>1. NoEngines \in Lists /\ CleanList(NoEngines) /\ DOMAIN NoEngines = {}
  BY ListShape DEF NoEngines, CleanList
<1>2. config \in Configs /\ Clean(config)
  BY DEF Configs, Keys, Clean
<1>3. 1 \in Ids
  BY StoreAssumption DEF Ids
<1>4. With(NoEngines, 1, config) \in Lists /\ CleanList(With(NoEngines, 1, config))
  <2> HIDE DEF config
  <2>1. With(NoEngines, 1, config) = [x \in {1} |-> config]
    BY <1>1 DEF With
  <2>2. QED
    BY <1>2, <1>3, <2>1, ListShape DEF CleanList
<1>5. settings.list \in Lists /\ CleanList(settings.list) /\ settings.n = 0
      /\ settings \in [list : Lists, n : {0}]
  BY <1>1, <1>4 DEF Init
<1>6. 0 \in Reloads /\ 0 \in 0..Slots /\ 0 \in 0..MaxSaves
  BY StoreAssumption DEF Reloads
<1>7. TypeOK
  <2>1. settings \in [list : Lists, n : 0..MaxSaves]
    BY <1>5, <1>6
  <2>2. cache \in [list : Lists, reload : Reloads, overtaken : BOOLEAN, failed : BOOLEAN]
    BY <1>5, <1>6 DEF Init
  <2>3. admin \in [Admins -> [pc : {"idle", "set", "reload", "publish"}, list : Lists,
                              base : 0..MaxSaves]]
    BY <1>1, <1>6 DEF Init, Idle
  <2>4. QED
    BY <1>6, <2>1, <2>2, <2>3 DEF Init, TypeOK
<1>8. Writing = {} /\ Reloading = {} /\ \A x : Holding(x) = {}
  BY DEF Init, Idle, Writing, Reloading, Holding
<1>9. Cardinality({}) = 0
  BY FS_EmptySet
<1>10. SavesCounted
  BY <1>5, <1>8, <1>9, StoreAssumption DEF SavesCounted, Init
<1>11. SlotsAccounted
  BY <1>8, <1>9 DEF SlotsAccounted, Holding, Init
<1>12. ReadBack /\ Routed
  BY DEF Init, Idle, ReadBack, Routed
<1>13. CacheIsStored
  BY DEF Init, CacheIsStored
<1>14. AllClean
  BY <1>1, <1>5 DEF AllClean, Init, Idle
<1>15. QED
  BY <1>7, <1>10, <1>11, <1>12, <1>13, <1>14 DEF StoreInv

-----------------------------------------------------------------------------
(* Handlers.                                                               *)

requestVars == <<request, sem>>
storeVars == <<settings, cache, admin>>

\* What a handler does moves no slot.
LEMMA SlotsUntouched ==
  ASSUME Routed, SlotsAccounted, UNCHANGED requestVars PROVE Routed' /\ SlotsAccounted'
  BY DEF Routed, SlotsAccounted, requestVars

AdminTypes == [pc : {"idle", "set", "reload", "publish"}, list : Lists, base : 0..MaxSaves]

\* The next state of one handler, as the counts see it.
LEMMA Moves ==
  ASSUME admin \in [Admins -> AdminTypes], NEW a \in Admins, NEW c \in AdminTypes,
         admin' = [admin EXCEPT ![a] = c]
  PROVE  /\ admin' \in [Admins -> AdminTypes] /\ admin'[a] = c
         /\ \A b \in Admins : b # a => admin'[b] = admin[b]
         /\ Writing' = IF c.pc = "set" THEN Writing \cup {a} ELSE Writing \ {a}
         /\ Reloading' = IF c.pc \in {"reload", "publish"}
                           THEN Reloading \cup {a} ELSE Reloading \ {a}
<1>1. admin' \in [Admins -> AdminTypes] /\ admin'[a] = c
      /\ \A b \in Admins : b # a => admin'[b] = admin[b]
  OBVIOUS
<1>2. QED
  BY <1>1 DEF Writing, Reloading

\* A copy of the list is made only while there is room for its save.
LEMMA EditStep ==
  ASSUME StoreInv, NEW a \in Admins, EditEngines(a) PROVE StoreInv'
<1>1. PICK list \in Updated(settings.list) \cup Removed(settings.list)
                      \cup {l \in Created(settings.list) : DOMAIN l \subseteq Ids} :
        admin' = [admin EXCEPT ![a] = [pc |-> "set", list |-> list, base |-> settings.n]]
  BY DEF EditEngines
<1> DEFINE c == [pc |-> "set", list |-> list, base |-> settings.n]
<1>2. settings.list \in Lists /\ settings.n \in 0..MaxSaves
      /\ admin \in [Admins -> AdminTypes] /\ CleanList(settings.list)
  BY DEF StoreInv, TypeOK, AllClean, AdminTypes
<1>3. list \in Lists /\ CleanList(list)
  BY <1>2, EditedLists
<1>4. c \in AdminTypes /\ c.pc = "set" /\ c.list = list
  BY <1>2, <1>3 DEF AdminTypes
<1>5. /\ admin' \in [Admins -> AdminTypes] /\ admin'[a] = c
      /\ \A b \in Admins : b # a => admin'[b] = admin[b]
      /\ Writing' = Writing \cup {a} /\ Reloading' = Reloading \ {a}
  <2> HIDE DEF c
  <2>1. admin' = [admin EXCEPT ![a] = c]
    BY <1>1 DEF c
  <2>2. QED
    BY <1>2, <1>4, <2>1, Moves
<1> HIDE DEF c
<1>6. UNCHANGED <<settings, cache, requestVars>> /\ admin[a].pc = "idle"
  BY DEF EditEngines, requestVars
<1>7. TypeOK'
  BY <1>5, <1>6 DEF StoreInv, TypeOK, AdminTypes, requestVars
<1>8. SavesCounted'
  <2>1. a \notin Writing /\ a \notin Reloading
    BY <1>6 DEF Writing, Reloading
  <2>2. Writing \in SUBSET Saving /\ Saving \in SUBSET Admins
    BY DEF Writing, Saving
  <2>3. IsFiniteSet(Saving) /\ Cardinality(Writing) <= Cardinality(Saving)
        /\ Cardinality(Saving) \in Nat
    BY <2>2, StoreAssumption, FS_Subset, FS_CardinalityType
  <2>4. settings.n + Cardinality(Saving) < MaxSaves
    BY DEF EditEngines
  <2>5. Cardinality(Writing \cup {a}) = Cardinality(Writing) + 1 /\ Reloading \ {a} = Reloading
    <3>1. Cardinality(Writing \cup {a}) = Cardinality(Writing) + 1
      BY <2>1, Countable, FS_AddElement
    <3>2. QED
      BY <2>1, <3>1
  <2>6. settings' = settings /\ cache' = cache /\ settings.n \in Nat
    BY <1>2, <1>6
  <2>7. Cardinality(Writing') = Cardinality(Writing) + 1 /\ Reloading' = Reloading
    BY <1>5, <2>5
  <2>8. QED
    BY <2>3, <2>4, <2>6, <2>7, Countable, StoreAssumption DEF StoreInv, SavesCounted
<1>9. ReadBack' /\ CacheIsStored'
  BY <1>4, <1>5, <1>6 DEF StoreInv, ReadBack, CacheIsStored
<1>10. AllClean'
  BY <1>3, <1>4, <1>5, <1>6 DEF StoreInv, AllClean
<1>11. QED
  BY <1>6, <1>7, <1>8, <1>9, <1>10, SlotsUntouched DEF StoreInv

\* A save that goes through turns a copy that was counted into a stored list;
\* every list read back before it is out of date.
LEMMA SaveStep ==
  ASSUME StoreInv, NEW a \in Admins, setSetting(a) PROVE StoreInv'
<1>1. /\ settings.list \in Lists /\ settings.n \in 0..MaxSaves
      /\ admin \in [Admins -> AdminTypes] /\ NoEngines \in Lists /\ CleanList(NoEngines)
      /\ admin[a] \in AdminTypes /\ admin[a].list \in Lists /\ CleanList(admin[a].list)
  BY ListShape DEF StoreInv, TypeOK, AllClean, AdminTypes, NoEngines, CleanList
<1>2. UNCHANGED <<cache, requestVars>> /\ admin[a].pc = "set" /\ a \in Writing /\ a \notin Reloading
  BY DEF setSetting, requestVars, Writing, Reloading
<1>3. Cardinality(Writing \ {a}) = Cardinality(Writing) - 1
      /\ Cardinality(Reloading \cup {a}) = Cardinality(Reloading) + 1
      /\ Reloading \ {a} = Reloading
  <2>1. Cardinality(Writing \ {a}) = Cardinality(Writing) - 1
    BY <1>2, Countable, FS_RemoveElement
  <2>2. Cardinality(Reloading \cup {a}) = Cardinality(Reloading) + 1
    BY <1>2, Countable, FS_AddElement
  <2>3. Reloading \ {a} = Reloading
    BY <1>2
  <2>4. QED
    BY <2>1, <2>2, <2>3
<1> DEFINE idle == [pc |-> "idle", list |-> NoEngines, base |-> 0]
           c == [pc |-> "reload", list |-> NoEngines, base |-> 0]
<1>4. /\ idle \in AdminTypes /\ idle.pc = "idle" /\ idle.list = NoEngines
      /\ c \in AdminTypes /\ c.pc = "reload" /\ c.list = NoEngines
      /\ [Idle EXCEPT !.pc = "reload"] = c /\ Idle = idle
  BY <1>1, StoreAssumption DEF AdminTypes, Idle
<1> HIDE DEF idle, c
<1>5. CASE /\ settings' = [list |-> admin[a].list, n |-> settings.n + 1]
           /\ admin' = [admin EXCEPT ![a] = c]
  <2>1. /\ admin' \in [Admins -> AdminTypes] /\ admin'[a] = c
        /\ \A b \in Admins : b # a => admin'[b] = admin[b]
        /\ Writing' = Writing \ {a} /\ Reloading' = Reloading \cup {a}
    BY <1>1, <1>4, <1>5, Moves
  <2>2. SavesCounted'
    <3>1. settings'.n = settings.n + 1 /\ cache' = cache
      BY <1>2, <1>5
    <3>2. cache.reload \in Nat
      BY DEF StoreInv, TypeOK, Reloads
    <3>3. QED
      BY <1>1, <1>3, <2>1, <3>1, <3>2, Countable, StoreAssumption DEF StoreInv, SavesCounted
  <2>3. settings' \in [list : Lists, n : 0..MaxSaves]
    <3>1. settings.n + 1 \in 0..MaxSaves
      BY <1>1, <1>2, <1>3, Countable, FS_RemoveElement, FS_CardinalityType, StoreAssumption
         DEF StoreInv, SavesCounted
    <3>2. QED
      BY <1>1, <1>5, <3>1
  <2>4. TypeOK'
    BY <1>2, <2>1, <2>3 DEF StoreInv, TypeOK, AdminTypes, requestVars
  <2>5. ReadBack'
    <3>1. settings'.n = settings.n + 1
      BY <1>5
    <3>2. \A b \in Admins : admin[b].base \in 0..MaxSaves
      BY <1>1 DEF AdminTypes
    <3>3. QED
      BY <1>1, <1>4, <2>1, <3>1, <3>2 DEF StoreInv, ReadBack
  <2>6. CacheIsStored'
    BY <1>4, <2>1 DEF CacheIsStored
  <2>7. AllClean'
    BY <1>1, <1>2, <1>4, <1>5, <2>1 DEF StoreInv, AllClean
  <2>8. QED
    BY <1>2, <2>2, <2>4, <2>5, <2>6, <2>7, SlotsUntouched DEF StoreInv
<1>6. CASE admin' = [admin EXCEPT ![a] = idle] /\ UNCHANGED settings
  <2>1. /\ admin' \in [Admins -> AdminTypes] /\ admin'[a] = idle
        /\ \A b \in Admins : b # a => admin'[b] = admin[b]
        /\ Writing' = Writing \ {a} /\ Reloading' = Reloading
    BY <1>1, <1>3, <1>4, <1>6, Moves
  <2>2. SavesCounted'
    BY <1>1, <1>2, <1>3, <1>6, <2>1, Countable, StoreAssumption
       DEF StoreInv, SavesCounted, TypeOK, Reloads
  <2>3. TypeOK'
    BY <1>2, <1>6, <2>1 DEF StoreInv, TypeOK, AdminTypes, requestVars
  <2>4. ReadBack' /\ CacheIsStored'
    BY <1>2, <1>4, <1>6, <2>1 DEF StoreInv, ReadBack, CacheIsStored
  <2>5. AllClean'
    BY <1>1, <1>2, <1>4, <1>6, <2>1 DEF StoreInv, AllClean
  <2>6. QED
    BY <1>2, <2>2, <2>3, <2>4, <2>5, SlotsUntouched DEF StoreInv
<1>7. QED
  BY <1>4, <1>5, <1>6 DEF setSetting

\* What is read back is what is stored.
LEMMA ReloadStep ==
  ASSUME StoreInv, NEW a \in Admins, ReloadReads(a) PROVE StoreInv'
<1> DEFINE c == [pc |-> "publish", list |-> settings.list, base |-> settings.n]
<1>1. /\ settings.n \in 0..MaxSaves /\ admin \in [Admins -> AdminTypes]
      /\ c \in AdminTypes /\ c.pc = "publish" /\ c.list = settings.list /\ c.base = settings.n
  BY DEF StoreInv, TypeOK, AdminTypes
<1>2. /\ UNCHANGED <<settings, cache, requestVars>> /\ admin[a].pc = "reload"
      /\ admin' = [admin EXCEPT ![a] = c]
  BY DEF ReloadReads, requestVars
<1> HIDE DEF c
<1>3. /\ admin' \in [Admins -> AdminTypes] /\ admin'[a] = c
      /\ \A b \in Admins : b # a => admin'[b] = admin[b]
      /\ Writing' = Writing \ {a} /\ Reloading' = Reloading \cup {a}
  BY <1>1, <1>2, Moves
<1>4. Writing' = Writing /\ Reloading' = Reloading
  BY <1>2, <1>3 DEF Writing, Reloading
<1>5. TypeOK' /\ SavesCounted'
  BY <1>2, <1>3, <1>4 DEF StoreInv, TypeOK, AdminTypes, SavesCounted, requestVars
<1>6. ReadBack' /\ CacheIsStored' /\ AllClean'
  BY <1>1, <1>2, <1>3 DEF StoreInv, ReadBack, CacheIsStored, AllClean
<1>7. QED
  BY <1>2, <1>5, <1>6, SlotsUntouched DEF StoreInv

\* A reload that fails or succeeds ends the save it belongs to.
LEMMA PublishStep ==
  ASSUME StoreInv, NEW a \in Admins, ReloadFails(a) \/ Publish(a) PROVE StoreInv'
<1> DEFINE c == [pc |-> "idle", list |-> NoEngines, base |-> 0]
<1>1. /\ admin \in [Admins -> AdminTypes] /\ NoEngines \in Lists /\ CleanList(NoEngines)
      /\ admin[a] \in AdminTypes /\ admin[a].list \in Lists /\ admin[a].base \in Nat
      /\ settings.n \in 0..MaxSaves /\ cache.reload \in 0..MaxSaves
  <2>1. NoEngines \in Lists /\ CleanList(NoEngines)
    BY ListShape DEF NoEngines, CleanList
  <2>2. admin \in [Admins -> AdminTypes] /\ settings.n \in 0..MaxSaves
        /\ cache.reload \in 0..MaxSaves
    BY DEF StoreInv, TypeOK, AdminTypes, Reloads
  <2>3. QED
    BY <2>1, <2>2 DEF AdminTypes
<1>2. c \in AdminTypes /\ c.pc = "idle" /\ c.list = NoEngines /\ Idle = c
  BY <1>1, StoreAssumption DEF AdminTypes, Idle
<1> HIDE DEF c
<1>3. /\ UNCHANGED <<settings, requestVars>> /\ admin[a].pc \in {"reload", "publish"}
      /\ admin' = [admin EXCEPT ![a] = c]
  BY <1>2 DEF ReloadFails, Publish, requestVars
<1>4. /\ admin' \in [Admins -> AdminTypes] /\ admin'[a] = c
      /\ \A b \in Admins : b # a => admin'[b] = admin[b]
      /\ Writing' = Writing \ {a} /\ Reloading' = Reloading \ {a}
  BY <1>1, <1>2, <1>3, Moves
<1>5. Writing' = Writing
  BY <1>3, <1>4 DEF Writing
<1>6. Cardinality(Reloading') = Cardinality(Reloading) - 1 /\ Cardinality(Reloading) >= 1
  <2>1. a \in Reloading
    BY <1>3 DEF Reloading
  <2>2. Cardinality(Reloading \ {a}) = Cardinality(Reloading) - 1
        /\ Cardinality(Reloading \ {a}) \in Nat
    BY <2>1, Countable, FS_RemoveElement, FS_CardinalityType
  <2>3. QED
    BY <1>4, <2>2, Countable
<1>7. CASE ReloadFails(a)
  <2>1. cache' = [cache EXCEPT !.list = NoEngines, !.overtaken = FALSE, !.failed = TRUE]
    BY <1>7 DEF ReloadFails
  <2>2. /\ cache' \in [list : Lists, reload : Reloads, overtaken : BOOLEAN, failed : BOOLEAN]
        /\ cache'.list = NoEngines /\ cache'.reload = cache.reload /\ cache'.failed
    BY <1>1, <2>1 DEF StoreInv, TypeOK
  <2>3. TypeOK'
    BY <1>3, <1>4, <2>2 DEF StoreInv, TypeOK, AdminTypes, requestVars
  <2>4. SavesCounted'
    BY <1>1, <1>3, <1>5, <1>6, <2>2, Countable DEF StoreInv, SavesCounted
  <2>5. CacheIsStored'
    BY <2>2 DEF CacheIsStored
  <2>6. ReadBack' /\ AllClean'
    BY <1>1, <1>2, <1>3, <1>4, <2>2 DEF StoreInv, ReadBack, AllClean
  <2>7. QED
    BY <1>3, <2>3, <2>4, <2>5, <2>6, SlotsUntouched DEF StoreInv
<1>8. CASE Publish(a)
  <2>1. /\ admin[a].pc = "publish"
        /\ cache' = [list |-> admin[a].list, reload |-> cache.reload + 1,
                     overtaken |-> admin[a].base # settings.n, failed |-> FALSE]
    BY <1>8 DEF Publish
  <2>2. SavesCounted'
    BY <1>1, <1>3, <1>5, <1>6, <2>1, Countable DEF StoreInv, SavesCounted
  <2>3. cache.reload + 1 \in Reloads
    BY <1>1, <1>6, Countable, StoreAssumption DEF StoreInv, SavesCounted, Reloads
  <2>4. cache' \in [list : Lists, reload : Reloads, overtaken : BOOLEAN, failed : BOOLEAN]
    BY <1>1, <2>1, <2>3
  <2>5. TypeOK'
    BY <1>3, <1>4, <2>4 DEF StoreInv, TypeOK, AdminTypes, requestVars
  <2>6. CacheIsStored'
    <3>1. cache'.list = admin[a].list /\ (cache'.overtaken <=> admin[a].base # settings.n)
      BY <2>1
    <3>2. admin[a].base = settings.n => admin[a].list = settings.list
      BY <2>1 DEF StoreInv, ReadBack
    <3>3. QED
      BY <1>3, <3>1, <3>2 DEF CacheIsStored
  <2>7. ReadBack' /\ AllClean'
    BY <1>1, <1>2, <1>3, <1>4, <2>1 DEF StoreInv, ReadBack, AllClean
  <2>8. QED
    BY <1>3, <2>2, <2>5, <2>6, <2>7, SlotsUntouched DEF StoreInv
<1>9. QED
  BY <1>7, <1>8

-----------------------------------------------------------------------------
(* Requests.                                                               *)

RequestTypes == [pc : {"idle", "waiting", "holding"}, adapter : Adapters \cup {NoAdapter}]

\* Requests leave the list alone.
LEMMA StoreUntouched ==
  ASSUME StoreInv, UNCHANGED storeVars
  PROVE  SavesCounted' /\ ReadBack' /\ CacheIsStored' /\ AllClean'
  BY DEF StoreInv, storeVars, SavesCounted, ReadBack, CacheIsStored, AllClean, CleanList, Clean,
         Writing, Reloading

\* A slot is taken on the adapter the request was routed to and returned there,
\* whatever was published in the meantime.
LEMMA RequestStep ==
  ASSUME StoreInv, NEW r \in Requests,
         (\E e \in Ids : Route(r, e)) \/ TryAcquire(r) \/ GiveUp(r) \/ Release(r)
  PROVE  StoreInv'
<1>1. UNCHANGED storeVars
  BY DEF Route, TryAcquire, GiveUp, Release, storeVars
<1>2. request \in [Requests -> RequestTypes] /\ sem \in [Adapters -> 0..Slots]
      /\ cache.reload \in Reloads
      /\ \A x \in Adapters : sem[x] = Cardinality(Holding(x))
  BY DEF StoreInv, TypeOK, RequestTypes, SlotsAccounted, Holding
<1>3. ASSUME request' \in [Requests -> RequestTypes], sem' \in [Adapters -> 0..Slots],
             Routed', \A x \in Adapters : sem'[x] = Cardinality(Holding(x)')
      PROVE  StoreInv'
  <2>1. TypeOK' /\ SlotsAccounted'
    BY <1>1, <1>3 DEF StoreInv, TypeOK, RequestTypes, storeVars, SlotsAccounted, Holding
  <2>2. QED
    BY <1>1, <1>3, <2>1, StoreUntouched DEF StoreInv
<1>4. ASSUME NEW e \in Ids, Route(r, e) PROVE StoreInv'
  <2>1. /\ <<cache.reload, e>> \in Adapters /\ request[r].pc = "idle" /\ sem' = sem
        /\ request' = [request EXCEPT ![r] = [pc |-> "waiting", adapter |-> <<cache.reload, e>>]]
    BY <1>2, <1>4 DEF Route, Adapters
  <2>2. request' \in [Requests -> RequestTypes] /\ Routed'
    BY <1>2, <2>1 DEF StoreInv, Routed, RequestTypes
  <2>3. \A x : Holding(x)' = Holding(x)
    BY <1>2, <2>1 DEF Holding
  <2>4. QED
    BY <1>2, <1>3, <2>1, <2>2, <2>3
<1>5. CASE GiveUp(r)
  <2>1. /\ request[r].pc = "waiting" /\ sem' = sem
        /\ request' = [request EXCEPT ![r] = [pc |-> "idle", adapter |-> NoAdapter]]
    BY <1>5 DEF GiveUp, Done
  <2>2. request' \in [Requests -> RequestTypes] /\ Routed'
    BY <1>2, <2>1 DEF StoreInv, Routed, RequestTypes
  <2>3. \A x : Holding(x)' = Holding(x)
    BY <1>2, <2>1 DEF Holding
  <2>4. QED
    BY <1>2, <1>3, <2>1, <2>2, <2>3
<1>6. CASE TryAcquire(r)
  <2>0. PICK x \in Adapters : x = request[r].adapter
    BY <1>6 DEF TryAcquire, StoreInv, Routed
  <2>1. /\ request[r].pc = "waiting" /\ x = request[r].adapter /\ sem[x] < Slots
        /\ sem' = [sem EXCEPT ![x] = sem[x] + 1]
        /\ request' = [request EXCEPT ![r].pc = "holding"]
    BY <1>6, <2>0 DEF TryAcquire
  <2>2. request' \in [Requests -> RequestTypes] /\ Routed'
    BY <1>2, <2>1 DEF StoreInv, Routed, RequestTypes
  <2>3. sem' \in [Adapters -> 0..Slots]
    BY <1>2, <2>1, StoreAssumption
  <2>4. /\ Holding(x)' = Holding(x) \cup {r} /\ r \notin Holding(x)
        /\ \A y : y # x => Holding(y)' = Holding(y)
    BY <1>2, <2>1 DEF Holding, RequestTypes
  <2>5. Cardinality(Holding(x)') = sem[x] + 1
    <3>1. Cardinality(Holding(x) \cup {r}) = Cardinality(Holding(x)) + 1
      BY <2>4, Countable, FS_AddElement
    <3>2. QED
      BY <1>2, <2>1, <2>4, <3>1
  <2>6. \A y \in Adapters : sem'[y] = Cardinality(Holding(y)')
    BY <1>2, <2>1, <2>4, <2>5
  <2>7. QED
    BY <1>3, <2>2, <2>3, <2>6
<1>7. CASE Release(r)
  <2>0. PICK x \in Adapters : x = request[r].adapter
    BY <1>7 DEF Release, StoreInv, Routed
  <2>1. /\ request[r].pc = "holding" /\ x = request[r].adapter /\ sem' = Drained(x)
        /\ request' = [request EXCEPT ![r] = [pc |-> "idle", adapter |-> NoAdapter]]
    BY <1>7, <2>0 DEF Release, Done
  <2>2. request' \in [Requests -> RequestTypes] /\ Routed'
    BY <1>2, <2>1 DEF StoreInv, Routed, RequestTypes
  <2>3. /\ Holding(x)' = Holding(x) \ {r} /\ r \in Holding(x)
        /\ \A y : y # x => Holding(y)' = Holding(y)
    BY <1>2, <2>1 DEF Holding, RequestTypes
  <2>4. Cardinality(Holding(x)') = sem[x] - 1 /\ sem[x] > 0
    <3>1. Cardinality(Holding(x) \ {r}) = Cardinality(Holding(x)) - 1
      BY <2>3, Countable, FS_RemoveElement
    <3>2. Cardinality(Holding(x) \ {r}) \in Nat
      BY Countable, FS_RemoveElement, FS_CardinalityType
    <3>3. QED
      BY <1>2, <2>1, <2>3, <3>1, <3>2, Countable
  <2>5. sem' = [sem EXCEPT ![x] = sem[x] - 1]
    BY <1>2, <2>1, <2>4 DEF Drained
  <2>6. sem' \in [Adapters -> 0..Slots]
    BY <1>2, <2>1, <2>4, <2>5, StoreAssumption
  <2>7. \A y \in Adapters : sem'[y] = Cardinality(Holding(y)')
    BY <1>2, <2>1, <2>3, <2>4, <2>5
  <2>8. QED
    BY <1>3, <2>2, <2>6, <2>7
<1>8. QED
  BY <1>4, <1>5, <1>6, <1>7

LEMMA InvStep == StoreInv /\ [Next]_vars => StoreInv'
<1> SUFFICES ASSUME StoreInv, [Next]_vars PROVE StoreInv'
  OBVIOUS
<1>1. ASSUME NEW a \in Admins,
             EditEngines(a) \/ setSetting(a) \/ ReloadReads(a) \/ ReloadFails(a) \/ Publish(a)
      PROVE  StoreInv'
  BY <1>1, EditStep, SaveStep, ReloadStep, PublishStep
<1>2. ASSUME NEW r \in Requests, NEW e \in Ids, Route(r, e) PROVE StoreInv'
  BY <1>2, RequestStep
<1>3. ASSUME NEW r \in Requests, TryAcquire(r) \/ GiveUp(r) \/ Release(r) PROVE StoreInv'
  BY <1>3, RequestStep
<1>4. CASE UNCHANGED vars
  <2>1. UNCHANGED storeVars /\ UNCHANGED requestVars
    BY <1>4 DEF vars, storeVars, requestVars
  <2>2. TypeOK'
    BY <1>4 DEF vars, StoreInv, TypeOK
  <2>3. QED
    BY <2>1, <2>2, StoreUntouched, SlotsUntouched DEF StoreInv
<1>5. QED
  BY <1>1, <1>2, <1>3, <1>4 DEF Next

LEMMA StoreInvariant == Spec => []StoreInv
  BY InvInit, InvStep, PTL DEF Spec

-----------------------------------------------------------------------------
(* Theorems.                                                               *)

\* Type correctness: the settings row, the cache, the handlers, the requests
\* and the limiters always have their types; no channel exceeds its capacity
\* (engine.go TryAcquire), and no more lists are published than were saved.
THEOREM TypeCorrect == Spec => []TypeOK
<1>1. StoreInv => TypeOK
  BY DEF StoreInv
<1>2. QED
  BY <1>1, StoreInvariant, PTL

\* Every limiter holds exactly the slots of the requests that use it
\* (api_handlers.go acquireEngine and its deferred release, over any number of
\* reloads).
THEOREM NoSlotLeaks == Spec => []SlotsAccounted
<1>1. StoreInv => SlotsAccounted
  BY DEF StoreInv
<1>2. QED
  BY <1>1, StoreInvariant, PTL

\* With no handler at work requests are routed over the stored list, unless the
\* last reload failed or was overtaken (engine.go saveEngines,
\* reloadEngineCache).
THEOREM CacheFollowsStore == Spec => []CacheIsStored
<1>1. StoreInv => CacheIsStored
  BY DEF StoreInv
<1>2. QED
  BY <1>1, StoreInvariant, PTL

\* No interleaving of edits stores or serves an engine with a field of the
\* other type (handlers.go applyEngineEdit).
THEOREM EditsLeaveNothing == Spec => []NoLeftoverFields
<1>1. StoreInv => NoLeftoverFields
  BY DEF StoreInv, AllClean, CleanList, Clean, NoLeftoverFields
<1>2. QED
  BY <1>1, StoreInvariant, PTL
=============================================================================
