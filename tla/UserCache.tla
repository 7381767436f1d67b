------------------------------ MODULE UserCache ------------------------------
(***************************************************************************)
(* Users as API requests and admin pages see them: the users table, the    *)
(* LRU cache in front of it (db.go), bearer-key authentication (main.go),  *)
(* the admin handlers that edit a user (handlers.go) and the per-user      *)
(* token buckets (ratelimit.go).                                           *)
(*                                                                         *)
(* A row carries, beside the columns that matter here, the number of edits *)
(* made to it; an API key is named by the edit that issued it.  Time is    *)
(* counted in ticks of at least a minute, in which any bucket fills up.    *)
(***************************************************************************)
EXTENDS Integers, Sequences, SequencesExt, FiniteSets

CONSTANTS Users, Requests, Admins,
          Limits,          \* the per-minute limits an admin may set
          DefaultRL,       \* the limit of a new user
          UserCacheCap, UserCacheTTL, IdleEvictAfter,
          MaxEdits,        \* bound on the edits of one user
          Nil

ASSUME UserAssumption ==
  /\ Limits \subseteq Nat \ {0} /\ DefaultRL \in Nat /\ MaxEdits \in Nat
  /\ UserCacheCap \in Nat \ {0} /\ UserCacheTTL \in Nat \ {0}
  /\ IdleEvictAfter \in Nat \ {0}
  /\ Requests \cap Admins = {} /\ Nil \notin Int
  /\ IsFiniteSet(Users) /\ IsFiniteSet(Requests) /\ IsFiniteSet(Admins)

VARIABLES db,       \* db[u]: the row of u
          cache,    \* userCacheLRU, the most recently used entry first
          call,     \* call[p]: an API request or an admin handler
          limiter,  \* limiter[u]: the bucket of u in rlReg.m, or Nil
          bucket,   \* bucket[b]: a userLimiter object
          settled,  \* history: edits of u made before its last invalidation
          ideal     \* history: the tokens u may count on, or Nil

userVars == <<db, cache, settled>>
limiterVars == <<limiter, bucket, ideal>>
vars == <<userVars, limiterVars, call>>

Processes == Requests \cup Admins
AdminOps == {"toggle", "resetKey", "limit", "delete"}
Edits == 0..MaxEdits
Rows == [id : Users, key : Edits, status : {"none", "disabled", "active", "deleted"},
         limit : Limits \cup {DefaultRL}, ver : Edits]
CacheKeys == {"api", "id"} \X Users \X Edits

Exists(u) == db[u].status \in {"disabled", "active"}

-----------------------------------------------------------------------------

NoCall == [pc |-> "idle", op |-> "none", key |-> Nil, row |-> Nil, raced |-> FALSE,
           bucket |-> Nil]
NoBucket == [limit |-> 0, tokens |-> 0, idle |-> 0]
Buckets == 1..(Cardinality(Users) + Cardinality(Requests))

Init ==
  /\ db \in [Users -> {row \in Rows : /\ row.status \in {"none", "active"}
                                      /\ row.ver = 0 /\ row.key = 0
                                      /\ row.limit = DefaultRL}]
  /\ \A u \in Users : db[u].id = u
  /\ cache = <<>>
  /\ call = [p \in Processes |-> NoCall]
  /\ limiter = [u \in Users |-> Nil]
  /\ bucket = [b \in Buckets |-> NoBucket]
  /\ settled = [u \in Users |-> 0]
  /\ ideal = [u \in Users |-> db[u].limit]

\* p goes on to pc, or returns.
Goto(p, pc) == call' = [call EXCEPT ![p].pc = pc]
Return(p) == call' = [call EXCEPT ![p] = NoCall]

UserOf(p) == call[p].key[2]

-----------------------------------------------------------------------------
(* The cache.  A hit, a read and a store are separate critical sections.   *)

\* What is left of a list when the elements outside S are removed.
KeptUpTo(s, S) ==
  LET F[i \in 0..Len(s)] ==
        IF i = 0 THEN <<>> ELSE IF s[i] \in S THEN Append(F[i - 1], s[i]) ELSE F[i - 1]
  IN F
Kept(s, S) == KeptUpTo(s, S)[Len(s)]

Without(key) == Kept(cache, {e \in ToSet(cache) : e.key # key})
ToFront(e) == <<e>> \o Without(e.key)
Live(e) == e.age < UserCacheTTL

\* Mutant: a hit counts as a renewal.
userCacheGet_Renews(p, c) ==
  IF \E e \in ToSet(cache) : e.key = c.key /\ Live(e)
    THEN \E e \in ToSet(cache) :
           /\ e.key = c.key
           /\ cache' = ToFront([e EXCEPT !.age = 0])
           /\ call' = [call EXCEPT ![p] = [c EXCEPT !.pc = "got", !.row = e.row, !.raced = e.raced]]
    ELSE /\ cache' = Without(c.key)
         /\ call' = [call EXCEPT ![p] = [c EXCEPT !.pc = "read"]]

\* A handler c of p begins by looking under its key.  An entry that has not
\* expired is used and moved to the front; an expired one is dropped.
userCacheGet(p, c) ==
  IF \E e \in ToSet(cache) : e.key = c.key /\ Live(e)
    THEN \E e \in ToSet(cache) :
           /\ e.key = c.key
           /\ cache' = ToFront(e)
           /\ call' = [call EXCEPT ![p] = [c EXCEPT !.pc = "got", !.row = e.row, !.raced = e.raced]]
    ELSE /\ cache' = Without(c.key)
         /\ call' = [call EXCEPT ![p] = [c EXCEPT !.pc = "read"]]

Matches(key) ==
  /\ Exists(key[2])
  /\ key[1] = "api" => db[key[2]].key = key[3]

\* The SELECT of getUserByAPIKey or getUserByID.  No row, or an error, ends the
\* request with a 401 and the admin page with a 404.
ReadRow(p) ==
  /\ call[p].pc = "read"
  /\ \/ /\ Matches(call[p].key)
        /\ call' = [call EXCEPT ![p].pc = "store", ![p].row = db[UserOf(p)]]
     \/ Return(p)
  /\ UNCHANGED <<userVars, limiterVars>>

\* Mutant: the tail is kept.
userCacheSet_NoEvict(p) ==
  /\ call[p].pc = "store"
  /\ cache' = ToFront([key |-> call[p].key, row |-> call[p].row, age |-> 0,
                       raced |-> call[p].raced])
  /\ Goto(p, "got")
  /\ UNCHANGED <<db, settled, limiterVars>>

\* userCacheSet: to the front, and off the tail what exceeds the capacity.
userCacheSet(p) ==
  LET filled == ToFront([key |-> call[p].key, row |-> call[p].row, age |-> 0,
                         raced |-> call[p].raced])
  IN /\ call[p].pc = "store"
     /\ cache' = IF Len(filled) > UserCacheCap THEN Front(filled) ELSE filled
     /\ Goto(p, "got")
     /\ UNCHANGED <<db, settled, limiterVars>>

-----------------------------------------------------------------------------
(* API requests: apiAuthMiddleware, then checkRateLimit.                   *)

\* A client presents a key that was issued to u at some time.
BeginRequest(r, u, n) ==
  /\ call[r].pc = "idle" /\ n <= db[u].ver
  /\ userCacheGet(r, [NoCall EXCEPT !.op = "api", !.key = <<"api", u, n>>])
  /\ UNCHANGED <<db, settled, limiterVars>>

\* Objects nothing points to are forgotten.
Referenced == {limiter[u] : u \in Users} \cup {call[r].bucket : r \in Requests}
Keep(objects) ==
  bucket' = [b \in Buckets |-> IF b \in Referenced' THEN objects[b] ELSE NoBucket]

\* Mutant: lastUse is set only when the bucket is made.
LimiterFor_NeverTouched(u, limit) ==
  IF limiter[u] # Nil /\ bucket[limiter[u]].limit = limit
    THEN [b |-> limiter[u], object |-> bucket[limiter[u]]]
    ELSE [b |-> CHOOSE b \in Buckets : b \notin Referenced,
          object |-> [limit |-> limit, tokens |-> limit, idle |-> 0]]

\* The bucket isAllowed uses: the registered one, unless there is none or it was
\* made for another limit.
LimiterFor(u, limit) ==
  IF limiter[u] # Nil /\ bucket[limiter[u]].limit = limit
    THEN [b |-> limiter[u], object |-> [bucket[limiter[u]] EXCEPT !.idle = 0]]
    ELSE [b |-> CHOOSE b \in Buckets : b \notin Referenced,
          object |-> [limit |-> limit, tokens |-> limit, idle |-> 0]]

\* Only the key of an active user is valid; anything else is a 401.
apiAuthMiddleware(row) == row.status = "active"

\* Authentication, then isAllowed under the registry's lock; a limit of zero
\* allows nothing.
FetchLimiter(r) ==
  LET u == UserOf(r)
      row == call[r].row
      found == LimiterFor(u, row.limit)
  IN /\ call[r].pc = "got" /\ call[r].op = "api"
     /\ IF ~apiAuthMiddleware(row) \/ row.limit <= 0
          THEN Return(r) /\ UNCHANGED limiterVars
          ELSE /\ call' = [call EXCEPT ![r].pc = "allow", ![r].bucket = found.b]
               /\ limiter' = [limiter EXCEPT ![u] = found.b]
               /\ Keep([bucket EXCEPT ![found.b] = found.object])
               /\ ideal' = IF row.limit = db[u].limit THEN ideal ELSE [ideal EXCEPT ![u] = Nil]
     /\ UNCHANGED userVars

\* limiter.Allow, after the unlock, on the object found: granted or a 429.
Allow(r) ==
  LET u == UserOf(r)
      b == call[r].bucket
      granted == bucket[b].tokens > 0
  IN /\ call[r].pc = "allow"
     /\ Return(r)
     /\ UNCHANGED <<userVars, limiter>>
     /\ Keep(IF granted THEN [bucket EXCEPT ![b].tokens = @ - 1] ELSE bucket)
     /\ ideal' = IF granted /\ ideal[u] # Nil THEN [ideal EXCEPT ![u] = @ - 1] ELSE ideal

-----------------------------------------------------------------------------
(* Admin handlers.                                                         *)

\* handleRegister, createUser: a new id, disabled, with the default limit.
createUser(u) ==
  /\ db[u].status = "none"
  /\ db' = [db EXCEPT ![u].status = "disabled"]
  /\ UNCHANGED <<cache, settled, limiterVars, call>>

\* handleToggle and handleAdminResetKey look the user up first, through the
\* cache; handleUpdateRateLimit and handleDelete go straight to the database.
BeginEdit(a, op, u) ==
  /\ call[a].pc = "idle"
  /\ db[u].ver + Cardinality({b \in Admins : call[b].pc # "idle"}) < MaxEdits
  /\ LET c == [NoCall EXCEPT !.op = op, !.key = <<"id", u, 0>>]
     IN IF op \in {"toggle", "resetKey"}
          THEN userCacheGet(a, c)
          ELSE call' = [call EXCEPT ![a] = [c EXCEPT !.pc = "got"]] /\ UNCHANGED cache
  /\ UNCHANGED <<db, settled, limiterVars>>

\* The statement of each edit, on the row as it is now.  A toggle writes the
\* opposite of the status it looked up.
Edited(a, row) ==
  CASE call[a].op = "toggle" ->
         {[row EXCEPT !.status = IF call[a].row.status = "active" THEN "disabled" ELSE "active"]}
    [] call[a].op = "resetKey" -> {[row EXCEPT !.key = row.ver + 1]}
    [] call[a].op = "limit" -> {[row EXCEPT !.limit = l] : l \in Limits}
    [] call[a].op = "delete" -> {[row EXCEPT !.status = "deleted"]}

\* updateUserStatus, resetUserAPIKey, updateUserRateLimit or deleteUser.  On an
\* error nothing else happens; a row that is gone is no error.
UpdateRow(a) ==
  LET u == UserOf(a)
  IN /\ call[a].pc = "got" /\ call[a].op \in AdminOps
     /\ \/ Return(a) /\ UNCHANGED <<db, ideal>>
        \/ /\ Goto(a, "invalidate")
           /\ \E row \in Edited(a, db[u]) :
                db' = IF Exists(u) THEN [db EXCEPT ![u] = [row EXCEPT !.ver = @ + 1]] ELSE db
           /\ ideal' = IF call[a].op \in {"limit", "delete"}
                         THEN [ideal EXCEPT ![u] = Nil] ELSE ideal
     /\ UNCHANGED <<cache, settled, limiter, bucket>>

\* Rows read before the invalidation and not yet stored.
Racing(u) ==
  [p \in Processes |->
     IF call[p].pc = "store" /\ UserOf(p) = u THEN [call[p] EXCEPT !.raced = TRUE] ELSE call[p]]

\* Mutant: only the entry under the id is dropped.
Dropped_ById(u) == Kept(cache, {e \in ToSet(cache) : e.key # <<"id", u, 0>>})

\* The entry under the id, and every key's entry that holds this user.
Dropped(u) == Kept(cache, {e \in ToSet(cache) : e.row.id # u})

invalidateUserCache(a) ==
  LET u == UserOf(a)
      next == IF call[a].op \in {"limit", "delete"}
                THEN [call[a] EXCEPT !.pc = "drop"] ELSE NoCall
  IN /\ call[a].pc = "invalidate"
     /\ cache' = Dropped(u)
     /\ settled' = [settled EXCEPT ![u] = db[u].ver]
     /\ call' = [Racing(u) EXCEPT ![a] = next]
     /\ UNCHANGED <<db, limiterVars>>

dropUserLimiter(a) ==
  /\ call[a].pc = "drop"
  /\ limiter' = [limiter EXCEPT ![UserOf(a)] = Nil]
  /\ Return(a)
  /\ Keep(bucket)
  /\ UNCHANGED <<userVars, ideal>>

\* handleResetSystem: every bucket is discarded.
resetAllLimiters ==
  /\ limiter' = [u \in Users |-> Nil]
  /\ ideal' = [u \in Users |-> Nil]
  /\ UNCHANGED <<userVars, call>>
  /\ Keep(bucket)

-----------------------------------------------------------------------------
(* Time.                                                                   *)

sweepIdleLimiters ==
  /\ limiter' = [u \in Users |->
       IF limiter[u] # Nil /\ bucket[limiter[u]].idle >= IdleEvictAfter THEN Nil ELSE limiter[u]]
  /\ UNCHANGED <<userVars, ideal, call>>
  /\ Keep(bucket)

Lower(m, n) == IF m < n THEN m ELSE n

\* Some seconds: the buckets of one limit gain a token.
Refill(limit) ==
  /\ bucket' = [b \in Buckets |->
       IF bucket[b].limit = limit
         THEN [bucket[b] EXCEPT !.tokens = Lower(limit, @ + 1)] ELSE bucket[b]]
  /\ ideal' = [u \in Users |->
       IF ideal[u] # Nil /\ db[u].limit = limit THEN Lower(limit, ideal[u] + 1) ELSE ideal[u]]
  /\ UNCHANGED <<userVars, limiter, call>>

Holding(u) == \E r \in Requests : call[r].pc = "allow" /\ UserOf(r) = u

\* Nothing of u's last limit change is under way or cached any more.
Quiet(u) ==
  /\ ~Holding(u)
  /\ \A p \in Processes : call[p].pc # "idle" /\ UserOf(p) = u =>
       p \in Requests /\ (call[p].row # Nil => call[p].row.limit = db[u].limit)
  /\ \A e \in ToSet(cache) : e.row.id = u => e.row.limit = db[u].limit

\* A minute or more.  Nothing is claimed of a user whose request pauses that
\* long between finding its bucket and Allow.
Tick ==
  /\ cache' = [i \in DOMAIN cache |->
                 [cache[i] EXCEPT !.age = Lower(UserCacheTTL, @ + 1)]]
  /\ bucket' = [b \in Buckets |->
       [bucket[b] EXCEPT !.tokens = bucket[b].limit,
                         !.idle = IF bucket[b].limit = 0 THEN 0 ELSE Lower(IdleEvictAfter, @ + 1)]]
  /\ ideal' = [u \in Users |-> 
       IF Quiet(u) \/ (ideal[u] # Nil /\ ~Holding(u)) THEN db[u].limit ELSE Nil]
  /\ UNCHANGED <<db, call, limiter, settled>>

-----------------------------------------------------------------------------

Lookup(p) == ReadRow(p) \/ userCacheSet(p)
RequestStep(r) == Lookup(r) \/ FetchLimiter(r) \/ Allow(r)
AdminStep(a) == Lookup(a) \/ UpdateRow(a) \/ invalidateUserCache(a) \/ dropUserLimiter(a)

Next ==
  \/ \E r \in Requests : RequestStep(r)
  \/ \E r \in Requests, u \in Users, n \in Edits : BeginRequest(r, u, n)
  \/ \E a \in Admins : AdminStep(a)
  \/ \E a \in Admins, op \in AdminOps, u \in Users : BeginEdit(a, op, u)
  \/ \E u \in Users : createUser(u)
  \/ \E l \in Limits \cup {DefaultRL} : Refill(l)
  \/ resetAllLimiters \/ sweepIdleLimiters \/ Tick

\* Handlers that have begun run on, and the clock does not stop.
Fairness ==
  /\ \A r \in Requests : WF_vars(RequestStep(r))
  /\ \A a \in Admins : WF_vars(AdminStep(a))
  /\ WF_vars(Tick)

Spec == Init /\ [][Next]_vars /\ Fairness

-----------------------------------------------------------------------------
(* Properties.                                                             *)

Calls == [pc : {"idle", "read", "store", "got", "allow",
                "invalidate", "drop"},
          op : AdminOps \cup {"api", "none"}, key : CacheKeys \cup {Nil},
          row : Rows \cup {Nil}, raced : BOOLEAN,
          bucket : Buckets \cup {Nil}]

\* The users table, the cache within userCacheCap, the handlers, the buckets
\* and the histories have their types.
TypeOK ==
  /\ db \in [Users -> Rows]
  /\ cache \in Seq([key : CacheKeys, row : Rows, age : 0..UserCacheTTL, raced : BOOLEAN])
  /\ Len(cache) <= UserCacheCap
  /\ call \in [Processes -> Calls]
  /\ limiter \in [Users -> Buckets \cup {Nil}]
  /\ bucket \in [Buckets -> [limit : Nat, tokens : Nat, idle : 0..IdleEvictAfter]]
  /\ \A b \in Buckets : bucket[b].tokens <= bucket[b].limit
  /\ settled \in [Users -> Edits] /\ ideal \in [Users -> Int \cup {Nil}]

\* invalidateUserCache after every edit leaves nothing older behind: a cached
\* row from before it can only have been stored by a lookup that had read the
\* row before and stored it after, whichever key it is cached under.
StaleRowsRaced ==
  \A e \in ToSet(cache) : e.row.ver >= settled[e.row.id] \/ e.raced

\* Once a user is no longer edited, every request let through acts on the row as
\* it is, of an active user and under the current key: a disabled user, a
\* replaced key, an old limit and a deleted user are all forgotten, raced
\* lookups included, because hits do not extend userCacheEntry.exp.
EditsTakeHold ==
  <>[](\A r \in Requests : call[r].pc = "allow" =>
         call[r].row = db[UserOf(r)] /\ call[r].row.status = "active")

\* isAllowed never grants more than one token bucket of the user's limit would,
\* over sweeps, cached rows and buckets used outside the lock, as long as the
\* limit was not changed nor the limiters reset within the minute.
BurstBounded == \A u \in Users : ideal[u] # Nil => ideal[u] >= 0
=============================================================================
