--------------------------- MODULE UserCacheProofs ---------------------------
(***************************************************************************)
(* Proofs about UserCache for any finite sets of users, requests and       *)
(* admins, any capacity and ages of the cache and any limits.              *)
(***************************************************************************)
EXTENDS UserCache, RecursionFacts, FiniteSetTheorems, TLAPS

-----------------------------------------------------------------------------
(* Removing elements from a list.                                          *)

KeepStep(s, S, T) ==
  [x \in (1..Len(s)) \X Seq(T) |-> IF s[x[1]] \in S THEN Append(x[2], s[x[1]]) ELSE x[2]]

\* The recursive definition has its intended meaning.
LEMMA KeptRuns ==
  ASSUME NEW T, NEW s \in Seq(T), NEW S
  PROVE  /\ KeptUpTo(s, S) \in [0..Len(s) -> Seq(T)]
         /\ KeptUpTo(s, S)[0] = <<>>
         /\ \A i \in 1..Len(s) : KeptUpTo(s, S)[i] =
              IF s[i] \in S THEN Append(KeptUpTo(s, S)[i - 1], s[i]) ELSE KeptUpTo(s, S)[i - 1]
<1> DEFINE step == KeepStep(s, S, T)
           Eqn(f) == f = [i \in 0..Len(s) |-> IF i = 0 THEN <<>>
                            ELSE IF s[i] \in S THEN Append(f[i - 1], s[i]) ELSE f[i - 1]]
<1>1. Len(s) \in Nat /\ \A i \in 1..Len(s) : s[i] \in T
  OBVIOUS
<1>2. step \in [(1..Len(s)) \X Seq(T) -> Seq(T)]
  BY <1>1 DEF KeepStep
<1>3. <<>> \in Seq(T)
  OBVIOUS
<1>4. PICK f : Runs(f, Len(s), Seq(T), <<>>, step)
  BY <1>1, <1>2, <1>3, RunExists
<1>5. f \in [0..Len(s) -> Seq(T)] /\ f[0] = <<>>
  BY <1>4 DEF Runs
<1>6. ASSUME NEW i \in 1..Len(s)
      PROVE  f[i] = IF s[i] \in S THEN Append(f[i - 1], s[i]) ELSE f[i - 1]
  <2>1. f[i - 1] \in Seq(T)
    BY <1>1, <1>5
  <2>2. f[i] = step[<<i, f[i - 1]>>]
    BY <1>4 DEF Runs
  <2>3. QED
    BY <2>1, <2>2 DEF KeepStep
<1>7. Eqn(f)
  <2> DEFINE g == [i \in 0..Len(s) |-> IF i = 0 THEN <<>>
                     ELSE IF s[i] \in S THEN Append(f[i - 1], s[i]) ELSE f[i - 1]]
  <2>1. ASSUME NEW i \in 0..Len(s) PROVE f[i] = g[i]
    <3>1. CASE i = 0
      BY <1>5, <3>1
    <3>2. CASE i # 0
      <4>1. i \in 1..Len(s)
        BY <1>1, <3>2
      <4>2. QED
        BY <1>6, <3>2, <4>1
    <3>3. QED
      BY <3>1, <3>2
  <2>2. f = g
    BY <1>5, <2>1
  <2>3. QED
    BY <2>2
<1>8. KeptUpTo(s, S) = CHOOSE F : Eqn(F)
  BY DEF KeptUpTo
<1> DEFINE K == KeptUpTo(s, S)
<1>9. Eqn(K)
  BY <1>7, <1>8
<1>10. K[0] = <<>> /\ DOMAIN K = 0..Len(s)
  BY <1>1, <1>9
<1>11. ASSUME NEW i \in 1..Len(s)
       PROVE  K[i] = IF s[i] \in S THEN Append(K[i - 1], s[i]) ELSE K[i - 1]
  <2>1. i \in 0..Len(s) /\ i # 0
    BY <1>1
  <2>2. QED
    BY <1>9, <2>1
<1> DEFINE U == {n \in Nat : n <= Len(s) => K[n] \in Seq(T)}
<1> HIDE DEF K
<1>12. 0 \in U
  BY <1>3, <1>10
<1>13. ASSUME NEW n \in Nat, n \in U PROVE n + 1 \in U
  <2> SUFFICES ASSUME n + 1 <= Len(s) PROVE K[n + 1] \in Seq(T)
    OBVIOUS
  <2>1. PICK i \in 1..Len(s) : i = n + 1 /\ i - 1 = n
    BY <1>1
  <2>2. K[i - 1] \in Seq(T) /\ s[i] \in T
    BY <1>1, <1>13, <2>1
  <2>3. K[i] = IF s[i] \in S THEN Append(K[i - 1], s[i]) ELSE K[i - 1]
    BY <1>11
  <2>4. K[i] \in Seq(T)
    <3>1. CASE s[i] \in S
      BY <2>2, <2>3, <3>1
    <3>2. CASE s[i] \notin S
      BY <2>2, <2>3, <3>2
    <3>3. QED
      BY <3>1, <3>2
  <2>5. QED
    BY <2>1, <2>4
<1> HIDE DEF U
<1>14. \A n \in Nat : n \in U
  BY <1>12, <1>13, SetInduction
<1>15. K \in [0..Len(s) -> Seq(T)]
  <2>1. \A n \in 0..Len(s) : K[n] \in Seq(T)
    BY <1>1, <1>14 DEF U
  <2>2. K = [n \in 0..Len(s) |-> K[n]]
    BY <1>9 DEF K
  <2>3. QED
    BY <2>1, <2>2
<1>16. QED
  BY <1>10, <1>11, <1>15 DEF K

\* Kept returns elements of the list that are in S, no more of them than there
\* were, and fewer when one was not in S.
LEMMA KeptFacts ==
  ASSUME NEW T, NEW s \in Seq(T), NEW S
  PROVE  /\ Kept(s, S) \in Seq(T)
         /\ Len(Kept(s, S)) <= Len(s)
         /\ (\E i \in 1..Len(s) : s[i] \notin S) => Len(Kept(s, S)) < Len(s)
         /\ \A j \in 1..Len(Kept(s, S)) :
              \E i \in 1..Len(s) : Kept(s, S)[j] = s[i] /\ s[i] \in S
<1> DEFINE K == KeptUpTo(s, S)
           Good(n) == /\ Len(K[n]) <= n
                      /\ (\E i \in 1..n : s[i] \notin S) => Len(K[n]) < n
                      /\ \A j \in 1..Len(K[n]) : \E i \in 1..n : K[n][j] = s[i] /\ s[i] \in S
           U == {n \in Nat : n <= Len(s) => Good(n)}
<1>1. /\ K \in [0..Len(s) -> Seq(T)] /\ K[0] = <<>>
      /\ \A i \in 1..Len(s) : K[i] = IF s[i] \in S THEN Append(K[i - 1], s[i]) ELSE K[i - 1]
  BY KeptRuns
<1>2. Len(s) \in Nat /\ \A i \in 1..Len(s) : s[i] \in T
  OBVIOUS
<1> HIDE DEF K
<1>3. 0 \in U
  BY <1>1
<1>4. ASSUME NEW n \in Nat, n \in U PROVE n + 1 \in U
  <2> SUFFICES ASSUME n + 1 <= Len(s) PROVE Good(n + 1)
    OBVIOUS
  <2>1. PICK k \in 1..Len(s) : k = n + 1 /\ k - 1 = n
    BY <1>2
  <2>2. K[n] \in Seq(T) /\ s[k] \in T /\ Good(n)
    <3>1. n \in 0..Len(s) /\ n <= Len(s)
      BY <1>2
    <3>2. QED
      BY <1>1, <1>2, <1>4, <3>1
  <2>3. K[k] = IF s[k] \in S THEN Append(K[n], s[k]) ELSE K[n]
    BY <1>1, <2>1
  <2>4. CASE s[k] \in S
    <3>1. K[k] = Append(K[n], s[k])
      BY <2>3, <2>4
    <3>2. PICK t \in Seq(T) : t = K[n]
      BY <2>2
    <3>3. Len(K[k]) = Len(t) + 1 /\ Len(t) \in Nat /\ K[k][Len(t) + 1] = s[k]
          /\ \A j \in 1..Len(t) : K[k][j] = t[j]
      BY <2>2, <3>1, <3>2
    <3>4. Len(K[k]) <= n + 1
      BY <2>2, <3>2, <3>3
    <3>5. (\E i \in 1..(n + 1) : s[i] \notin S) => Len(K[k]) < n + 1
      BY <2>1, <2>2, <2>4, <3>2, <3>3
    <3>6. ASSUME NEW j \in 1..Len(K[k])
          PROVE  \E i \in 1..(n + 1) : K[k][j] = s[i] /\ s[i] \in S
      <4>1. CASE j = Len(t) + 1
        BY <2>1, <2>4, <3>3, <4>1
      <4>2. CASE j # Len(t) + 1
        <5>1. j \in 1..Len(t)
          BY <3>3, <4>2
        <5>2. QED
          BY <2>2, <3>2, <3>3, <5>1
      <4>3. QED
        BY <4>1, <4>2
    <3>7. QED
      BY <2>1, <3>4, <3>5, <3>6
  <2>5. CASE s[k] \notin S
    <3>1. PICK t \in Seq(T) : t = K[n] /\ t = K[k]
      BY <2>2, <2>3, <2>5
    <3>2. Len(t) \in Nat /\ Len(t) <= n
      BY <2>2, <3>1
    <3>3. \A j \in 1..Len(t) : \E i \in 1..(n + 1) : t[j] = s[i] /\ s[i] \in S
      BY <2>2, <3>1
    <3>4. QED
      BY <2>1, <3>1, <3>2, <3>3
  <2>6. QED
    BY <2>4, <2>5
<1> HIDE DEF U
<1>5. \A n \in Nat : n \in U
  BY <1>3, <1>4, SetInduction
<1>6. Good(Len(s)) /\ K[Len(s)] \in Seq(T)
  BY <1>1, <1>2, <1>5 DEF U
<1>7. QED
  BY <1>6 DEF K, Kept

-----------------------------------------------------------------------------
(* The types, with what each handler holds at each of its steps.           *)

Entries == [key : CacheKeys, row : Rows, age : 0..UserCacheTTL, raced : BOOLEAN]
Objects == [limit : Nat, tokens : Nat, idle : 0..IdleEvictAfter]

\* The edits after which a limit or a user is no longer what it was.
Changing == {"limit", "delete"}

\* A handler under way has a key, a row once it has looked it up, and a bucket
\* exactly between isAllowed's unlock and Allow.
CallOK(c) ==
  /\ c.pc # "idle" => c.key \in CacheKeys
  /\ c.pc = "store" \/ (c.pc = "got" /\ c.op = "api") => c.row \in Rows
  /\ IF c.pc = "allow" THEN c.bucket \in Buckets ELSE c.bucket = Nil
  /\ c.pc = "drop" => c.op \in Changing

\* The handlers of f that may still edit u.
Pending(f, u) == {a \in Admins : f[a].pc \in {"read", "store", "got"} /\ f[a].key[2] = u}

\* TypeOK is not inductive: an edit counts up to MaxEdits only because every
\* handler that may still edit is counted, and LimiterFor needs a free bucket.
TypeInv ==
  /\ TypeOK
  /\ \A u \in Users : db[u].id = u
  /\ \A p \in Processes : CallOK(call[p])
  /\ \A u \in Users : db[u].ver + Cardinality(Pending(call, u)) <= MaxEdits

LEMMA Sizes ==
  /\ Cardinality(Users) \in Nat /\ Cardinality(Requests) \in Nat
  /\ Buckets \subseteq Nat /\ Nil \notin Buckets /\ Nil \notin Nat
<1>1. Cardinality(Users) \in Nat /\ Cardinality(Requests) \in Nat
  BY UserAssumption, FS_CardinalityType
<1>2. QED
  BY <1>1, UserAssumption DEF Buckets

LEMMA IdleCall == NoCall \in Calls /\ CallOK(NoCall) /\ NoCall.pc = "idle"
<1>1. NoCall \in Calls
  BY DEF NoCall, Calls
<1>2. QED
  BY <1>1 DEF NoCall, CallOK

LEMMA NoObject == NoBucket \in Objects /\ NoBucket.tokens <= NoBucket.limit
BY UserAssumption DEF NoBucket, Objects

\* One handler's new state.
LEMMA NewCall ==
  ASSUME NEW f \in [Processes -> Calls], \A q \in Processes : CallOK(f[q]),
         NEW p \in Processes, NEW c \in Calls, CallOK(c)
  PROVE  /\ [f EXCEPT ![p] = c] \in [Processes -> Calls]
         /\ \A q \in Processes : CallOK([f EXCEPT ![p] = c][q])
<1>1. ASSUME NEW q \in Processes PROVE CallOK([f EXCEPT ![p] = c][q])
  <2>1. CASE q = p
    <3>1. [f EXCEPT ![p] = c][q] = c
      BY <2>1
    <3>2. QED
      BY <3>1
  <2>2. CASE q # p
    <3>1. [f EXCEPT ![p] = c][q] = f[q]
      BY <2>2
    <3>2. QED
      BY <3>1
  <2>3. QED
    BY <2>1, <2>2
<1>2. QED
  BY <1>1

LEMMA PendingSize ==
  ASSUME NEW f, NEW u
  PROVE  IsFiniteSet(Pending(f, u)) /\ Cardinality(Pending(f, u)) \in Nat
<1>1. Pending(f, u) \in SUBSET Admins
  BY DEF Pending
<1>2. IsFiniteSet(Pending(f, u))
  BY <1>1, UserAssumption, FS_Subset
<1>3. QED
  BY <1>2, FS_CardinalityType

LEMMA Fewer ==
  ASSUME NEW f, NEW g, NEW u, Pending(g, u) \subseteq Pending(f, u)
  PROVE  Cardinality(Pending(g, u)) <= Cardinality(Pending(f, u))
BY PendingSize, FS_Subset

\* The entries left by Without and Dropped, and after a new front.
LEMMA WithoutFacts ==
  ASSUME TypeOK, NEW key
  PROVE  /\ Without(key) \in Seq(Entries) /\ Len(Without(key)) <= Len(cache)
         /\ ToSet(Without(key)) \subseteq ToSet(cache)
         /\ (\E e \in ToSet(cache) : e.key = key) => Len(Without(key)) < Len(cache)
<1> DEFINE S == {e \in ToSet(cache) : e.key # key}
<1>1. cache \in Seq(Entries)
  BY DEF TypeOK, Entries
<1>2. Without(key) = Kept(cache, S)
  BY DEF Without
<1> HIDE DEF S
<1>3. PICK w \in Seq(Entries) :
        /\ w = Without(key) /\ Len(w) <= Len(cache)
        /\ (\E i \in 1..Len(cache) : cache[i] \notin S) => Len(w) < Len(cache)
        /\ \A j \in 1..Len(w) : \E i \in 1..Len(cache) : w[j] = cache[i] /\ cache[i] \in S
  BY <1>1, <1>2, KeptFacts
<1>4. ToSet(w) \subseteq ToSet(cache)
  BY <1>1, <1>3 DEF ToSet
<1>5. ASSUME NEW e \in ToSet(cache), e.key = key PROVE Len(w) < Len(cache)
  <2>1. PICK i \in 1..Len(cache) : cache[i] = e
    BY <1>1 DEF ToSet
  <2>2. cache[i] \notin S
    BY <1>5, <2>1 DEF S
  <2>3. QED
    BY <1>3, <2>2
<1>6. QED
  BY <1>3, <1>4, <1>5

LEMMA FrontFacts ==
  ASSUME TypeOK, NEW e \in Entries
  PROVE  /\ ToFront(e) \in Seq(Entries) /\ Len(ToFront(e)) <= Len(cache) + 1
         /\ ToSet(ToFront(e)) \subseteq ToSet(cache) \cup {e}
         /\ (\E d \in ToSet(cache) : d.key = e.key) => Len(ToFront(e)) <= Len(cache)
<1>1. cache \in Seq(Entries)
  BY DEF TypeOK, Entries
<1>2. PICK w \in Seq(Entries) :
        /\ w = Without(e.key) /\ Len(w) <= Len(cache) /\ ToSet(w) \subseteq ToSet(cache)
        /\ (\E d \in ToSet(cache) : d.key = e.key) => Len(w) < Len(cache)
  BY WithoutFacts
<1>3. ToFront(e) = <<e>> \o w
  BY <1>2 DEF ToFront
<1>4. PICK t \in Seq(Entries) : t = ToFront(e) /\ Len(t) = Len(w) + 1
  <2>1. <<e>> \in Seq(Entries) /\ Len(<<e>>) = 1
    OBVIOUS
  <2>2. <<e>> \o w \in Seq(Entries) /\ Len(<<e>> \o w) = Len(w) + 1
    BY <2>1
  <2>3. QED
    BY <1>3, <2>2
<1>5. ASSUME NEW i \in 1..Len(t) PROVE t[i] \in ToSet(cache) \cup {e}
  <2>1. CASE i = 1
    BY <1>3, <1>4, <2>1
  <2>2. CASE i # 1
    <3>1. i - 1 \in 1..Len(w) /\ t[i] = w[i - 1]
      BY <1>3, <1>4, <2>2
    <3>2. QED
      BY <1>2, <3>1 DEF ToSet
  <2>3. QED
    BY <2>1, <2>2
<1>6. ToSet(t) \subseteq ToSet(cache) \cup {e}
  BY <1>5 DEF ToSet
<1>7. QED
  BY <1>1, <1>2, <1>4, <1>6

LEMMA DroppedFacts ==
  ASSUME TypeOK, NEW u
  PROVE  /\ Dropped(u) \in Seq(Entries) /\ Len(Dropped(u)) <= Len(cache)
         /\ \A e \in ToSet(Dropped(u)) : e \in ToSet(cache) /\ e.row.id # u
<1> DEFINE S == {e \in ToSet(cache) : e.row.id # u}
<1>1. cache \in Seq(Entries)
  BY DEF TypeOK, Entries
<1>2. Dropped(u) = Kept(cache, S)
  BY DEF Dropped
<1> HIDE DEF S
<1>3. PICK w \in Seq(Entries) :
        /\ w = Dropped(u) /\ Len(w) <= Len(cache)
        /\ \A j \in 1..Len(w) : \E i \in 1..Len(cache) : w[j] = cache[i] /\ cache[i] \in S
  BY <1>1, <1>2, KeptFacts
<1>4. \A e \in ToSet(w) : e \in S
  BY <1>3 DEF ToSet
<1>5. QED
  BY <1>3, <1>4 DEF S

\* Among as many buckets as there are users and requests, a request that holds
\* none finds one that nobody points to.
LEMMA FreeBucket ==
  ASSUME TypeOK, NEW r \in Requests, call[r].bucket = Nil
  PROVE  \E b \in Buckets : b \notin Referenced
<1> DEFINE others == Requests \ {r}
           A == {limiter[u] : u \in Users}
           B == {call[q].bucket : q \in others}
           f == [u \in Users |-> limiter[u]]
           g == [q \in others |-> call[q].bucket]
<1>1. IsFiniteSet(A) /\ Cardinality(A) <= Cardinality(Users)
  <2>1. f \in Surjection(Users, A)
    BY DEF Surjection
  <2>2. QED
    BY <2>1, UserAssumption, FS_Surjection
<1>2. IsFiniteSet(others) /\ Cardinality(others) = Cardinality(Requests) - 1
  BY UserAssumption, FS_RemoveElement
<1>3. IsFiniteSet(B) /\ Cardinality(B) <= Cardinality(others)
  <2>1. g \in Surjection(others, B)
    BY DEF Surjection
  <2>2. QED
    BY <1>2, <2>1, FS_Surjection
<1> HIDE DEF A, B, others
<1>4. /\ IsFiniteSet(A \cup B)
      /\ Cardinality(A \cup B) <= Cardinality(A) + Cardinality(B)
      /\ Cardinality(A \cup B) \in Nat
  <2>1. /\ IsFiniteSet(A \cup B)
        /\ Cardinality(A \cup B) = Cardinality(A) + Cardinality(B) - Cardinality(A \cap B)
    BY <1>1, <1>3, FS_Union
  <2>2. IsFiniteSet(A \cap B)
    <3>1. A \cap B \in SUBSET A
      OBVIOUS
    <3>2. QED
      BY <1>1, <3>1, FS_Subset
  <2>3. /\ Cardinality(A) \in Nat /\ Cardinality(B) \in Nat
        /\ Cardinality(A \cap B) \in Nat /\ Cardinality(A \cup B) \in Nat
    BY <1>1, <1>3, <2>1, <2>2, FS_CardinalityType
  <2>4. QED
    BY <2>1, <2>3
<1>5. Cardinality(A \cup B) < Cardinality(Users) + Cardinality(Requests)
  BY <1>1, <1>2, <1>3, <1>4, Sizes, FS_CardinalityType
<1>6. Cardinality(Buckets) = Cardinality(Users) + Cardinality(Requests)
  <2>1. PICK n \in Nat : n = Cardinality(Users) + Cardinality(Requests)
    BY Sizes
  <2>2. Cardinality(1..n) = n
    BY FS_Interval
  <2>3. QED
    BY <2>1, <2>2 DEF Buckets
<1>7. ~(Buckets \subseteq A \cup B)
  <2> SUFFICES ASSUME Buckets \subseteq A \cup B PROVE FALSE
    OBVIOUS
  <2>1. Cardinality(Buckets) <= Cardinality(A \cup B)
    BY <1>4, FS_Subset
  <2>2. QED
    BY <1>4, <1>5, <1>6, <2>1, Sizes
<1>8. \A b \in Referenced : b \in A \cup B \/ b = Nil
  BY DEF Referenced, A, B, others
<1>9. QED
  BY <1>7, <1>8, Sizes

\* The hash map of limiters after a step keeps the objects' types.
LEMMA KeepFacts ==
  ASSUME NEW o \in [Buckets -> Objects], \A b \in Buckets : o[b].tokens <= o[b].limit, NEW R
  PROVE  LET g == [b \in Buckets |-> IF b \in R THEN o[b] ELSE NoBucket]
         IN g \in [Buckets -> Objects] /\ \A b \in Buckets : g[b].tokens <= g[b].limit
BY NoObject

\* A lookup's first step changes one handler, which then has its row or reads
\* it, and the cache's order.
LEMMA GetFacts ==
  ASSUME TypeInv, NEW p \in Processes, NEW c \in Calls, c.key \in CacheKeys,
         c.bucket = Nil, userCacheGet(p, c)
  PROVE  /\ cache' \in Seq(Entries) /\ Len(cache') <= UserCacheCap
         /\ ToSet(cache') \subseteq ToSet(cache)
         /\ \E d \in Calls : /\ CallOK(d) /\ call' = [call EXCEPT ![p] = d]
                             /\ d.pc \in {"read", "got"} /\ d.key = c.key /\ d.op = c.op
<1>1. /\ TypeOK /\ cache \in Seq(Entries) /\ Len(cache) <= UserCacheCap
      /\ UserCacheCap \in Nat
  BY UserAssumption DEF TypeInv, TypeOK, Entries
<1>2. CASE \E e \in ToSet(cache) : e.key = c.key /\ Live(e)
  <2>1. PICK e \in ToSet(cache) :
          /\ e.key = c.key /\ cache' = ToFront(e)
          /\ call' = [call EXCEPT ![p] = [c EXCEPT !.pc = "got", !.row = e.row, !.raced = e.raced]]
    BY <1>2 DEF userCacheGet
  <2>2. e \in Entries
    BY <1>1 DEF ToSet
  <2>3. /\ ToFront(e) \in Seq(Entries) /\ Len(ToFront(e)) <= Len(cache)
        /\ ToSet(ToFront(e)) \subseteq ToSet(cache)
    BY <1>1, <2>1, <2>2, FrontFacts
  <2>4. PICK t \in Seq(Entries) : t = ToFront(e)
    BY <2>3
  <2>5. PICK row \in Rows, raced \in BOOLEAN : row = e.row /\ raced = e.raced
    BY <2>2 DEF Entries
  <2> DEFINE d == [c EXCEPT !.pc = "got", !.row = row, !.raced = raced]
  <2>6. d \in Calls
    BY <2>5 DEF Calls
  <2>7. /\ d.pc = "got" /\ d.key = c.key /\ d.op = c.op /\ d.row = row
        /\ d.bucket = c.bucket
    BY DEF Calls
  <2> HIDE DEF d
  <2>8. CallOK(d)
    BY <2>5, <2>7 DEF CallOK
  <2>9. call' = [call EXCEPT ![p] = d]
    BY <2>1, <2>5 DEF d
  <2>10. cache' \in Seq(Entries) /\ Len(cache') <= UserCacheCap /\ ToSet(cache') \subseteq ToSet(cache)
    <3>1. Len(t) \in Nat /\ Len(cache) \in Nat
      BY <1>1
    <3>2. QED
      BY <1>1, <2>1, <2>3, <2>4, <3>1
  <2>11. QED
    BY <2>6, <2>7, <2>8, <2>9, <2>10
<1>3. CASE ~\E e \in ToSet(cache) : e.key = c.key /\ Live(e)
  <2>1. cache' = Without(c.key) /\ call' = [call EXCEPT ![p] = [c EXCEPT !.pc = "read"]]
    BY <1>3 DEF userCacheGet
  <2>2. /\ Without(c.key) \in Seq(Entries) /\ Len(Without(c.key)) <= Len(cache)
        /\ ToSet(Without(c.key)) \subseteq ToSet(cache)
    BY <1>1, WithoutFacts
  <2>3. PICK t \in Seq(Entries) : t = Without(c.key)
    BY <2>2
  <2> DEFINE d == [c EXCEPT !.pc = "read"]
  <2>4. d \in Calls
    BY DEF Calls
  <2>5. d.pc = "read" /\ d.key = c.key /\ d.op = c.op /\ d.bucket = c.bucket
    BY DEF Calls
  <2>6. call' = [call EXCEPT ![p] = d]
    BY <2>1
  <2> HIDE DEF d
  <2>7. CallOK(d)
    BY <2>5 DEF CallOK
  <2>8. cache' \in Seq(Entries) /\ Len(cache') <= UserCacheCap /\ ToSet(cache') \subseteq ToSet(cache)
    <3>1. Len(t) \in Nat /\ Len(cache) \in Nat
      BY <1>1
    <3>2. QED
      BY <1>1, <2>1, <2>2, <2>3, <3>1
  <2>9. QED
    BY <2>4, <2>5, <2>6, <2>7, <2>8
<1>4. QED
  BY <1>2, <1>3

\* A handler's step that does not begin an edit leaves the types of the handlers
\* and no more of them that may still edit.
LEMMA CallStep ==
  ASSUME TypeInv, NEW p \in Processes, NEW c \in Calls, CallOK(c),
         call' = [call EXCEPT ![p] = c],
         p \in Admins /\ c.pc \in {"read", "store", "got"} =>
           call[p].pc \in {"read", "store", "got"} /\ c.key = call[p].key
  PROVE  /\ call' \in [Processes -> Calls]
         /\ \A q \in Processes : CallOK(call'[q])
         /\ \A u \in Users : Cardinality(Pending(call', u)) <= Cardinality(Pending(call, u))
<1>1. call \in [Processes -> Calls] /\ \A q \in Processes : CallOK(call[q])
  BY DEF TypeInv, TypeOK
<1>2. call' \in [Processes -> Calls] /\ \A q \in Processes : CallOK(call'[q])
  BY <1>1, NewCall
<1>3. ASSUME NEW u \in Users
      PROVE  Cardinality(Pending(call', u)) <= Cardinality(Pending(call, u))
  <2>1. ASSUME NEW a \in Admins, a \in Pending(call', u) PROVE a \in Pending(call, u)
    <3>1. a \in Processes
      BY DEF Processes
    <3>2. CASE a = p
      <4>1. call'[a] = c
        BY <1>1, <3>2
      <4>2. QED
        BY <2>1, <3>2, <4>1 DEF Pending
    <3>3. CASE a # p
      <4>1. call'[a] = call[a]
        BY <1>1, <3>1, <3>3
      <4>2. QED
        BY <2>1, <4>1 DEF Pending
    <3>4. QED
      BY <3>2, <3>3
  <2>2. Pending(call', u) \subseteq Pending(call, u)
    BY <2>1 DEF Pending
  <2>3. QED
    BY <2>2, Fewer
<1>4. QED
  BY <1>2, <1>3

LEMMA RowLimit ==
  ASSUME NEW row \in Rows
  PROVE  row.limit \in Nat
BY UserAssumption DEF Rows

LEMMA TypeFacts ==
  ASSUME TypeInv
  PROVE  /\ db \in [Users -> Rows] /\ \A u \in Users : db[u].id = u /\ db[u].ver \in Nat
         /\ cache \in Seq(Entries) /\ Len(cache) <= UserCacheCap
         /\ call \in [Processes -> Calls] /\ \A p \in Processes : CallOK(call[p])
         /\ limiter \in [Users -> Buckets \cup {Nil}]
         /\ bucket \in [Buckets -> Objects]
         /\ \A b \in Buckets : bucket[b].tokens <= bucket[b].limit
         /\ settled \in [Users -> Edits] /\ ideal \in [Users -> Int \cup {Nil}]
<1>1. db \in [Users -> Rows] /\ \A u \in Users : db[u].id = u
  BY DEF TypeInv, TypeOK
<1>2. \A u \in Users : db[u].ver \in Nat
  BY <1>1 DEF Rows, Edits
<1>3. QED
  BY <1>1, <1>2 DEF TypeInv, TypeOK, Entries, Objects

\* A step that counts no edit keeps the budget of edits.
LEMMA BudgetKept ==
  ASSUME TypeInv, TypeOK', \A q \in Processes : CallOK(call'[q]),
         \A u \in Users : db'[u].id = u /\ db'[u].ver = db[u].ver,
         \A u \in Users : Cardinality(Pending(call', u)) <= Cardinality(Pending(call, u))
  PROVE  TypeInv'
<1>1. ASSUME NEW u \in Users PROVE db'[u].ver + Cardinality(Pending(call', u)) <= MaxEdits
  <2>1. /\ db[u].ver \in Nat /\ MaxEdits \in Nat
        /\ db[u].ver + Cardinality(Pending(call, u)) <= MaxEdits
    BY TypeFacts, UserAssumption DEF TypeInv
  <2>2. Cardinality(Pending(call', u)) \in Nat /\ Cardinality(Pending(call, u)) \in Nat
    BY PendingSize
  <2>3. QED
    BY <2>1, <2>2
<1>2. QED
  BY <1>1 DEF TypeInv

LEMMA TypeReadRow ==
  ASSUME TypeInv, NEW p \in Processes, ReadRow(p)
  PROVE  TypeInv'
<1>1. /\ call \in [Processes -> Calls] /\ CallOK(call[p]) /\ call[p].pc = "read"
      /\ call[p] \in Calls /\ UNCHANGED <<db, cache, settled, limiter, bucket, ideal>>
  BY TypeFacts DEF ReadRow, userVars, limiterVars
<1>2. PICK c \in Calls : /\ CallOK(c) /\ call' = [call EXCEPT ![p] = c]
                         /\ c.pc = "idle" \/ (c.pc = "store" /\ c.key = call[p].key)
  <2>1. CASE Return(p)
    BY <2>1, IdleCall DEF Return
  <2>2. CASE call' = [call EXCEPT ![p].pc = "store", ![p].row = db[UserOf(p)]]
    <3>1. call[p].key \in CacheKeys /\ call[p].bucket = Nil
      BY <1>1 DEF CallOK
    <3>2. PICK row \in Rows : row = db[UserOf(p)]
      BY <3>1, TypeFacts DEF UserOf, CacheKeys
    <3> DEFINE c == [call[p] EXCEPT !.pc = "store", !.row = row]
    <3>3. c \in Calls
      BY <1>1 DEF Calls
    <3>4. c.pc = "store" /\ c.key = call[p].key /\ c.row = row /\ c.bucket = call[p].bucket
      BY <1>1 DEF Calls
    <3>5. call' = [call EXCEPT ![p] = c]
      BY <1>1, <2>2, <3>2
    <3> HIDE DEF c
    <3>6. CallOK(c)
      BY <3>1, <3>4 DEF CallOK
    <3>7. QED
      BY <3>3, <3>4, <3>5, <3>6
  <2>3. QED
    BY <2>1, <2>2 DEF ReadRow
<1>3. /\ call' \in [Processes -> Calls] /\ \A q \in Processes : CallOK(call'[q])
      /\ \A u \in Users : Cardinality(Pending(call', u)) <= Cardinality(Pending(call, u))
  BY <1>1, <1>2, CallStep
<1>4. TypeOK'
  BY <1>1, <1>3 DEF TypeInv, TypeOK
<1>5. QED
  BY <1>1, <1>3, <1>4, TypeFacts, BudgetKept

LEMMA TypeUserCacheSet ==
  ASSUME TypeInv, NEW p \in Processes, userCacheSet(p)
  PROVE  TypeInv'
<1>1. /\ call \in [Processes -> Calls] /\ CallOK(call[p]) /\ call[p].pc = "store"
      /\ call[p] \in Calls /\ UNCHANGED <<db, settled, limiter, bucket, ideal>>
  BY TypeFacts DEF userCacheSet, limiterVars
<1>2. call[p].key \in CacheKeys /\ call[p].row \in Rows /\ call[p].bucket = Nil
  BY <1>1 DEF CallOK
<1> DEFINE c == [call[p] EXCEPT !.pc = "got"]
           e == [key |-> call[p].key, row |-> call[p].row, age |-> 0, raced |-> call[p].raced]
<1>3. c \in Calls /\ c.pc = "got" /\ c.key = call[p].key /\ c.row = call[p].row
      /\ c.bucket = call[p].bucket
  BY <1>1 DEF Calls
<1>4. call' = [call EXCEPT ![p] = c]
  BY <1>1 DEF userCacheSet, Goto
<1>5. cache' = IF Len(ToFront(e)) > UserCacheCap THEN Front(ToFront(e)) ELSE ToFront(e)
  BY DEF userCacheSet
<1>6. e \in Entries
  BY <1>1, <1>2, UserAssumption DEF Entries, Calls
<1> HIDE DEF c, e
<1>7. CallOK(c)
  BY <1>2, <1>3 DEF CallOK
<1>8. /\ call' \in [Processes -> Calls] /\ \A q \in Processes : CallOK(call'[q])
      /\ \A u \in Users : Cardinality(Pending(call', u)) <= Cardinality(Pending(call, u))
  BY <1>1, <1>3, <1>4, <1>7, CallStep
<1>9. cache' \in Seq(Entries) /\ Len(cache') <= UserCacheCap
  <2>1. PICK t \in Seq(Entries) : t = ToFront(e) /\ Len(t) <= Len(cache) + 1
    BY <1>6, FrontFacts DEF TypeInv
  <2>2. Len(t) \in Nat /\ Len(t) <= UserCacheCap + 1 /\ UserCacheCap \in Nat \ {0}
    BY <2>1, TypeFacts, UserAssumption
  <2>3. CASE Len(t) > UserCacheCap
    <3>1. cache' = SubSeq(t, 1, Len(t) - 1)
      BY <1>5, <2>1, <2>3 DEF Front
    <3>2. QED
      BY <2>2, <2>3, <3>1
  <2>4. CASE ~(Len(t) > UserCacheCap)
    BY <1>5, <2>1, <2>2, <2>4
  <2>5. QED
    BY <2>3, <2>4
<1>10. TypeOK'
  BY <1>1, <1>8, <1>9 DEF TypeInv, TypeOK, Entries
<1>11. QED
  BY <1>1, <1>8, <1>10, TypeFacts, BudgetKept

LEMMA TypeBeginRequest ==
  ASSUME TypeInv, NEW r \in Requests, NEW u \in Users, NEW n \in Edits, BeginRequest(r, u, n)
  PROVE  TypeInv'
<1>1. r \in Processes /\ UNCHANGED <<db, settled, limiter, bucket, ideal>>
  BY DEF Processes, BeginRequest, limiterVars
<1> DEFINE c == [NoCall EXCEPT !.op = "api", !.key = <<"api", u, n>>]
<1>2. userCacheGet(r, c)
  BY DEF BeginRequest
<1>3. <<"api", u, n>> \in CacheKeys
  BY DEF CacheKeys
<1>4. c \in Calls /\ c.key \in CacheKeys /\ c.bucket = Nil
  BY <1>3 DEF NoCall, Calls
<1> HIDE DEF c
<1>5. /\ cache' \in Seq(Entries) /\ Len(cache') <= UserCacheCap
      /\ \E d \in Calls : CallOK(d) /\ call' = [call EXCEPT ![r] = d]
  BY <1>1, <1>2, <1>4, GetFacts
<1>6. PICK d \in Calls : CallOK(d) /\ call' = [call EXCEPT ![r] = d]
  BY <1>5
<1>7. /\ call' \in [Processes -> Calls] /\ \A q \in Processes : CallOK(call'[q])
      /\ \A v \in Users : Cardinality(Pending(call', v)) <= Cardinality(Pending(call, v))
  <2>1. r \notin Admins
    BY UserAssumption
  <2>2. QED
    BY <1>1, <1>6, <2>1, CallStep
<1>8. TypeOK'
  BY <1>1, <1>5, <1>7 DEF TypeInv, TypeOK, Entries
<1>9. QED
  BY <1>1, <1>7, <1>8, TypeFacts, BudgetKept

\* r takes bucket b of u, whose object becomes o: the registered one when it
\* was made for limit, and otherwise a full one that nobody points to.
Takes(r, u, limit, b, o) ==
  /\ call' = [call EXCEPT ![r] = [call[r] EXCEPT !.pc = "allow", !.bucket = b]]
  /\ limiter' = [limiter EXCEPT ![u] = b]
  /\ bucket' = [x \in Buckets |-> IF x \in Referenced' THEN [bucket EXCEPT ![b] = o][x] ELSE NoBucket]
  /\ ideal' = IF limit = db[u].limit THEN ideal ELSE [ideal EXCEPT ![u] = Nil]
  /\ o.tokens <= o.limit /\ o.idle = 0 /\ o.limit = limit
  /\ \/ /\ limiter[u] = b /\ bucket[b].limit = limit
        /\ o.tokens = bucket[b].tokens
     \/ /\ b \notin Referenced /\ o.tokens = limit
        /\ limiter[u] = Nil \/ bucket[limiter[u]].limit # limit

LEMMA FetchFacts ==
  ASSUME TypeInv, NEW r \in Requests, FetchLimiter(r)
  PROVE  /\ UserOf(r) \in Users /\ UNCHANGED <<db, cache, settled>>
         /\ \/ Return(r) /\ UNCHANGED <<limiter, bucket, ideal>>
            \/ \E b \in Buckets, o \in Objects :
                 Takes(r, UserOf(r), call[r].row.limit, b, o)
<1> DEFINE u == UserOf(r)
           limit == call[r].row.limit
           found == LimiterFor(u, limit)
<1>1. /\ r \in Processes /\ call \in [Processes -> Calls] /\ call[r] \in Calls
      /\ call[r].pc = "got" /\ call[r].op = "api" /\ CallOK(call[r])
  BY TypeFacts DEF Processes, FetchLimiter
<1>2. call[r].key \in CacheKeys /\ call[r].row \in Rows /\ call[r].bucket = Nil
  BY <1>1 DEF CallOK
<1>3. u \in Users
  BY <1>2 DEF UserOf, CacheKeys
<1>4. limit \in Nat
  BY <1>2, UserAssumption DEF Rows
<1>5. UNCHANGED <<db, cache, settled>>
  BY DEF FetchLimiter, userVars
<1>6. CASE ~apiAuthMiddleware(call[r].row) \/ limit <= 0
  BY <1>3, <1>5, <1>6 DEF FetchLimiter, limiterVars
<1>7. CASE ~(~apiAuthMiddleware(call[r].row) \/ limit <= 0)
  <2>1. /\ call' = [call EXCEPT ![r].pc = "allow", ![r].bucket = found.b]
        /\ limiter' = [limiter EXCEPT ![u] = found.b]
        /\ Keep([bucket EXCEPT ![found.b] = found.object])
        /\ ideal' = IF limit = db[u].limit THEN ideal ELSE [ideal EXCEPT ![u] = Nil]
    BY <1>7 DEF FetchLimiter
  <2> HIDE DEF limit
  <2>2. /\ limiter[u] \in Buckets \cup {Nil} /\ bucket \in [Buckets -> Objects]
        /\ \A b \in Buckets : bucket[b].tokens <= bucket[b].limit
    BY <1>3, TypeFacts
  <2>3. \E b \in Buckets, o \in Objects :
          /\ found.b = b /\ found.object = o
          /\ o.tokens <= o.limit /\ o.idle = 0 /\ o.limit = limit
          /\ \/ limiter[u] = b /\ bucket[b].limit = limit /\ o.tokens = bucket[b].tokens
             \/ /\ b \notin Referenced /\ o.tokens = limit
                /\ limiter[u] = Nil \/ bucket[limiter[u]].limit # limit
    <3>1. CASE limiter[u] # Nil /\ bucket[limiter[u]].limit = limit
      <4>1. PICK b \in Buckets : b = limiter[u]
        BY <2>2, <3>1
      <4> DEFINE o == [bucket[b] EXCEPT !.idle = 0]
      <4>2. found.b = b /\ found.object = o
        BY <3>1, <4>1 DEF LimiterFor
      <4>3. bucket[b] \in Objects /\ bucket[b].limit = limit
        BY <2>2, <3>1, <4>1
      <4>4. o \in Objects /\ o.tokens = bucket[b].tokens /\ o.idle = 0 /\ o.limit = limit
        BY <4>3, UserAssumption DEF Objects
      <4> HIDE DEF o, found
      <4>5. o.tokens <= o.limit
        BY <2>2, <4>3, <4>4
      <4>6. QED
        BY <4>1, <4>2, <4>3, <4>4, <4>5
    <3>2. CASE ~(limiter[u] # Nil /\ bucket[limiter[u]].limit = limit)
      <4> DEFINE b == CHOOSE b \in Buckets : b \notin Referenced
                 o == [limit |-> limit, tokens |-> limit, idle |-> 0]
      <4>1. b \in Buckets /\ b \notin Referenced
        BY <1>2, FreeBucket DEF TypeInv
      <4>2. found.b = b /\ found.object = o
        BY <3>2 DEF LimiterFor
      <4>3. o \in Objects /\ o.tokens <= o.limit /\ o.idle = 0 /\ o.limit = limit /\ o.tokens = limit
        BY <1>4, UserAssumption DEF Objects
      <4> HIDE DEF o, b, found
      <4>4. limiter[u] = Nil \/ bucket[limiter[u]].limit # limit
        BY <3>2
      <4>5. QED
        BY <4>1, <4>2, <4>3, <4>4
    <3>3. QED
      BY <3>1, <3>2
  <2> HIDE DEF found
  <2>4. PICK b \in Buckets, o \in Objects :
          /\ found.b = b /\ found.object = o
          /\ o.tokens <= o.limit /\ o.idle = 0 /\ o.limit = limit
          /\ \/ limiter[u] = b /\ bucket[b].limit = limit /\ o.tokens = bucket[b].tokens
             \/ /\ b \notin Referenced /\ o.tokens = limit
                /\ limiter[u] = Nil \/ bucket[limiter[u]].limit # limit
    BY <2>3
  <2>5. call' = [call EXCEPT ![r] = [call[r] EXCEPT !.pc = "allow", !.bucket = b]]
    BY <1>1, <2>1, <2>4
  <2>6. bucket' = [x \in Buckets |-> IF x \in Referenced' THEN [bucket EXCEPT ![b] = o][x] ELSE NoBucket]
    BY <2>1, <2>4 DEF Keep
  <2>7. Takes(r, u, limit, b, o)
    BY <2>1, <2>4, <2>5, <2>6 DEF Takes
  <2>8. QED
    BY <1>3, <1>5, <2>7 DEF limit
<1>8. QED
  BY <1>6, <1>7

LEMMA TypeFetchLimiter ==
  ASSUME TypeInv, NEW r \in Requests, FetchLimiter(r)
  PROVE  TypeInv'
<1> DEFINE u == UserOf(r)
<1>1. /\ r \in Processes /\ r \notin Admins /\ call[r] \in Calls /\ call[r].pc = "got"
      /\ call[r].op = "api" /\ CallOK(call[r])
  BY TypeFacts, UserAssumption DEF Processes, FetchLimiter
<1>2. /\ u \in Users /\ UNCHANGED <<db, cache, settled>>
      /\ \/ Return(r) /\ UNCHANGED <<limiter, bucket, ideal>>
         \/ \E b \in Buckets, o \in Objects : Takes(r, u, call[r].row.limit, b, o)
  BY FetchFacts
<1> HIDE DEF u
<1>3. CASE Return(r) /\ UNCHANGED <<limiter, bucket, ideal>>
  <2>1. /\ call' \in [Processes -> Calls] /\ \A q \in Processes : CallOK(call'[q])
        /\ \A v \in Users : Cardinality(Pending(call', v)) <= Cardinality(Pending(call, v))
    BY <1>1, <1>3, IdleCall, CallStep DEF Return
  <2>2. TypeOK'
    BY <1>2, <1>3, <2>1 DEF TypeInv, TypeOK
  <2>3. QED
    BY <1>2, <2>1, <2>2, TypeFacts, BudgetKept
<1>4. CASE \E b \in Buckets, o \in Objects : Takes(r, u, call[r].row.limit, b, o)
  <2>1. PICK b \in Buckets, o \in Objects : Takes(r, u, call[r].row.limit, b, o)
    BY <1>4
  <2> DEFINE c == [call[r] EXCEPT !.pc = "allow", !.bucket = b]
  <2>2. c \in Calls /\ c.pc = "allow" /\ c.bucket = b /\ c.key = call[r].key
    BY <1>1 DEF Calls
  <2>3. call' = [call EXCEPT ![r] = c]
    BY <2>1 DEF Takes
  <2> HIDE DEF c
  <2>4. CallOK(c)
    BY <1>1, <2>2 DEF CallOK
  <2>5. /\ call' \in [Processes -> Calls] /\ \A q \in Processes : CallOK(call'[q])
        /\ \A v \in Users : Cardinality(Pending(call', v)) <= Cardinality(Pending(call, v))
    BY <1>1, <2>2, <2>3, <2>4, CallStep
  <2>6. limiter' \in [Users -> Buckets \cup {Nil}]
    BY <1>2, <2>1, TypeFacts DEF Takes
  <2>7. ideal' \in [Users -> Int \cup {Nil}]
    BY <1>2, <2>1, TypeFacts DEF Takes
  <2>8. bucket' \in [Buckets -> Objects] /\ \A x \in Buckets : bucket'[x].tokens <= bucket'[x].limit
    <3> DEFINE objects == [bucket EXCEPT ![b] = o]
    <3>1. o.tokens <= o.limit
      BY <2>1 DEF Takes
    <3>2. objects \in [Buckets -> Objects] /\ \A x \in Buckets : objects[x].tokens <= objects[x].limit
      BY <3>1, TypeFacts
    <3>3. bucket' = [x \in Buckets |-> IF x \in Referenced' THEN objects[x] ELSE NoBucket]
      BY <2>1 DEF Takes
    <3> HIDE DEF objects
    <3>4. QED
      BY <3>2, <3>3, KeepFacts
  <2>9. TypeOK'
    BY <1>2, <2>5, <2>6, <2>7, <2>8 DEF TypeInv, TypeOK, Objects
  <2>10. QED
    BY <1>2, <2>5, <2>9, TypeFacts, BudgetKept
<1>5. QED
  BY <1>2, <1>3, <1>4

\* What Allow does: a granted call takes a token of the bucket it holds.
LEMMA AllowFacts ==
  ASSUME TypeInv, NEW r \in Requests, Allow(r)
  PROVE  /\ UserOf(r) \in Users /\ call[r].bucket \in Buckets
         /\ Return(r) /\ UNCHANGED <<db, cache, settled, limiter>>
         /\ \E o \in [Buckets -> Objects] :
              /\ bucket' = [x \in Buckets |-> IF x \in Referenced' THEN o[x] ELSE NoBucket]
              /\ \A x \in Buckets : /\ o[x].limit = bucket[x].limit /\ o[x].idle = bucket[x].idle
                                    /\ o[x].tokens <= bucket[x].tokens
              /\ \/ ideal' = ideal
                 \/ /\ bucket[call[r].bucket].tokens > 0
                    /\ o[call[r].bucket].tokens = bucket[call[r].bucket].tokens - 1
                    /\ ideal[UserOf(r)] # Nil
                    /\ ideal' = [ideal EXCEPT ![UserOf(r)] = ideal[UserOf(r)] - 1]
<1> DEFINE u == UserOf(r)
           b == call[r].bucket
           granted == bucket[b].tokens > 0
           o == IF granted THEN [bucket EXCEPT ![b].tokens = @ - 1] ELSE bucket
<1>1. /\ r \in Processes /\ call[r] \in Calls /\ call[r].pc = "allow" /\ CallOK(call[r])
  BY TypeFacts DEF Processes, Allow
<1>2. call[r].key \in CacheKeys /\ b \in Buckets
  BY <1>1 DEF CallOK
<1>3. u \in Users
  BY <1>2 DEF UserOf, CacheKeys
<1>4. Return(r) /\ UNCHANGED <<db, cache, settled, limiter>>
  BY DEF Allow, userVars
<1>5. bucket' = [x \in Buckets |-> IF x \in Referenced' THEN o[x] ELSE NoBucket]
  BY DEF Allow, Keep
<1>6. ideal' = IF granted /\ ideal[u] # Nil THEN [ideal EXCEPT ![u] = ideal[u] - 1] ELSE ideal
  BY DEF Allow
<1>7. bucket \in [Buckets -> Objects]
  BY TypeFacts
<1> HIDE DEF b, u
<1>8. o \in [Buckets -> Objects]
  <2>1. bucket[b] \in Objects /\ bucket[b].tokens \in Nat
    BY <1>2, <1>7 DEF Objects
  <2>2. CASE granted
    <3>1. [bucket[b] EXCEPT !.tokens = bucket[b].tokens - 1] \in Objects
      BY <2>1, <2>2 DEF Objects
    <3>2. o = [bucket EXCEPT ![b] = [bucket[b] EXCEPT !.tokens = bucket[b].tokens - 1]]
      BY <1>2, <1>7, <2>2
    <3>3. QED
      BY <1>7, <3>1, <3>2
  <2>3. CASE ~granted
    BY <1>7, <2>3
  <2>4. QED
    BY <2>2, <2>3
<1>9. ASSUME NEW x \in Buckets
      PROVE  /\ o[x].limit = bucket[x].limit /\ o[x].idle = bucket[x].idle
             /\ o[x].tokens <= bucket[x].tokens
             /\ x = b /\ granted => o[x].tokens = bucket[x].tokens - 1
  <2>1. bucket[x] \in Objects /\ bucket[x].tokens \in Nat
    BY <1>7 DEF Objects
  <2>2. CASE granted /\ x = b
    <3>1. o[x] = [bucket[x] EXCEPT !.tokens = bucket[x].tokens - 1]
      BY <1>2, <1>7, <2>2
    <3>2. QED
      BY <2>1, <2>2, <3>1 DEF Objects
  <2>3. CASE ~(granted /\ x = b)
    <3>1. o[x] = bucket[x]
      BY <1>2, <1>7, <2>3
    <3>2. QED
      BY <2>1, <2>3, <3>1
  <2>4. QED
    BY <2>2, <2>3
<1> HIDE DEF o
<1>10. \/ ideal' = ideal
       \/ /\ bucket[b].tokens > 0 /\ o[b].tokens = bucket[b].tokens - 1 /\ ideal[u] # Nil
          /\ ideal' = [ideal EXCEPT ![u] = ideal[u] - 1]
  BY <1>2, <1>6, <1>9
<1>11. QED
  BY <1>2, <1>3, <1>4, <1>5, <1>8, <1>9, <1>10 DEF u, b

LEMMA TypeAllow ==
  ASSUME TypeInv, NEW r \in Requests, Allow(r)
  PROVE  TypeInv'
<1>1. /\ r \in Processes /\ r \notin Admins
  BY UserAssumption DEF Processes
<1>2. /\ UserOf(r) \in Users /\ Return(r) /\ UNCHANGED <<db, cache, settled, limiter>>
  BY AllowFacts
<1>3. PICK o \in [Buckets -> Objects] :
        /\ bucket' = [x \in Buckets |-> IF x \in Referenced' THEN o[x] ELSE NoBucket]
        /\ \A x \in Buckets : /\ o[x].limit = bucket[x].limit /\ o[x].idle = bucket[x].idle
                              /\ o[x].tokens <= bucket[x].tokens
        /\ \/ ideal' = ideal
           \/ /\ ideal[UserOf(r)] # Nil
              /\ ideal' = [ideal EXCEPT ![UserOf(r)] = ideal[UserOf(r)] - 1]
  BY AllowFacts
<1>4. /\ call' \in [Processes -> Calls] /\ \A q \in Processes : CallOK(call'[q])
      /\ \A v \in Users : Cardinality(Pending(call', v)) <= Cardinality(Pending(call, v))
  BY <1>1, <1>2, IdleCall, CallStep DEF Return
<1>5. bucket' \in [Buckets -> Objects] /\ \A x \in Buckets : bucket'[x].tokens <= bucket'[x].limit
  <2>1. ASSUME NEW x \in Buckets PROVE o[x].tokens <= o[x].limit
    <3>1. /\ bucket[x].tokens <= bucket[x].limit /\ bucket[x].tokens \in Nat
          /\ bucket[x].limit \in Nat /\ o[x].tokens \in Nat
      BY TypeFacts DEF Objects
    <3>2. QED
      BY <1>3, <3>1
  <2>2. QED
    BY <1>3, <2>1, KeepFacts
<1>6. ideal' \in [Users -> Int \cup {Nil}]
  <2>1. ideal \in [Users -> Int \cup {Nil}]
    BY TypeFacts
  <2>2. CASE ideal' = ideal
    BY <2>1, <2>2
  <2>3. CASE /\ ideal[UserOf(r)] # Nil
             /\ ideal' = [ideal EXCEPT ![UserOf(r)] = ideal[UserOf(r)] - 1]
    <3>1. ideal[UserOf(r)] - 1 \in Int
      BY <1>2, <2>1, <2>3
    <3>2. QED
      BY <2>1, <2>3, <3>1
  <2>4. QED
    BY <1>3, <2>2, <2>3
<1>7. TypeOK'
  BY <1>2, <1>4, <1>5, <1>6 DEF TypeInv, TypeOK, Objects
<1>8. QED
  BY <1>2, <1>4, <1>7, TypeFacts, BudgetKept

\* A handler about to edit u is counted among those that may.
LEMMA EditCounted ==
  ASSUME TypeInv, NEW a \in Admins, call[a].pc = "got", NEW u \in Users, UserOf(a) = u
  PROVE  /\ db[u].ver + 1 <= MaxEdits
         /\ \A f : Pending(f, u) \subseteq Pending(call, u) \ {a} =>
              db[u].ver + 1 + Cardinality(Pending(f, u)) <= MaxEdits
<1> DEFINE P == Pending(call, u)
<1>1. a \in P
  BY DEF Pending, UserOf
<1>2. IsFiniteSet(P) /\ Cardinality(P) \in Nat
  BY PendingSize
<1>3. db[u].ver \in Nat /\ MaxEdits \in Nat /\ db[u].ver + Cardinality(P) <= MaxEdits
  BY TypeFacts, UserAssumption DEF TypeInv
<1> HIDE DEF P
<1>4. IsFiniteSet(P \ {a}) /\ Cardinality(P \ {a}) = Cardinality(P) - 1
  BY <1>1, <1>2, FS_RemoveElement
<1>5. Cardinality(P \ {a}) \in Nat
  BY <1>4, FS_CardinalityType
<1>6. db[u].ver + 1 <= MaxEdits
  BY <1>2, <1>3, <1>4, <1>5
<1>7. ASSUME NEW f, Pending(f, u) \subseteq P \ {a}
      PROVE  db[u].ver + 1 + Cardinality(Pending(f, u)) <= MaxEdits
  <2>1. Cardinality(Pending(f, u)) <= Cardinality(P \ {a}) /\ Cardinality(Pending(f, u)) \in Nat
    BY <1>4, <1>7, PendingSize, FS_Subset
  <2>2. QED
    BY <1>2, <1>3, <1>4, <2>1
<1>8. QED
  BY <1>6, <1>7 DEF P

\* What the statement of an edit makes of the row of u.
LEMMA EditedFacts ==
  ASSUME TypeInv, NEW a \in Admins, call[a].pc = "got", call[a].op \in AdminOps,
         NEW u \in Users, UserOf(a) = u, NEW row \in Edited(a, db[u])
  PROVE  /\ [row EXCEPT !.ver = @ + 1] \in Rows
         /\ [row EXCEPT !.ver = @ + 1].id = u
         /\ [row EXCEPT !.ver = @ + 1].ver = db[u].ver + 1
         /\ call[a].op \notin Changing => [row EXCEPT !.ver = @ + 1].limit = db[u].limit
<1>1. db[u] \in Rows /\ db[u].id = u /\ db[u].ver \in Nat
  BY TypeFacts
<1>2. db[u].ver + 1 \in Edits
  BY <1>1, EditCounted, UserAssumption DEF Edits
<1>3. /\ row \in Rows /\ row.id = u /\ row.ver = db[u].ver
      /\ call[a].op \notin Changing => row.limit = db[u].limit
  <2>1. CASE call[a].op = "toggle"
    <3>1. PICK st \in {"disabled", "active"} : row = [db[u] EXCEPT !.status = st]
      BY <2>1 DEF Edited
    <3>2. QED
      BY <1>1, <3>1 DEF Rows
  <2>2. CASE call[a].op = "resetKey"
    <3>1. row = [db[u] EXCEPT !.key = db[u].ver + 1]
      BY <2>2 DEF Edited
    <3>2. QED
      BY <1>1, <1>2, <3>1 DEF Rows
  <2>3. CASE call[a].op = "limit"
    <3>1. PICK l \in Limits : row = [db[u] EXCEPT !.limit = l]
      BY <2>3 DEF Edited
    <3>2. QED
      BY <1>1, <2>3, <3>1 DEF Rows, Changing
  <2>4. CASE call[a].op = "delete"
    <3>1. row = [db[u] EXCEPT !.status = "deleted"]
      BY <2>4 DEF Edited
    <3>2. QED
      BY <1>1, <3>1 DEF Rows
  <2>5. QED
    BY <2>1, <2>2, <2>3, <2>4 DEF AdminOps
<1>4. PICK n \in Edits : n = row.ver + 1
  BY <1>2, <1>3
<1>5. [row EXCEPT !.ver = @ + 1] = [row EXCEPT !.ver = n]
  BY <1>3, <1>4
<1>6. [row EXCEPT !.ver = n] \in Rows
  BY <1>3 DEF Rows
<1>7. /\ [row EXCEPT !.ver = n].id = row.id /\ [row EXCEPT !.ver = n].ver = n
      /\ [row EXCEPT !.ver = n].limit = row.limit
  BY <1>3 DEF Rows
<1>8. QED
  BY <1>3, <1>4, <1>5, <1>6, <1>7

LEMMA UpdateFacts ==
  ASSUME TypeInv, NEW a \in Admins, UpdateRow(a)
  PROVE  /\ UserOf(a) \in Users /\ call[a].pc = "got"
         /\ UNCHANGED <<cache, settled, limiter, bucket>>
         /\ \/ Return(a) /\ UNCHANGED <<db, ideal>>
            \/ /\ call' = [call EXCEPT ![a] = [call[a] EXCEPT !.pc = "invalidate"]]
               /\ ideal' = IF call[a].op \in Changing
                             THEN [ideal EXCEPT ![UserOf(a)] = Nil] ELSE ideal
               /\ \/ db' = db
                  \/ \E row \in Rows :
                       /\ db' = [db EXCEPT ![UserOf(a)] = row]
                       /\ row.id = UserOf(a) /\ row.ver = db[UserOf(a)].ver + 1
                       /\ call[a].op \notin Changing => row.limit = db[UserOf(a)].limit
<1> DEFINE u == UserOf(a)
<1>1. /\ a \in Processes /\ call \in [Processes -> Calls] /\ call[a].pc = "got"
      /\ call[a].op \in AdminOps /\ CallOK(call[a])
  BY TypeFacts DEF Processes, UpdateRow
<1>2. u \in Users
  BY <1>1 DEF UserOf, CallOK, CacheKeys
<1>3. UNCHANGED <<cache, settled, limiter, bucket>>
  BY DEF UpdateRow
<1>4. CASE Return(a) /\ UNCHANGED <<db, ideal>>
  BY <1>1, <1>2, <1>3, <1>4
<1>5. CASE /\ Goto(a, "invalidate")
           /\ \E row \in Edited(a, db[u]) :
                db' = IF Exists(u) THEN [db EXCEPT ![u] = [row EXCEPT !.ver = @ + 1]] ELSE db
           /\ ideal' = IF call[a].op \in {"limit", "delete"}
                         THEN [ideal EXCEPT ![u] = Nil] ELSE ideal
  <2>1. PICK row \in Edited(a, db[u]) :
          db' = IF Exists(u) THEN [db EXCEPT ![u] = [row EXCEPT !.ver = @ + 1]] ELSE db
    BY <1>5
  <2>2. call' = [call EXCEPT ![a] = [call[a] EXCEPT !.pc = "invalidate"]]
    BY <1>1, <1>5 DEF Goto
  <2>3. ideal' = IF call[a].op \in Changing THEN [ideal EXCEPT ![u] = Nil] ELSE ideal
    BY <1>5 DEF Changing
  <2> DEFINE new == [row EXCEPT !.ver = @ + 1]
  <2>4. /\ new \in Rows /\ new.id = u /\ new.ver = db[u].ver + 1
        /\ call[a].op \notin Changing => new.limit = db[u].limit
    BY <1>1, <1>2, EditedFacts
  <2>5. db' = db \/ db' = [db EXCEPT ![u] = new]
    BY <2>1
  <2> HIDE DEF new
  <2>6. \/ db' = db
        \/ \E w \in Rows : /\ db' = [db EXCEPT ![u] = w]
                           /\ w.id = u /\ w.ver = db[u].ver + 1
                           /\ call[a].op \notin Changing => w.limit = db[u].limit
    BY <2>4, <2>5
  <2> HIDE DEF u
  <2>7. QED
    BY <1>1, <1>2, <1>3, <2>2, <2>3, <2>6 DEF u
<1>6. QED
  BY <1>4, <1>5 DEF UpdateRow

LEMMA TypeUpdateRow ==
  ASSUME TypeInv, NEW a \in Admins, UpdateRow(a)
  PROVE  TypeInv'
<1> DEFINE u == UserOf(a)
<1>1. /\ u \in Users /\ call[a].pc = "got" /\ UNCHANGED <<cache, settled, limiter, bucket>>
  BY UpdateFacts
<1>2. /\ a \in Processes /\ call \in [Processes -> Calls] /\ call[a] \in Calls
      /\ CallOK(call[a]) /\ db \in [Users -> Rows]
  BY TypeFacts DEF Processes
<1>3. CASE Return(a) /\ UNCHANGED <<db, ideal>>
  <2>1. /\ call' \in [Processes -> Calls] /\ \A q \in Processes : CallOK(call'[q])
        /\ \A v \in Users : Cardinality(Pending(call', v)) <= Cardinality(Pending(call, v))
    BY <1>2, <1>3, IdleCall, CallStep DEF Return
  <2>2. TypeOK'
    BY <1>1, <1>3, <2>1 DEF TypeInv, TypeOK
  <2>3. QED
    BY <1>3, <2>1, <2>2, TypeFacts, BudgetKept
<1>4. CASE /\ call' = [call EXCEPT ![a] = [call[a] EXCEPT !.pc = "invalidate"]]
           /\ ideal' = IF call[a].op \in Changing THEN [ideal EXCEPT ![u] = Nil] ELSE ideal
           /\ \/ db' = db
              \/ \E row \in Rows : /\ db' = [db EXCEPT ![u] = row]
                                   /\ row.id = u /\ row.ver = db[u].ver + 1
  <2> DEFINE c == [call[a] EXCEPT !.pc = "invalidate"]
  <2>1. c \in Calls /\ c.pc = "invalidate" /\ c.key = call[a].key /\ c.bucket = call[a].bucket
    BY <1>2 DEF Calls
  <2>2. call' = [call EXCEPT ![a] = c]
    BY <1>4
  <2> HIDE DEF c, u
  <2>3. CallOK(c)
    BY <1>1, <1>2, <2>1 DEF CallOK
  <2>4. /\ call' \in [Processes -> Calls] /\ \A q \in Processes : CallOK(call'[q])
        /\ \A v \in Users : Cardinality(Pending(call', v)) <= Cardinality(Pending(call, v))
    BY <1>2, <2>1, <2>2, <2>3, CallStep
  <2>5. ideal' \in [Users -> Int \cup {Nil}]
    BY <1>1, <1>4, TypeFacts
  <2>6. CASE db' = db
    <3>1. TypeOK'
      BY <1>1, <2>4, <2>5, <2>6 DEF TypeInv, TypeOK
    <3>2. QED
      BY <2>4, <2>6, <3>1, TypeFacts, BudgetKept
  <2>7. CASE \E row \in Rows : /\ db' = [db EXCEPT ![u] = row]
                               /\ row.id = u /\ row.ver = db[u].ver + 1
    <3>1. PICK row \in Rows : /\ db' = [db EXCEPT ![u] = row]
                              /\ row.id = u /\ row.ver = db[u].ver + 1
      BY <2>7
    <3>2. db' \in [Users -> Rows] /\ db'[u] = row /\ \A v \in Users : v # u => db'[v] = db[v]
      BY <1>1, <1>2, <3>1
    <3>3. TypeOK'
      BY <1>1, <2>4, <2>5, <3>2 DEF TypeInv, TypeOK
    <3>4. \A v \in Users : db'[v].id = v
      BY <3>1, <3>2, TypeFacts
    <3>5. ASSUME NEW v \in Users
          PROVE  db'[v].ver + Cardinality(Pending(call', v)) <= MaxEdits
      <4>1. CASE v = u
        <5>1. UserOf(a) = v
          BY <4>1 DEF u
        <5>2. Pending(call', v) \subseteq Pending(call, v) \ {a}
          <6>1. call'[a] = c
            BY <1>2, <2>2
          <6>2. \A q \in Admins : q # a => call'[q] = call[q]
            BY <1>2, <2>2 DEF Processes
          <6>3. QED
            BY <2>1, <6>1, <6>2 DEF Pending
        <5>3. db[v].ver + 1 + Cardinality(Pending(call', v)) <= MaxEdits
          BY <1>1, <5>1, <5>2, EditCounted
        <5>4. db'[v].ver = db[v].ver + 1
          BY <3>1, <3>2, <4>1
        <5>5. QED
          BY <5>3, <5>4
      <4>2. CASE v # u
        <5>1. /\ db[v].ver \in Nat /\ MaxEdits \in Nat
              /\ db[v].ver + Cardinality(Pending(call, v)) <= MaxEdits
          BY TypeFacts, UserAssumption DEF TypeInv
        <5>2. Cardinality(Pending(call', v)) \in Nat /\ Cardinality(Pending(call, v)) \in Nat
          BY PendingSize
        <5>3. db'[v].ver = db[v].ver /\ Cardinality(Pending(call', v)) <= Cardinality(Pending(call, v))
          BY <2>4, <3>2, <4>2
        <5>4. QED
          BY <5>1, <5>2, <5>3
      <4>3. QED
        BY <4>1, <4>2
    <3>6. QED
      BY <2>4, <3>3, <3>4, <3>5 DEF TypeInv
  <2>8. QED
    BY <1>4, <2>6, <2>7
<1>5. QED
  BY <1>3, <1>4, UpdateFacts

LEMMA BeginEditFacts ==
  ASSUME TypeInv, NEW a \in Admins, NEW op \in AdminOps, NEW u \in Users, BeginEdit(a, op, u)
  PROVE  /\ UNCHANGED <<db, settled, limiter, bucket, ideal>>
         /\ cache' \in Seq(Entries) /\ Len(cache') <= UserCacheCap
         /\ ToSet(cache') \subseteq ToSet(cache)
         /\ \E d \in Calls : /\ CallOK(d) /\ call' = [call EXCEPT ![a] = d]
                             /\ d.pc \in {"read", "got"} /\ d.key = <<"id", u, 0>>
<1> DEFINE c == [NoCall EXCEPT !.op = op, !.key = <<"id", u, 0>>]
<1>1. a \in Processes /\ UNCHANGED <<db, settled, limiter, bucket, ideal>>
  BY DEF Processes, BeginEdit, limiterVars
<1>2. <<"id", u, 0>> \in CacheKeys
  BY UserAssumption DEF CacheKeys, Edits
<1>3. c \in Calls /\ c.key = <<"id", u, 0>> /\ c.bucket = Nil /\ c.op = op
  BY <1>2 DEF NoCall, Calls
<1>4. CASE op \in {"toggle", "resetKey"}
  <2>1. userCacheGet(a, c)
    BY <1>4 DEF BeginEdit
  <2> HIDE DEF c
  <2>2. /\ cache' \in Seq(Entries) /\ Len(cache') <= UserCacheCap
        /\ ToSet(cache') \subseteq ToSet(cache)
        /\ \E d \in Calls : /\ CallOK(d) /\ call' = [call EXCEPT ![a] = d]
                            /\ d.pc \in {"read", "got"} /\ d.key = c.key /\ d.op = c.op
    BY <1>1, <1>2, <1>3, <2>1, GetFacts
  <2>3. QED
    BY <1>1, <1>3, <2>2
<1>5. CASE op \notin {"toggle", "resetKey"}
  <2> DEFINE d == [c EXCEPT !.pc = "got"]
  <2>1. call' = [call EXCEPT ![a] = d] /\ cache' = cache
    BY <1>5 DEF BeginEdit
  <2> HIDE DEF c
  <2>2. d \in Calls /\ d.pc = "got" /\ d.key = c.key /\ d.bucket = c.bucket /\ d.op = c.op
    BY <1>3 DEF Calls
  <2> HIDE DEF d
  <2>3. CallOK(d)
    <3>1. op # "api"
      BY DEF AdminOps
    <3>2. QED
      BY <1>2, <1>3, <2>2, <3>1 DEF CallOK
  <2>4. QED
    BY <1>1, <1>3, <2>1, <2>2, <2>3, TypeFacts
<1>6. QED
  BY <1>4, <1>5

LEMMA TypeBeginEdit ==
  ASSUME TypeInv, NEW a \in Admins, NEW op \in AdminOps, NEW u \in Users, BeginEdit(a, op, u)
  PROVE  TypeInv'
<1> DEFINE N == {b \in Admins : call[b].pc # "idle"}
<1>1. /\ UNCHANGED <<db, settled, limiter, bucket, ideal>>
      /\ cache' \in Seq(Entries) /\ Len(cache') <= UserCacheCap
  BY BeginEditFacts
<1>2. PICK d \in Calls : /\ CallOK(d) /\ call' = [call EXCEPT ![a] = d]
                         /\ d.pc \in {"read", "got"} /\ d.key = <<"id", u, 0>>
  BY BeginEditFacts
<1>3. a \in Processes /\ call \in [Processes -> Calls] /\ \A q \in Processes : CallOK(call[q])
  BY TypeFacts DEF Processes
<1>4. call' \in [Processes -> Calls] /\ \A q \in Processes : CallOK(call'[q])
  BY <1>2, <1>3, NewCall
<1>5. TypeOK'
  BY <1>1, <1>4 DEF TypeInv, TypeOK, Entries
<1>6. a \notin N /\ db[u].ver + Cardinality(N) < MaxEdits
  BY DEF BeginEdit
<1>7. IsFiniteSet(N) /\ Cardinality(N) \in Nat
  <2>1. N \in SUBSET Admins
    OBVIOUS
  <2> HIDE DEF N
  <2>2. IsFiniteSet(N)
    BY <2>1, UserAssumption, FS_Subset
  <2>3. QED
    BY <2>2, FS_CardinalityType
<1>8. call'[a] = d /\ \A q \in Admins : q # a => call'[q] = call[q]
  BY <1>2, <1>3 DEF Processes
<1>9. ASSUME NEW v \in Users PROVE db'[v].ver + Cardinality(Pending(call', v)) <= MaxEdits
  <2>1. db[v].ver \in Nat /\ MaxEdits \in Nat /\ db'[v].ver = db[v].ver
    BY <1>1, TypeFacts, UserAssumption
  <2>2. Cardinality(Pending(call', v)) \in Nat /\ Cardinality(Pending(call, v)) \in Nat
    BY PendingSize
  <2>3. CASE v = u
    <3>1. Pending(call', v) \in SUBSET (N \cup {a})
      BY <1>8 DEF Pending
    <3> HIDE DEF N
    <3>2. IsFiniteSet(N \cup {a}) /\ Cardinality(N \cup {a}) = Cardinality(N) + 1
      BY <1>6, <1>7, FS_AddElement
    <3>3. Cardinality(Pending(call', v)) <= Cardinality(N \cup {a})
      BY <3>1, <3>2, FS_Subset
    <3>4. QED
      BY <1>6, <1>7, <2>1, <2>2, <2>3, <3>2, <3>3
  <2>4. CASE v # u
    <3>1. d.key[2] # v
      BY <1>2, <2>4
    <3>2. Pending(call', v) \subseteq Pending(call, v)
      BY <1>8, <3>1 DEF Pending
    <3>3. Cardinality(Pending(call', v)) <= Cardinality(Pending(call, v))
      BY <3>2, Fewer
    <3>4. db[v].ver + Cardinality(Pending(call, v)) <= MaxEdits
      BY DEF TypeInv
    <3>5. QED
      BY <2>1, <2>2, <3>3, <3>4
  <2>5. QED
    BY <2>3, <2>4
<1>10. \A v \in Users : db'[v].id = v
  BY <1>1, TypeFacts
<1>11. QED
  BY <1>4, <1>5, <1>9, <1>10 DEF TypeInv

\* An invalidation: the entries that hold u go, and lookups of u that have read
\* but not stored are marked.
LEMMA InvalidateFacts ==
  ASSUME TypeInv, NEW a \in Admins, invalidateUserCache(a)
  PROVE  /\ UserOf(a) \in Users /\ call[a].pc = "invalidate"
         /\ UNCHANGED <<db, limiter, bucket, ideal>>
         /\ cache' = Dropped(UserOf(a))
         /\ settled' = [settled EXCEPT ![UserOf(a)] = db[UserOf(a)].ver]
         /\ \E c \in Calls :
              /\ CallOK(c) /\ c.pc \in {"idle", "drop"}
              /\ c.pc = "drop" => c.op = call[a].op /\ c.key = call[a].key
              /\ call' = [p \in Processes |->
                   IF p = a THEN c
                   ELSE IF call[p].pc = "store" /\ UserOf(p) = UserOf(a)
                   THEN [call[p] EXCEPT !.raced = TRUE] ELSE call[p]]
<1> DEFINE u == UserOf(a)
           next == IF call[a].op \in {"limit", "delete"}
                     THEN [call[a] EXCEPT !.pc = "drop"] ELSE NoCall
<1>1. /\ a \in Processes /\ call \in [Processes -> Calls] /\ call[a] \in Calls
      /\ call[a].pc = "invalidate" /\ CallOK(call[a])
  BY TypeFacts DEF Processes, invalidateUserCache
<1>2. u \in Users
  BY <1>1 DEF UserOf, CallOK, CacheKeys
<1>3. /\ UNCHANGED <<db, limiter, bucket, ideal>> /\ cache' = Dropped(u)
      /\ settled' = [settled EXCEPT ![u] = db[u].ver]
      /\ call' = [Racing(u) EXCEPT ![a] = next]
  BY DEF invalidateUserCache, limiterVars
<1>4. /\ next \in Calls /\ CallOK(next) /\ next.pc \in {"idle", "drop"}
      /\ next.pc = "drop" => next.op = call[a].op /\ next.key = call[a].key
  <2>1. CASE call[a].op \in {"limit", "delete"}
    <3> DEFINE c == [call[a] EXCEPT !.pc = "drop"]
    <3>1. /\ c \in Calls /\ c.pc = "drop" /\ c.op = call[a].op
          /\ c.key = call[a].key /\ c.bucket = call[a].bucket
      BY <1>1 DEF Calls
    <3>2. next = c
      BY <2>1
    <3> HIDE DEF next, c
    <3>3. CallOK(c)
      BY <1>1, <2>1, <3>1 DEF CallOK, Changing
    <3>4. QED
      BY <3>1, <3>2, <3>3
  <2>2. CASE call[a].op \notin {"limit", "delete"}
    <3>1. next = NoCall
      BY <2>2
    <3> HIDE DEF next
    <3>2. QED
      BY <3>1, IdleCall
  <2>3. QED
    BY <2>1, <2>2
<1> HIDE DEF next
<1>5. call' = [p \in Processes |->
                 IF p = a THEN next
                 ELSE IF call[p].pc = "store" /\ UserOf(p) = u
                 THEN [call[p] EXCEPT !.raced = TRUE] ELSE call[p]]
  BY <1>1, <1>3 DEF Racing
<1> HIDE DEF u
<1>6. QED
  BY <1>1, <1>2, <1>3, <1>4, <1>5 DEF u

LEMMA TypeInvalidate ==
  ASSUME TypeInv, NEW a \in Admins, invalidateUserCache(a)
  PROVE  TypeInv'
<1> DEFINE u == UserOf(a)
<1>1. /\ u \in Users /\ call[a].pc = "invalidate" /\ UNCHANGED <<db, limiter, bucket, ideal>>
      /\ cache' = Dropped(u) /\ settled' = [settled EXCEPT ![u] = db[u].ver]
  BY InvalidateFacts
<1>2. PICK c \in Calls :
        /\ CallOK(c) /\ c.pc \in {"idle", "drop"}
        /\ call' = [p \in Processes |->
             IF p = a THEN c
             ELSE IF call[p].pc = "store" /\ UserOf(p) = u
             THEN [call[p] EXCEPT !.raced = TRUE] ELSE call[p]]
  BY InvalidateFacts
<1> HIDE DEF u
<1>3. ASSUME NEW p \in Processes
      PROVE  /\ call'[p] \in Calls /\ CallOK(call'[p])
             /\ call'[p].pc \in {"read", "store", "got"} =>
                  call'[p].pc = call[p].pc /\ call'[p].key = call[p].key
  <2>1. call[p] \in Calls /\ CallOK(call[p])
    BY TypeFacts
  <2>2. CASE p = a
    <3>1. call'[p] = c
      BY <1>2, <2>2
    <3>2. QED
      BY <1>2, <3>1
  <2>3. CASE p # a /\ call[p].pc = "store" /\ UserOf(p) = u
    <3> DEFINE d == [call[p] EXCEPT !.raced = TRUE]
    <3>1. /\ d \in Calls /\ d.pc = call[p].pc /\ d.op = call[p].op /\ d.key = call[p].key
          /\ d.row = call[p].row /\ d.bucket = call[p].bucket
      BY <2>1 DEF Calls
    <3>2. call'[p] = d
      BY <1>2, <2>3
    <3> HIDE DEF d
    <3>3. CallOK(d)
      BY <2>1, <3>1 DEF CallOK
    <3>4. QED
      BY <3>1, <3>2, <3>3
  <2>4. CASE p # a /\ ~(call[p].pc = "store" /\ UserOf(p) = u)
    <3>1. call'[p] = call[p]
      BY <1>2, <2>4
    <3>2. QED
      BY <2>1, <3>1
  <2>5. QED
    BY <2>2, <2>3, <2>4
<1>4. call' \in [Processes -> Calls]
  BY <1>2, <1>3
<1>5. ASSUME NEW v \in Users
      PROVE  Cardinality(Pending(call', v)) <= Cardinality(Pending(call, v))
  <2>1. Pending(call', v) \subseteq Pending(call, v)
    BY <1>3 DEF Pending, Processes
  <2>2. QED
    BY <2>1, Fewer
<1>6. cache' \in Seq(Entries) /\ Len(cache') <= UserCacheCap
  <2>1. PICK t \in Seq(Entries) : t = Dropped(u) /\ Len(t) <= Len(cache)
    BY DroppedFacts DEF TypeInv
  <2>2. Len(t) \in Nat /\ Len(cache) \in Nat /\ Len(cache) <= UserCacheCap /\ UserCacheCap \in Nat
    BY TypeFacts, UserAssumption
  <2>3. QED
    BY <1>1, <2>1, <2>2
<1>7. settled' \in [Users -> Edits]
  <2>1. db[u].ver \in Edits
    BY <1>1, TypeFacts DEF Rows
  <2>2. QED
    BY <1>1, <2>1, TypeFacts
<1>8. TypeOK'
  BY <1>1, <1>4, <1>6, <1>7 DEF TypeInv, TypeOK, Entries
<1>9. QED
  BY <1>1, <1>3, <1>5, <1>8, TypeFacts, BudgetKept

LEMMA DropFacts ==
  ASSUME TypeInv, NEW a \in Admins, dropUserLimiter(a)
  PROVE  /\ UserOf(a) \in Users /\ call[a].pc = "drop" /\ call[a].op \in Changing
         /\ limiter' = [limiter EXCEPT ![UserOf(a)] = Nil] /\ Return(a)
         /\ bucket' = [x \in Buckets |-> IF x \in Referenced' THEN bucket[x] ELSE NoBucket]
         /\ UNCHANGED <<db, cache, settled, ideal>>
<1>1. a \in Processes /\ call[a].pc = "drop" /\ CallOK(call[a])
  BY TypeFacts DEF Processes, dropUserLimiter
<1>2. UserOf(a) \in Users /\ call[a].op \in Changing
  BY <1>1 DEF UserOf, CallOK, CacheKeys
<1>3. QED
  BY <1>1, <1>2 DEF dropUserLimiter, Keep, userVars

LEMMA TypeDrop ==
  ASSUME TypeInv, NEW a \in Admins, dropUserLimiter(a)
  PROVE  TypeInv'
<1>1. a \in Processes
  BY DEF Processes
<1>2. /\ UserOf(a) \in Users /\ limiter' = [limiter EXCEPT ![UserOf(a)] = Nil] /\ Return(a)
      /\ bucket' = [x \in Buckets |-> IF x \in Referenced' THEN bucket[x] ELSE NoBucket]
      /\ UNCHANGED <<db, cache, settled, ideal>>
  BY DropFacts
<1>3. /\ call' \in [Processes -> Calls] /\ \A q \in Processes : CallOK(call'[q])
      /\ \A v \in Users : Cardinality(Pending(call', v)) <= Cardinality(Pending(call, v))
  BY <1>1, <1>2, IdleCall, CallStep DEF Return
<1>4. bucket' \in [Buckets -> Objects] /\ \A x \in Buckets : bucket'[x].tokens <= bucket'[x].limit
  BY <1>2, TypeFacts, KeepFacts
<1>5. limiter' \in [Users -> Buckets \cup {Nil}]
  BY <1>2, TypeFacts
<1>6. TypeOK'
  BY <1>2, <1>3, <1>4, <1>5 DEF TypeInv, TypeOK, Objects
<1>7. QED
  BY <1>2, <1>3, <1>6, TypeFacts, BudgetKept

\* Steps of the clock, the sweeper and the pages that leave every handler alone.
LEMMA CallsUnchanged ==
  ASSUME TypeInv, call' = call
  PROVE  /\ call' \in [Processes -> Calls] /\ \A q \in Processes : CallOK(call'[q])
         /\ \A v \in Users : Cardinality(Pending(call', v)) <= Cardinality(Pending(call, v))
<1>1. ASSUME NEW v \in Users
      PROVE  Cardinality(Pending(call', v)) <= Cardinality(Pending(call, v))
  <2>1. Pending(call', v) = Pending(call, v) /\ Cardinality(Pending(call, v)) \in Nat
    BY PendingSize
  <2>2. QED
    BY <2>1
<1>2. QED
  BY <1>1, TypeFacts

LEMMA TypeCreateUser ==
  ASSUME TypeInv, NEW u \in Users, createUser(u)
  PROVE  TypeInv'
<1>1. /\ call' = call /\ UNCHANGED <<cache, settled, limiter, bucket, ideal>>
      /\ db' = [db EXCEPT ![u].status = "disabled"]
  BY DEF createUser, limiterVars
<1>2. db \in [Users -> Rows] /\ db[u] \in Rows /\ \A v \in Users : db[v].id = v
  BY TypeFacts
<1> DEFINE row == [db[u] EXCEPT !.status = "disabled"]
<1>3. row \in Rows /\ row.id = db[u].id /\ row.ver = db[u].ver
  BY <1>2 DEF Rows
<1>4. db' = [db EXCEPT ![u] = row]
  BY <1>1, <1>2
<1> HIDE DEF row
<1>5. db' \in [Users -> Rows] /\ \A v \in Users : db'[v].id = v /\ db'[v].ver = db[v].ver
  BY <1>2, <1>3, <1>4
<1>6. TypeOK'
  BY <1>1, <1>5 DEF TypeInv, TypeOK
<1>7. QED
  BY <1>1, <1>5, <1>6, CallsUnchanged, BudgetKept

LEMMA TypeReset ==
  ASSUME TypeInv, resetAllLimiters
  PROVE  TypeInv'
<1>1. /\ call' = call /\ UNCHANGED <<db, cache, settled>>
      /\ limiter' = [u \in Users |-> Nil] /\ ideal' = [u \in Users |-> Nil]
      /\ bucket' = [x \in Buckets |-> IF x \in Referenced' THEN bucket[x] ELSE NoBucket]
  BY DEF resetAllLimiters, userVars, Keep
<1>2. bucket' \in [Buckets -> Objects] /\ \A x \in Buckets : bucket'[x].tokens <= bucket'[x].limit
  BY <1>1, TypeFacts, KeepFacts
<1>3. limiter' \in [Users -> Buckets \cup {Nil}] /\ ideal' \in [Users -> Int \cup {Nil}]
  BY <1>1
<1>4. TypeOK'
  BY <1>1, <1>2, <1>3 DEF TypeInv, TypeOK, Objects
<1>5. QED
  BY <1>1, <1>4, TypeFacts, CallsUnchanged, BudgetKept

LEMMA TypeSweep ==
  ASSUME TypeInv, sweepIdleLimiters
  PROVE  TypeInv'
<1>1. /\ call' = call /\ UNCHANGED <<db, cache, settled, ideal>>
      /\ limiter' = [u \in Users |->
           IF limiter[u] # Nil /\ bucket[limiter[u]].idle >= IdleEvictAfter THEN Nil ELSE limiter[u]]
      /\ bucket' = [x \in Buckets |-> IF x \in Referenced' THEN bucket[x] ELSE NoBucket]
  BY DEF sweepIdleLimiters, userVars, Keep
<1>2. bucket' \in [Buckets -> Objects] /\ \A x \in Buckets : bucket'[x].tokens <= bucket'[x].limit
  BY <1>1, TypeFacts, KeepFacts
<1>3. limiter' \in [Users -> Buckets \cup {Nil}]
  BY <1>1, TypeFacts
<1>4. TypeOK'
  BY <1>1, <1>2, <1>3 DEF TypeInv, TypeOK, Objects
<1>5. QED
  BY <1>1, <1>4, TypeFacts, CallsUnchanged, BudgetKept

\* A bucket after a refill by one token of the buckets of limit l.
LEMMA RefillObject ==
  ASSUME NEW o \in Objects, o.tokens <= o.limit, NEW l \in Nat
  PROVE  LET n == IF o.limit = l THEN [o EXCEPT !.tokens = Lower(l, @ + 1)] ELSE o
         IN /\ n \in Objects /\ n.limit = o.limit /\ n.idle = o.idle /\ n.tokens <= n.limit
            /\ n.tokens = IF o.limit = l THEN Lower(l, o.tokens + 1) ELSE o.tokens
<1>1. CASE o.limit = l
  <2>1. PICK k \in Nat : k = Lower(l, o.tokens + 1) /\ k <= l
    BY DEF Lower, Objects
  <2> DEFINE n == [o EXCEPT !.tokens = k]
  <2>2. n \in Objects /\ n.limit = o.limit /\ n.idle = o.idle /\ n.tokens = k
    BY DEF Objects
  <2>3. n = IF o.limit = l THEN [o EXCEPT !.tokens = Lower(l, @ + 1)] ELSE o
    BY <1>1, <2>1
  <2> HIDE DEF n
  <2>4. QED
    BY <1>1, <2>1, <2>2, <2>3
<1>2. CASE o.limit # l
  BY <1>2
<1>3. QED
  BY <1>1, <1>2

LEMMA TypeRefill ==
  ASSUME TypeInv, NEW l \in Limits \cup {DefaultRL}, Refill(l)
  PROVE  TypeInv'
<1>1. /\ call' = call /\ UNCHANGED <<db, cache, settled, limiter>>
      /\ bucket' = [b \in Buckets |->
           IF bucket[b].limit = l
             THEN [bucket[b] EXCEPT !.tokens = Lower(l, @ + 1)] ELSE bucket[b]]
      /\ ideal' = [u \in Users |->
           IF ideal[u] # Nil /\ db[u].limit = l THEN Lower(l, ideal[u] + 1) ELSE ideal[u]]
  BY DEF Refill, userVars
<1>2. l \in Nat
  BY UserAssumption
<1>3. ASSUME NEW b \in Buckets
      PROVE  bucket'[b] \in Objects /\ bucket'[b].tokens <= bucket'[b].limit
  <2>1. PICK o \in Objects : o = bucket[b] /\ o.tokens <= o.limit
    BY TypeFacts
  <2>2. bucket'[b] = IF o.limit = l THEN [o EXCEPT !.tokens = Lower(l, @ + 1)] ELSE o
    BY <1>1, <2>1
  <2>3. QED
    BY <1>2, <2>1, <2>2, RefillObject
<1>4. bucket' \in [Buckets -> Objects]
  BY <1>1, <1>3
<1>5. ideal' \in [Users -> Int \cup {Nil}]
  <2>1. ASSUME NEW u \in Users PROVE ideal'[u] \in Int \cup {Nil}
    <3>1. ideal[u] \in Int \cup {Nil}
      BY TypeFacts
    <3>2. QED
      BY <1>1, <1>2, <3>1 DEF Lower
  <2>2. QED
    BY <1>1, <2>1
<1>6. TypeOK'
  BY <1>1, <1>3, <1>4, <1>5 DEF TypeInv, TypeOK, Objects
<1>7. QED
  BY <1>1, <1>6, TypeFacts, CallsUnchanged, BudgetKept

\* A bucket after a minute or more.
LEMMA TickObject ==
  ASSUME NEW o \in Objects
  PROVE  LET n == [o EXCEPT !.tokens = o.limit,
                            !.idle = IF o.limit = 0 THEN 0 ELSE Lower(IdleEvictAfter, @ + 1)]
         IN n \in Objects /\ n.limit = o.limit /\ n.tokens = o.limit
<1>1. PICK k \in 0..IdleEvictAfter : k = IF o.limit = 0 THEN 0 ELSE Lower(IdleEvictAfter, o.idle + 1)
  BY UserAssumption DEF Lower, Objects
<1> DEFINE n == [o EXCEPT !.tokens = o.limit, !.idle = k]
<1>2. n \in Objects /\ n.limit = o.limit /\ n.tokens = o.limit
  BY DEF Objects
<1>3. n = [o EXCEPT !.tokens = o.limit,
                    !.idle = IF o.limit = 0 THEN 0 ELSE Lower(IdleEvictAfter, @ + 1)]
  BY <1>1
<1> HIDE DEF n
<1>4. QED
  BY <1>2, <1>3

\* The clock ages the entries and leaves all else of them.
LEMMA TickEntries ==
  ASSUME TypeInv, Tick
  PROVE  /\ cache' \in Seq(Entries) /\ Len(cache') = Len(cache)
         /\ \A i \in 1..Len(cache) : /\ cache'[i].row = cache[i].row
                                     /\ cache'[i].raced = cache[i].raced
<1>1. cache \in Seq(Entries) /\ Len(cache) \in Nat
  BY TypeFacts
<1>2. cache' = [i \in 1..Len(cache) |-> [cache[i] EXCEPT !.age = Lower(UserCacheTTL, @ + 1)]]
  <2>1. DOMAIN cache = 1..Len(cache)
    BY <1>1
  <2>2. QED
    BY <2>1 DEF Tick
<1>3. ASSUME NEW i \in 1..Len(cache)
      PROVE  /\ cache'[i] \in Entries /\ cache'[i].row = cache[i].row
             /\ cache'[i].raced = cache[i].raced
  <2>1. PICK e \in Entries : e = cache[i]
    BY <1>1
  <2>2. PICK k \in 0..UserCacheTTL : k = Lower(UserCacheTTL, e.age + 1)
    BY UserAssumption DEF Lower, Entries
  <2>3. cache'[i] = [e EXCEPT !.age = k]
    BY <1>2, <2>1, <2>2
  <2>4. [e EXCEPT !.age = k] \in Entries
    BY DEF Entries
  <2>5. [e EXCEPT !.age = k].row = e.row /\ [e EXCEPT !.age = k].raced = e.raced
    BY DEF Entries
  <2>6. QED
    BY <2>1, <2>3, <2>4, <2>5
<1>4. cache' \in [1..Len(cache) -> Entries]
  BY <1>2, <1>3
<1>5. cache' \in Seq(Entries) /\ Len(cache') = Len(cache)
  BY <1>1, <1>4
<1>6. QED
  BY <1>3, <1>5

LEMMA TypeTick ==
  ASSUME TypeInv, Tick
  PROVE  TypeInv'
<1>1. /\ call' = call /\ UNCHANGED <<db, settled, limiter>>
      /\ bucket' = [b \in Buckets |->
           [bucket[b] EXCEPT !.tokens = bucket[b].limit,
                             !.idle = IF bucket[b].limit = 0 THEN 0 ELSE Lower(IdleEvictAfter, @ + 1)]]
      /\ ideal' = [u \in Users |->
           IF Quiet(u) \/ (ideal[u] # Nil /\ ~Holding(u)) THEN db[u].limit ELSE Nil]
  BY DEF Tick
<1>2. ASSUME NEW b \in Buckets
      PROVE  bucket'[b] \in Objects /\ bucket'[b].tokens <= bucket'[b].limit
  <2>1. PICK o \in Objects : o = bucket[b]
    BY TypeFacts
  <2>2. bucket'[b] = [o EXCEPT !.tokens = o.limit,
                               !.idle = IF o.limit = 0 THEN 0 ELSE Lower(IdleEvictAfter, @ + 1)]
    BY <1>1, <2>1
  <2>3. bucket'[b] \in Objects /\ bucket'[b].limit = o.limit /\ bucket'[b].tokens = o.limit
    BY <2>2, TickObject
  <2>4. o.limit \in Nat
    BY DEF Objects
  <2>5. QED
    BY <2>3, <2>4
<1>3. bucket' \in [Buckets -> Objects]
  BY <1>1, <1>2
<1>4. ideal' \in [Users -> Int \cup {Nil}]
  <2>1. \A u \in Users : db[u] \in Rows
    BY TypeFacts
  <2>2. \A u \in Users : db[u].limit \in Int
    BY <2>1, RowLimit
  <2>3. QED
    BY <1>1, <2>2
<1>5. cache' \in Seq(Entries) /\ Len(cache') <= UserCacheCap
  BY TypeFacts, TickEntries, SMTT(30)
<1>6. TypeOK'
  BY <1>1, <1>2, <1>3, <1>4, <1>5 DEF TypeInv, TypeOK, Objects, Entries
<1>7. QED
  BY <1>1, <1>6, TypeFacts, CallsUnchanged, BudgetKept

LEMMA TypeInit == Init => TypeInv
<1> SUFFICES ASSUME Init PROVE TypeInv
  OBVIOUS
<1>1. /\ db \in [Users -> Rows] /\ \A u \in Users : db[u].id = u /\ db[u].ver = 0
  BY DEF Init
<1>2. cache \in Seq(Entries) /\ Len(cache) <= UserCacheCap
  BY UserAssumption DEF Init
<1>3. call \in [Processes -> Calls] /\ \A p \in Processes : call[p] = NoCall
  BY IdleCall DEF Init
<1>4. limiter \in [Users -> Buckets \cup {Nil}]
  BY DEF Init
<1>5. bucket \in [Buckets -> Objects] /\ \A b \in Buckets : bucket[b].tokens <= bucket[b].limit
  BY NoObject DEF Init
<1>6. settled \in [Users -> Edits]
  BY UserAssumption DEF Init, Edits
<1>7. ideal \in [Users -> Int \cup {Nil}]
  <2>1. \A u \in Users : db[u] \in Rows
    BY <1>1
  <2>2. \A u \in Users : db[u].limit \in Int
    BY <2>1, RowLimit
  <2>3. QED
    BY <2>2 DEF Init
<1>8. TypeOK
  BY <1>1, <1>2, <1>3, <1>4, <1>5, <1>6, <1>7 DEF TypeOK, Entries, Objects
<1>9. ASSUME NEW u \in Users PROVE db[u].ver + Cardinality(Pending(call, u)) <= MaxEdits
  <2>1. Pending(call, u) = {}
    BY <1>3, IdleCall DEF Pending, Processes
  <2>2. QED
    BY <1>1, <2>1, FS_EmptySet, UserAssumption
<1>10. QED
  BY <1>1, <1>3, <1>8, <1>9, IdleCall DEF TypeInv

LEMMA TypeStep == TypeInv /\ [Next]_vars => TypeInv'
<1> SUFFICES ASSUME TypeInv, [Next]_vars PROVE TypeInv'
  OBVIOUS
<1>1. CASE UNCHANGED vars
  <2>1. UNCHANGED <<db, cache, call, limiter, bucket, settled, ideal>>
    BY <1>1 DEF vars, userVars, limiterVars
  <2>2. TypeOK'
    BY <2>1 DEF TypeInv, TypeOK
  <2>3. QED
    BY <2>1, <2>2, TypeFacts, CallsUnchanged, BudgetKept
<1>2. ASSUME NEW r \in Requests, RequestStep(r) PROVE TypeInv'
  <2>1. r \in Processes
    BY DEF Processes
  <2>2. QED
    BY <1>2, <2>1, TypeReadRow, TypeUserCacheSet, TypeFetchLimiter, TypeAllow
       DEF RequestStep, Lookup
<1>3. ASSUME NEW a \in Admins, AdminStep(a) PROVE TypeInv'
  <2>1. a \in Processes
    BY DEF Processes
  <2>2. QED
    BY <1>3, <2>1, TypeReadRow, TypeUserCacheSet, TypeUpdateRow, TypeInvalidate, TypeDrop
       DEF AdminStep, Lookup
<1>4. QED
  BY <1>1, <1>2, <1>3, TypeBeginRequest, TypeBeginEdit, TypeCreateUser, TypeRefill,
     TypeReset, TypeSweep, TypeTick DEF Next

LEMMA TypeHolds == Spec => []TypeInv
BY TypeInit, TypeStep, PTL DEF Spec

\* Type correctness for any number of users, handlers and entries: the cache
\* stays within userCacheCap (db.go userCacheGet, userCacheSet), a bucket within
\* its limit, and isAllowed always has a bucket to hand out (ratelimit.go).
THEOREM TypeCorrect == Spec => []TypeOK
<1>1. TypeInv => TypeOK
  BY DEF TypeInv
<1>2. QED
  BY <1>1, TypeHolds, PTL

-----------------------------------------------------------------------------
(* Stale rows.                                                             *)

\* What is cached is decided when a lookup reads, so the claim is made of the
\* rows lookups hold as well.
StaleInv ==
  /\ StaleRowsRaced
  /\ \A u \in Users : settled[u] <= db[u].ver
  /\ \A p \in Processes : call[p].pc = "store" =>
       /\ call[p].row.id = UserOf(p)
       /\ call[p].row.ver >= settled[UserOf(p)] \/ call[p].raced

\* A step that reads no row and settles nothing.
LEMMA StaleKept ==
  ASSUME TypeInv, StaleInv, settled' = settled,
         \A e \in ToSet(cache') : \E d \in ToSet(cache) : e.row = d.row /\ e.raced = d.raced,
         \A u \in Users : db'[u].ver >= db[u].ver /\ db'[u].ver \in Nat,
         \A p \in Processes : call'[p].pc = "store" => call'[p] = call[p]
  PROVE  StaleInv'
<1>1. StaleRowsRaced'
  BY DEF StaleInv, StaleRowsRaced
<1>2. ASSUME NEW u \in Users PROVE settled'[u] <= db'[u].ver
  <2>1. /\ settled[u] <= db[u].ver /\ settled[u] \in Nat /\ db[u].ver \in Nat
        /\ db'[u].ver >= db[u].ver /\ db'[u].ver \in Nat
    BY TypeFacts DEF StaleInv, Edits
  <2>2. QED
    BY <2>1
<1>3. ASSUME NEW p \in Processes, call'[p].pc = "store"
      PROVE  /\ call'[p].row.id = call'[p].key[2]
             /\ call'[p].row.ver >= settled'[call'[p].key[2]] \/ call'[p].raced
  <2>1. call'[p] = call[p] /\ call[p].pc = "store"
    BY <1>3
  <2>2. QED
    BY <2>1 DEF StaleInv, UserOf
<1>4. QED
  BY <1>1, <1>2, <1>3 DEF StaleInv, UserOf

LEMMA NoNewStore ==
  ASSUME NEW f \in [Processes -> Calls], NEW p \in Processes, NEW c \in Calls, c.pc # "store"
  PROVE  \A q \in Processes : [f EXCEPT ![p] = c][q].pc = "store" => [f EXCEPT ![p] = c][q] = f[q]
OBVIOUS

\* Steps that leave the table and the cache alone and store nothing.
LEMMA StaleHandler ==
  ASSUME TypeInv, StaleInv, UNCHANGED <<db, cache, settled>>, NEW p \in Processes,
         NEW c \in Calls, c.pc # "store", call' = [call EXCEPT ![p] = c]
  PROVE  StaleInv'
<1>1. \A q \in Processes : call'[q].pc = "store" => call'[q] = call[q]
  BY TypeFacts, NoNewStore
<1>2. \A u \in Users : db'[u].ver >= db[u].ver /\ db'[u].ver \in Nat
  BY TypeFacts
<1>3. \A e \in ToSet(cache') : \E d \in ToSet(cache) : e.row = d.row /\ e.raced = d.raced
  OBVIOUS
<1>4. QED
  BY <1>1, <1>2, <1>3, StaleKept

LEMMA StaleReadRow ==
  ASSUME TypeInv, StaleInv, NEW p \in Processes, ReadRow(p)
  PROVE  StaleInv'
<1>1. /\ call \in [Processes -> Calls] /\ CallOK(call[p]) /\ call[p].pc = "read"
      /\ call[p] \in Calls /\ UNCHANGED <<db, cache, settled>>
  BY TypeFacts DEF ReadRow, userVars
<1>2. CASE Return(p)
  BY <1>1, <1>2, IdleCall, StaleHandler DEF Return
<1>3. CASE call' = [call EXCEPT ![p].pc = "store", ![p].row = db[UserOf(p)]]
  <2>1. UserOf(p) \in Users
    BY <1>1 DEF CallOK, UserOf, CacheKeys
  <2> DEFINE c == [call[p] EXCEPT !.pc = "store", !.row = db[UserOf(p)]]
  <2>2. call'[p] = c /\ \A q \in Processes : q # p => call'[q] = call[q]
    BY <1>1, <1>3
  <2>3. c.row = db[UserOf(p)] /\ c.key = call[p].key
    BY <1>1 DEF Calls
  <2> HIDE DEF c
  <2>4. call'[p].row = db[UserOf(p)] /\ call'[p].key = call[p].key
    BY <2>2, <2>3
  <2>5. db[UserOf(p)].id = UserOf(p) /\ db[UserOf(p)].ver >= settled[UserOf(p)]
    <3>1. /\ settled[UserOf(p)] <= db[UserOf(p)].ver /\ settled[UserOf(p)] \in Nat
          /\ db[UserOf(p)].ver \in Nat /\ db[UserOf(p)].id = UserOf(p)
      BY <2>1, TypeFacts DEF StaleInv, Edits
    <3>2. QED
      BY <3>1
  <2>6. ASSUME NEW q \in Processes, call'[q].pc = "store"
        PROVE  /\ call'[q].row.id = call'[q].key[2]
               /\ call'[q].row.ver >= settled'[call'[q].key[2]] \/ call'[q].raced
    <3>1. CASE q = p
      BY <1>1, <2>4, <2>5, <3>1 DEF UserOf
    <3>2. CASE q # p
      <4>1. call'[q] = call[q]
        BY <2>2, <3>2
      <4>2. QED
        BY <1>1, <2>6, <4>1 DEF StaleInv, UserOf
    <3>3. QED
      BY <3>1, <3>2
  <2>7. StaleRowsRaced' /\ \A u \in Users : settled'[u] <= db'[u].ver
    BY <1>1 DEF StaleInv, StaleRowsRaced
  <2>8. QED
    BY <2>6, <2>7 DEF StaleInv, UserOf
<1>4. QED
  BY <1>2, <1>3 DEF ReadRow

LEMMA StaleUserCacheSet ==
  ASSUME TypeInv, StaleInv, NEW p \in Processes, userCacheSet(p)
  PROVE  StaleInv'
<1>1. /\ call \in [Processes -> Calls] /\ CallOK(call[p]) /\ call[p].pc = "store"
      /\ call[p] \in Calls /\ UNCHANGED <<db, settled>>
  BY TypeFacts DEF userCacheSet
<1>2. call[p].key \in CacheKeys /\ call[p].row \in Rows
  BY <1>1 DEF CallOK
<1> DEFINE c == [call[p] EXCEPT !.pc = "got"]
           e == [key |-> call[p].key, row |-> call[p].row, age |-> 0, raced |-> call[p].raced]
<1>3. c \in Calls /\ c.pc = "got"
  BY <1>1 DEF Calls
<1>4. call' = [call EXCEPT ![p] = c]
  BY <1>1 DEF userCacheSet, Goto
<1>5. cache' = IF Len(ToFront(e)) > UserCacheCap THEN Front(ToFront(e)) ELSE ToFront(e)
  BY DEF userCacheSet
<1>6. e \in Entries
  BY <1>1, <1>2, UserAssumption DEF Entries, Calls
<1>7. e.row = call[p].row /\ e.raced = call[p].raced
  OBVIOUS
<1> HIDE DEF c, e
<1>8. ToSet(cache') \subseteq ToSet(cache) \cup {e}
  <2>1. PICK t \in Seq(Entries) : t = ToFront(e) /\ ToSet(t) \subseteq ToSet(cache) \cup {e}
    BY <1>6, FrontFacts DEF TypeInv
  <2>2. CASE Len(t) > UserCacheCap
    <3>1. cache' = SubSeq(t, 1, Len(t) - 1)
      BY <1>5, <2>1, <2>2 DEF Front
    <3>2. PICK n \in Nat : n = Len(t) - 1 /\ n < Len(t)
      <4>1. Len(t) \in Nat /\ UserCacheCap \in Nat \ {0}
        BY <2>1, UserAssumption
      <4>2. Len(t) - 1 \in Nat /\ Len(t) - 1 < Len(t)
        BY <2>2, <4>1
      <4>3. QED
        BY <4>2
    <3>3. cache' = SubSeq(t, 1, n) /\ Len(cache') = n /\ DOMAIN cache' = 1..n
      BY <3>1, <3>2
    <3>4. \A i \in 1..n : cache'[i] = t[i] /\ i \in 1..Len(t)
      BY <3>2, <3>3
    <3>5. ToSet(cache') \subseteq ToSet(t)
      BY <3>3, <3>4 DEF ToSet
    <3>6. QED
      BY <2>1, <3>5
  <2>3. CASE ~(Len(t) > UserCacheCap)
    BY <1>5, <2>1, <2>3
  <2>4. QED
    BY <2>2, <2>3
<1>9. ASSUME NEW d \in ToSet(cache') PROVE d.row.ver >= settled'[d.row.id] \/ d.raced
  <2>1. CASE d = e
    BY <1>1, <1>7, <2>1 DEF StaleInv
  <2>2. CASE d \in ToSet(cache)
    BY <1>1, <2>2 DEF StaleInv, StaleRowsRaced
  <2>3. QED
    BY <1>8, <2>1, <2>2
<1>10. ASSUME NEW q \in Processes, call'[q].pc = "store"
       PROVE  /\ call'[q].row.id = call'[q].key[2]
              /\ call'[q].row.ver >= settled'[call'[q].key[2]] \/ call'[q].raced
  <2>1. call'[q] = call[q]
    BY <1>1, <1>3, <1>4, <1>10, NoNewStore
  <2>2. QED
    BY <1>1, <1>10, <2>1 DEF StaleInv, UserOf
<1>11. \A u \in Users : settled'[u] <= db'[u].ver
  BY <1>1 DEF StaleInv
<1>12. QED
  BY <1>9, <1>10, <1>11 DEF StaleInv, StaleRowsRaced, UserOf

LEMMA StaleInvalidate ==
  ASSUME TypeInv, StaleInv, NEW a \in Admins, invalidateUserCache(a)
  PROVE  StaleInv'
<1> DEFINE u == UserOf(a)
<1>1. /\ u \in Users /\ db' = db /\ cache' = Dropped(u)
      /\ settled' = [settled EXCEPT ![u] = db[u].ver]
  BY InvalidateFacts
<1>2. PICK c \in Calls :
        /\ CallOK(c) /\ c.pc \in {"idle", "drop"}
        /\ call' = [p \in Processes |->
             IF p = a THEN c
             ELSE IF call[p].pc = "store" /\ UserOf(p) = u
             THEN [call[p] EXCEPT !.raced = TRUE] ELSE call[p]]
  BY InvalidateFacts
<1> HIDE DEF u
<1>3. settled'[u] = db[u].ver /\ \A v : v \in Users /\ v # u => settled'[v] = settled[v]
  BY <1>1, TypeFacts
<1>4. ASSUME NEW e \in ToSet(cache') PROVE e.row.ver >= settled'[e.row.id] \/ e.raced
  <2>1. e \in ToSet(cache) /\ e.row.id # u
    BY <1>1, DroppedFacts DEF TypeInv
  <2>2. e \in Entries
    BY <2>1, TypeFacts DEF ToSet
  <2>3. e.row.id \in Users
    BY <2>2 DEF Entries, Rows
  <2>4. QED
    BY <1>3, <2>1, <2>3 DEF StaleInv, StaleRowsRaced
<1>5. ASSUME NEW v \in Users PROVE settled'[v] <= db'[v].ver
  <2>1. db[v].ver \in Nat
    BY TypeFacts
  <2>2. QED
    BY <1>1, <1>3, <2>1 DEF StaleInv
<1>6. ASSUME NEW p \in Processes, call'[p].pc = "store"
      PROVE  /\ call'[p].row.id = call'[p].key[2]
             /\ call'[p].row.ver >= settled'[call'[p].key[2]] \/ call'[p].raced
  <2>1. call[p] \in Calls /\ CallOK(call[p])
    BY TypeFacts
  <2>2. p # a
    BY <1>2, <1>6
  <2>3. CASE call[p].pc = "store" /\ UserOf(p) = u
    <3> DEFINE d == [call[p] EXCEPT !.raced = TRUE]
    <3>1. d.raced = TRUE /\ d.row = call[p].row /\ d.key = call[p].key
      BY <2>1 DEF Calls
    <3>2. call'[p] = d
      BY <1>2, <2>2, <2>3
    <3> HIDE DEF d
    <3>3. QED
      BY <2>3, <3>1, <3>2 DEF StaleInv, UserOf
  <2>4. CASE ~(call[p].pc = "store" /\ UserOf(p) = u)
    <3>1. call'[p] = call[p] /\ call[p].pc = "store" /\ UserOf(p) # u
      BY <1>2, <1>6, <2>2, <2>4
    <3>2. UserOf(p) \in Users
      BY <2>1, <3>1 DEF CallOK, UserOf, CacheKeys
    <3>3. settled'[UserOf(p)] = settled[UserOf(p)]
      BY <1>3, <3>1, <3>2
    <3>4. QED
      BY <3>1, <3>3 DEF StaleInv, UserOf
  <2>5. QED
    BY <2>3, <2>4
<1>7. QED
  BY <1>4, <1>5, <1>6 DEF StaleInv, StaleRowsRaced, UserOf

\* The steps that begin a handler only reorder the cache or shrink it.
LEMMA StaleBegin ==
  ASSUME TypeInv, StaleInv, UNCHANGED <<db, settled>>, NEW p \in Processes,
         ToSet(cache') \subseteq ToSet(cache),
         NEW c \in Calls, c.pc # "store", call' = [call EXCEPT ![p] = c]
  PROVE  StaleInv'
<1>1. \A q \in Processes : call'[q].pc = "store" => call'[q] = call[q]
  BY TypeFacts, NoNewStore
<1>2. \A u \in Users : db'[u].ver >= db[u].ver /\ db'[u].ver \in Nat
  BY TypeFacts
<1>3. \A e \in ToSet(cache') : \E d \in ToSet(cache) : e.row = d.row /\ e.raced = d.raced
  OBVIOUS
<1>4. QED
  BY <1>1, <1>2, <1>3, StaleKept

LEMMA StaleBeginRequest ==
  ASSUME TypeInv, StaleInv, NEW r \in Requests, NEW u \in Users, NEW n \in Edits,
         BeginRequest(r, u, n)
  PROVE  StaleInv'
<1> DEFINE c == [NoCall EXCEPT !.op = "api", !.key = <<"api", u, n>>]
<1>1. /\ r \in Processes /\ UNCHANGED <<db, settled>> /\ userCacheGet(r, c)
  BY DEF Processes, BeginRequest
<1>2. <<"api", u, n>> \in CacheKeys
  BY DEF CacheKeys
<1>3. c \in Calls /\ c.key \in CacheKeys /\ c.bucket = Nil
  BY <1>2 DEF NoCall, Calls
<1> HIDE DEF c
<1>4. /\ ToSet(cache') \subseteq ToSet(cache)
      /\ \E d \in Calls : call' = [call EXCEPT ![r] = d] /\ d.pc \in {"read", "got"}
  BY <1>1, <1>3, GetFacts
<1>5. QED
  BY <1>1, <1>4, StaleBegin

LEMMA StaleBeginEdit ==
  ASSUME TypeInv, StaleInv, NEW a \in Admins, NEW op \in AdminOps, NEW u \in Users,
         BeginEdit(a, op, u)
  PROVE  StaleInv'
<1>1. a \in Processes
  BY DEF Processes
<1>2. /\ UNCHANGED <<db, settled>> /\ ToSet(cache') \subseteq ToSet(cache)
      /\ \E d \in Calls : call' = [call EXCEPT ![a] = d] /\ d.pc \in {"read", "got"}
  BY BeginEditFacts
<1>3. QED
  BY <1>1, <1>2, StaleBegin

LEMMA StaleFetchLimiter ==
  ASSUME TypeInv, StaleInv, NEW r \in Requests, FetchLimiter(r)
  PROVE  StaleInv'
<1>1. /\ r \in Processes /\ call[r] \in Calls
  BY TypeFacts DEF Processes
<1>2. /\ UNCHANGED <<db, cache, settled>>
      /\ \/ Return(r)
         \/ \E b \in Buckets, o \in Objects : Takes(r, UserOf(r), call[r].row.limit, b, o)
  BY FetchFacts
<1>3. PICK c \in Calls : c.pc # "store" /\ call' = [call EXCEPT ![r] = c]
  <2>1. CASE Return(r)
    BY <2>1, IdleCall DEF Return
  <2>2. ASSUME NEW b \in Buckets, NEW o \in Objects,
               Takes(r, UserOf(r), call[r].row.limit, b, o)
        PROVE  \E c \in Calls : c.pc # "store" /\ call' = [call EXCEPT ![r] = c]
    <3> DEFINE c == [call[r] EXCEPT !.pc = "allow", !.bucket = b]
    <3>1. c \in Calls /\ c.pc = "allow"
      BY <1>1 DEF Calls
    <3>2. call' = [call EXCEPT ![r] = c]
      BY <2>2 DEF Takes
    <3> HIDE DEF c
    <3>3. QED
      BY <3>1, <3>2
  <2>3. QED
    BY <1>2, <2>1, <2>2
<1>4. QED
  BY <1>1, <1>2, <1>3, StaleHandler

LEMMA StaleAllow ==
  ASSUME TypeInv, StaleInv, NEW r \in Requests, Allow(r)
  PROVE  StaleInv'
<1>1. r \in Processes /\ Return(r) /\ UNCHANGED <<db, cache, settled>>
  BY AllowFacts DEF Processes
<1>2. QED
  BY <1>1, IdleCall, StaleHandler DEF Return

LEMMA StaleUpdateRow ==
  ASSUME TypeInv, StaleInv, NEW a \in Admins, UpdateRow(a)
  PROVE  StaleInv'
<1>1. /\ a \in Processes /\ call \in [Processes -> Calls] /\ call[a] \in Calls
      /\ db \in [Users -> Rows] /\ UserOf(a) \in Users /\ UNCHANGED <<cache, settled>>
  BY TypeFacts, UpdateFacts DEF Processes
<1>2. PICK c \in Calls : c.pc # "store" /\ call' = [call EXCEPT ![a] = c]
  <2>1. CASE Return(a)
    BY <2>1, IdleCall DEF Return
  <2>2. CASE call' = [call EXCEPT ![a] = [call[a] EXCEPT !.pc = "invalidate"]]
    <3> DEFINE c == [call[a] EXCEPT !.pc = "invalidate"]
    <3>1. c \in Calls /\ c.pc = "invalidate"
      BY <1>1 DEF Calls
    <3>2. call' = [call EXCEPT ![a] = c]
      BY <2>2
    <3> HIDE DEF c
    <3>3. QED
      BY <3>1, <3>2
  <2>3. QED
    BY <2>1, <2>2, UpdateFacts
<1>3. ASSUME NEW v \in Users PROVE db'[v].ver >= db[v].ver /\ db'[v].ver \in Nat
  <2>1. db[v].ver \in Nat
    BY TypeFacts
  <2>2. db' = db \/ \E row \in Rows : /\ db' = [db EXCEPT ![UserOf(a)] = row]
                                      /\ row.ver = db[UserOf(a)].ver + 1
    BY UpdateFacts
  <2>3. db'[v].ver = db[v].ver \/ db'[v].ver = db[v].ver + 1
    BY <1>1, <2>2
  <2>4. QED
    BY <2>1, <2>3
<1>4. \A q \in Processes : call'[q].pc = "store" => call'[q] = call[q]
  BY <1>1, <1>2, NoNewStore
<1>5. \A e \in ToSet(cache') : \E d \in ToSet(cache) : e.row = d.row /\ e.raced = d.raced
  BY <1>1
<1>6. QED
  BY <1>1, <1>3, <1>4, <1>5, StaleKept

LEMMA StaleDrop ==
  ASSUME TypeInv, StaleInv, NEW a \in Admins, dropUserLimiter(a)
  PROVE  StaleInv'
<1>1. a \in Processes /\ Return(a) /\ UNCHANGED <<db, cache, settled>>
  BY DropFacts DEF Processes
<1>2. QED
  BY <1>1, IdleCall, StaleHandler DEF Return

LEMMA StaleCreateUser ==
  ASSUME TypeInv, StaleInv, NEW u \in Users, createUser(u)
  PROVE  StaleInv'
<1>1. /\ UNCHANGED <<cache, settled, call>> /\ db \in [Users -> Rows]
      /\ db' = [db EXCEPT ![u].status = "disabled"]
  BY TypeFacts DEF createUser
<1>2. ASSUME NEW v \in Users PROVE db'[v].ver >= db[v].ver /\ db'[v].ver \in Nat
  <2>1. db[v] \in Rows /\ db[v].ver \in Nat
    BY TypeFacts
  <2>2. db'[v] = IF v = u THEN [db[v] EXCEPT !.status = "disabled"] ELSE db[v]
    BY <1>1
  <2>3. db'[v].ver = db[v].ver
    BY <2>1, <2>2 DEF Rows
  <2>4. QED
    BY <2>1, <2>3
<1>3. \A e \in ToSet(cache') : \E d \in ToSet(cache) : e.row = d.row /\ e.raced = d.raced
  BY <1>1
<1>4. QED
  BY <1>1, <1>2, <1>3, StaleKept

LEMMA StaleTick ==
  ASSUME TypeInv, StaleInv, Tick
  PROVE  StaleInv'
<1>1. UNCHANGED <<db, call, settled>>
  BY DEF Tick
<1>2. /\ cache' \in Seq(Entries) /\ Len(cache') = Len(cache) /\ cache \in Seq(Entries)
      /\ \A i \in 1..Len(cache) : cache'[i].row = cache[i].row /\ cache'[i].raced = cache[i].raced
  BY TypeFacts, TickEntries
<1>3. ASSUME NEW e \in ToSet(cache')
      PROVE  \E d \in ToSet(cache) : e.row = d.row /\ e.raced = d.raced
  <2>1. DOMAIN cache' = 1..Len(cache) /\ DOMAIN cache = 1..Len(cache)
    BY <1>2
  <2>2. PICK i \in 1..Len(cache) : e = cache'[i]
    BY <2>1 DEF ToSet
  <2>3. cache[i] \in ToSet(cache)
    BY <2>1 DEF ToSet
  <2>4. QED
    BY <1>2, <2>2, <2>3
<1>4. \A u \in Users : db'[u].ver >= db[u].ver /\ db'[u].ver \in Nat
  BY <1>1, TypeFacts
<1>5. QED
  BY <1>1, <1>3, <1>4, StaleKept

LEMMA StaleUnchanged ==
  ASSUME TypeInv, StaleInv, UNCHANGED <<db, cache, settled, call>>
  PROVE  StaleInv'
<1>1. \A u \in Users : db'[u].ver >= db[u].ver /\ db'[u].ver \in Nat
  BY TypeFacts
<1>2. \A e \in ToSet(cache') : \E d \in ToSet(cache) : e.row = d.row /\ e.raced = d.raced
  OBVIOUS
<1>3. QED
  BY <1>1, <1>2, StaleKept

LEMMA StaleInit == Init => StaleInv
<1> SUFFICES ASSUME Init PROVE StaleInv
  OBVIOUS
<1>1. ToSet(cache) = {}
  BY DEF Init, ToSet
<1>2. \A u \in Users : settled[u] <= db[u].ver
  BY DEF Init
<1>3. \A p \in Processes : call[p].pc # "store"
  BY IdleCall DEF Init
<1>4. QED
  BY <1>1, <1>2, <1>3 DEF StaleInv, StaleRowsRaced

LEMMA StaleStep == TypeInv /\ StaleInv /\ [Next]_vars => StaleInv'
<1> SUFFICES ASSUME TypeInv, StaleInv, [Next]_vars PROVE StaleInv'
  OBVIOUS
<1>1. CASE UNCHANGED vars
  BY <1>1, StaleUnchanged DEF vars, userVars
<1>2. ASSUME NEW r \in Requests, RequestStep(r) PROVE StaleInv'
  <2>1. r \in Processes
    BY DEF Processes
  <2>2. QED
    BY <1>2, <2>1, StaleReadRow, StaleUserCacheSet, StaleFetchLimiter, StaleAllow
       DEF RequestStep, Lookup
<1>3. ASSUME NEW a \in Admins, AdminStep(a) PROVE StaleInv'
  <2>1. a \in Processes
    BY DEF Processes
  <2>2. QED
    BY <1>3, <2>1, StaleReadRow, StaleUserCacheSet, StaleUpdateRow, StaleInvalidate, StaleDrop
       DEF AdminStep, Lookup
<1>4. CASE resetAllLimiters
  BY <1>4, StaleUnchanged DEF resetAllLimiters, userVars
<1>5. CASE sweepIdleLimiters
  BY <1>5, StaleUnchanged DEF sweepIdleLimiters, userVars
<1>6. ASSUME NEW l \in Limits \cup {DefaultRL}, Refill(l) PROVE StaleInv'
  BY <1>6, StaleUnchanged DEF Refill, userVars
<1>7. QED
  BY <1>1, <1>2, <1>3, <1>4, <1>5, <1>6, StaleBeginRequest, StaleBeginEdit, StaleCreateUser,
     StaleTick DEF Next

\* After an edit's invalidateUserCache no row from before it is cached under any
\* key, except by a lookup that read it before and stored it after (db.go).
THEOREM InvalidationReachesAll == Spec => []StaleRowsRaced
<1>1. StaleInv => StaleRowsRaced
  BY DEF StaleInv
<1>2. QED
  BY <1>1, TypeHolds, StaleInit, StaleStep, PTL DEF Spec

-----------------------------------------------------------------------------
(* Bursts.                                                                 *)

\* The registered bucket of u, when it was made for u's limit, holds no more
\* than the ideal one; if it may be swept the ideal one is full and no request
\* is about to use it.  Any other bucket is one isAllowed will replace, by a full
\* one.  Every request between the unlock and Allow holds the registered bucket.
Sound(u) ==
  /\ ideal[u] \in Nat
  /\ IF limiter[u] # Nil /\ bucket[limiter[u]].limit = db[u].limit
     THEN /\ bucket[limiter[u]].tokens <= ideal[u]
          /\ bucket[limiter[u]].idle # 0 => ideal[u] = db[u].limit /\ ~Holding(u)
          /\ \A r \in Requests : call[r].pc = "allow" /\ UserOf(r) = u =>
               call[r].bucket = limiter[u]
     ELSE ideal[u] = db[u].limit /\ ~Holding(u)

\* A limit that was changed, or a user that was deleted, is claimed nothing of
\* until the handler has dropped the bucket.
Unclaimed ==
  \A a \in Admins : call[a].pc \in {"invalidate", "drop"} /\ call[a].op \in Changing =>
    ideal[UserOf(a)] = Nil

BurstInv ==
  /\ \A u \in Users : ideal[u] # Nil => Sound(u)
  /\ Unclaimed

\* A step that leaves the ideal and the registered bucket of v, but for tokens
\* taken and a use noted, and adds no holder.
LEMMA SoundKept ==
  ASSUME TypeInv, TypeInv', NEW v \in Users, ideal[v] # Nil => Sound(v),
         ideal'[v] = ideal[v], db'[v].limit = db[v].limit, limiter'[v] = limiter[v],
         limiter[v] # Nil =>
           /\ bucket'[limiter[v]].limit = bucket[limiter[v]].limit
           /\ bucket'[limiter[v]].tokens <= bucket[limiter[v]].tokens
           /\ bucket'[limiter[v]].idle # 0 => bucket[limiter[v]].idle # 0,
         \A r \in Requests : call'[r].pc = "allow" /\ call'[r].key[2] = v =>
           call[r].pc = "allow" /\ call[r].key[2] = v /\ call'[r].bucket = call[r].bucket,
         ideal'[v] # Nil
  PROVE  Sound(v)'
<1>1. Sound(v) /\ ideal'[v] \in Nat
  BY DEF Sound
<1>2. Holding(v)' => Holding(v)
  BY DEF Holding, UserOf
<1>3. CASE limiter[v] # Nil /\ bucket[limiter[v]].limit = db[v].limit
  <2>1. /\ bucket[limiter[v]].tokens <= ideal[v]
        /\ bucket[limiter[v]].idle # 0 => ideal[v] = db[v].limit /\ ~Holding(v)
        /\ \A r \in Requests : call[r].pc = "allow" /\ UserOf(r) = v => call[r].bucket = limiter[v]
    BY <1>1, <1>3 DEF Sound
  <2>2. limiter[v] \in Buckets
    BY <1>3, TypeFacts
  <2>3. bucket[limiter[v]].tokens \in Nat /\ bucket'[limiter[v]].tokens \in Nat
    BY <2>2 DEF TypeInv, TypeOK
  <2>4. bucket'[limiter'[v]].tokens <= ideal'[v]
    BY <1>1, <1>3, <2>1, <2>3 DEF Sound
  <2>5. bucket'[limiter'[v]].idle # 0 => ideal'[v] = db'[v].limit /\ ~Holding(v)'
    BY <1>2, <1>3, <2>1
  <2>6. \A r \in Requests : call'[r].pc = "allow" /\ call'[r].key[2] = v => call'[r].bucket = limiter'[v]
    BY <2>1 DEF UserOf
  <2>7. limiter'[v] # Nil /\ bucket'[limiter'[v]].limit = db'[v].limit
    BY <1>3
  <2>8. QED
    BY <1>1, <2>4, <2>5, <2>6, <2>7 DEF Sound, UserOf
<1>4. CASE ~(limiter[v] # Nil /\ bucket[limiter[v]].limit = db[v].limit)
  <2>1. ideal[v] = db[v].limit /\ ~Holding(v)
    BY <1>1, <1>4 DEF Sound
  <2>2. ideal'[v] = db'[v].limit /\ ~Holding(v)'
    BY <1>2, <2>1
  <2>3. ~(limiter'[v] # Nil /\ bucket'[limiter'[v]].limit = db'[v].limit)
    BY <1>4
  <2>4. QED
    BY <1>1, <2>2, <2>3 DEF Sound
<1>5. QED
  BY <1>3, <1>4

LEMMA UnclaimedKept ==
  ASSUME Unclaimed, \A v \in Users : ideal[v] = Nil => ideal'[v] = Nil,
         TypeInv,
         \A a \in Admins : call'[a].pc \in {"invalidate", "drop"} =>
           /\ call[a].pc \in {"invalidate", "drop"}
           /\ call'[a].op = call[a].op /\ call'[a].key = call[a].key
  PROVE  Unclaimed'
<1>1. ASSUME NEW a \in Admins, call'[a].pc \in {"invalidate", "drop"}, call'[a].op \in Changing
      PROVE  ideal'[call'[a].key[2]] = Nil
  <2>1. /\ call[a].pc \in {"invalidate", "drop"} /\ call[a].op \in Changing
        /\ call'[a].key = call[a].key
    BY <1>1
  <2>2. CallOK(call[a])
    BY TypeFacts DEF Processes
  <2>3. call[a].key[2] \in Users
    BY <2>1, <2>2 DEF CallOK, CacheKeys
  <2>4. ideal[call[a].key[2]] = Nil
    BY <2>1 DEF Unclaimed, UserOf
  <2>5. QED
    BY <2>1, <2>3, <2>4
<1>2. QED
  BY <1>1 DEF Unclaimed, UserOf

\* A handler's step outside the registry that edits no row.
LEMMA BurstHandler ==
  ASSUME TypeInv, TypeInv', BurstInv, UNCHANGED <<limiter, bucket, ideal>>,
         \A u \in Users : db'[u].limit = db[u].limit, NEW p \in Processes,
         NEW c \in Calls, c.pc \notin {"allow", "invalidate", "drop"},
         call' = [call EXCEPT ![p] = c]
  PROVE  BurstInv'
<1>1. call \in [Processes -> Calls]
  BY TypeFacts
<1>2. ASSUME NEW q \in Processes, call'[q].pc \in {"allow", "invalidate", "drop"}
      PROVE  call'[q] = call[q]
  BY <1>1, <1>2
<1>3. ASSUME NEW v \in Users, ideal'[v] # Nil PROVE Sound(v)'
  <2>1. \A r \in Requests : call'[r].pc = "allow" /\ call'[r].key[2] = v =>
          call[r].pc = "allow" /\ call[r].key[2] = v /\ call'[r].bucket = call[r].bucket
    BY <1>2 DEF Processes
  <2>2. limiter[v] # Nil =>
          /\ bucket'[limiter[v]].limit = bucket[limiter[v]].limit
          /\ bucket'[limiter[v]].tokens <= bucket[limiter[v]].tokens
          /\ bucket'[limiter[v]].idle # 0 => bucket[limiter[v]].idle # 0
    <3>1. SUFFICES ASSUME limiter[v] # Nil
                   PROVE  bucket[limiter[v]].tokens <= bucket[limiter[v]].tokens
      OBVIOUS
    <3>2. limiter[v] \in Buckets
      BY <3>1, TypeFacts
    <3>3. bucket[limiter[v]].tokens \in Nat
      BY <3>2, TypeFacts DEF Objects
    <3>4. QED
      BY <3>3
  <2>3. ideal[v] # Nil => Sound(v)
    BY DEF BurstInv
  <2>4. QED
    BY <1>3, <2>1, <2>2, <2>3, SoundKept
<1>4. Unclaimed'
  <2>1. \A a \in Admins : call'[a].pc \in {"invalidate", "drop"} => call'[a] = call[a]
    BY <1>2 DEF Processes
  <2>2. QED
    BY <2>1, UnclaimedKept DEF BurstInv
<1>5. QED
  BY <1>3, <1>4 DEF BurstInv

LEMMA BurstReadRow ==
  ASSUME TypeInv, TypeInv', BurstInv, NEW p \in Processes, ReadRow(p)
  PROVE  BurstInv'
<1>1. /\ call \in [Processes -> Calls] /\ call[p] \in Calls /\ call'[p] \in Calls
      /\ UNCHANGED <<db, limiter, bucket, ideal>>
  BY DEF TypeInv, TypeOK, ReadRow, userVars, limiterVars
<1>2. CASE Return(p)
  BY <1>1, <1>2, IdleCall, BurstHandler DEF Return
<1>3. CASE call' = [call EXCEPT ![p].pc = "store", ![p].row = db[UserOf(p)]]
  <2>1. PICK c \in Calls : c = call'[p]
    BY <1>1
  <2>2. c = [call[p] EXCEPT !.pc = "store", !.row = db[UserOf(p)]]
    BY <1>1, <1>3, <2>1
  <2>3. c.pc = "store" /\ call' = [call EXCEPT ![p] = c]
    BY <1>1, <1>3, <2>2, ZenonT(40) DEF Calls
  <2>4. QED
    BY <1>1, <2>3, BurstHandler
<1>4. QED
  BY <1>2, <1>3 DEF ReadRow

LEMMA BurstUserCacheSet ==
  ASSUME TypeInv, TypeInv', BurstInv, NEW p \in Processes, userCacheSet(p)
  PROVE  BurstInv'
<1>1. /\ call \in [Processes -> Calls] /\ call[p] \in Calls /\ Goto(p, "got")
      /\ UNCHANGED <<db, limiter, bucket, ideal>>
  BY TypeFacts DEF userCacheSet, limiterVars
<1> DEFINE c == [call[p] EXCEPT !.pc = "got"]
<1>2. c \in Calls /\ c.pc = "got"
  BY <1>1 DEF Calls
<1>3. call' = [call EXCEPT ![p] = c]
  BY <1>1 DEF Goto
<1> HIDE DEF c
<1>4. QED
  BY <1>1, <1>2, <1>3, BurstHandler

LEMMA BurstBeginRequest ==
  ASSUME TypeInv, TypeInv', BurstInv, NEW r \in Requests, NEW u \in Users, NEW n \in Edits,
         BeginRequest(r, u, n)
  PROVE  BurstInv'
<1> DEFINE c == [NoCall EXCEPT !.op = "api", !.key = <<"api", u, n>>]
<1>1. /\ r \in Processes /\ UNCHANGED <<db, limiter, bucket, ideal>> /\ userCacheGet(r, c)
  BY DEF Processes, BeginRequest, limiterVars
<1>2. <<"api", u, n>> \in CacheKeys
  BY DEF CacheKeys
<1>3. c \in Calls /\ c.key \in CacheKeys /\ c.bucket = Nil
  BY <1>2 DEF NoCall, Calls
<1> HIDE DEF c
<1>4. \E d \in Calls : call' = [call EXCEPT ![r] = d] /\ d.pc \in {"read", "got"}
  BY <1>1, <1>3, GetFacts
<1>5. QED
  BY <1>1, <1>4, BurstHandler

LEMMA BurstBeginEdit ==
  ASSUME TypeInv, TypeInv', BurstInv, NEW a \in Admins, NEW op \in AdminOps, NEW u \in Users,
         BeginEdit(a, op, u)
  PROVE  BurstInv'
<1>1. a \in Processes
  BY DEF Processes
<1>2. /\ UNCHANGED <<db, limiter, bucket, ideal>>
      /\ \E d \in Calls : call' = [call EXCEPT ![a] = d] /\ d.pc \in {"read", "got"}
  BY BeginEditFacts
<1>3. QED
  BY <1>1, <1>2, BurstHandler

\* isAllowed finds the registered bucket or registers a full one.
LEMMA BurstFetchLimiter ==
  ASSUME TypeInv, TypeInv', BurstInv, NEW r \in Requests, FetchLimiter(r)
  PROVE  BurstInv'
<1> DEFINE limit == call[r].row.limit
<1>0. PICK u \in Users : u = UserOf(r)
  BY FetchFacts
<1>1. /\ r \in Processes /\ r \notin Admins /\ call \in [Processes -> Calls] /\ call[r] \in Calls
      /\ limiter \in [Users -> Buckets \cup {Nil}] /\ bucket \in [Buckets -> Objects]
      /\ ideal \in [Users -> Int \cup {Nil}]
  BY TypeFacts, UserAssumption DEF Processes
<1>2. /\ u \in Users /\ UNCHANGED <<db, cache, settled>>
      /\ \/ Return(r) /\ UNCHANGED <<limiter, bucket, ideal>>
         \/ \E b \in Buckets, o \in Objects : Takes(r, u, limit, b, o)
  BY <1>0, FetchFacts
<1>3. CASE Return(r) /\ UNCHANGED <<limiter, bucket, ideal>>
  BY <1>1, <1>2, <1>3, IdleCall, BurstHandler DEF Return
<1>4. ASSUME NEW b \in Buckets, NEW o \in Objects, Takes(r, u, limit, b, o)
      PROVE  BurstInv'
  <2> DEFINE c == [call[r] EXCEPT !.pc = "allow", !.bucket = b]
  <2>1. c \in Calls /\ c.pc = "allow" /\ c.bucket = b /\ c.key = call[r].key
    BY <1>1 DEF Calls
  <2>2. call' = [call EXCEPT ![r] = c]
    BY <1>4 DEF Takes
  <2> HIDE DEF c
  <2>3. call'[r] = c /\ \A q \in Processes : q # r => call'[q] = call[q]
    BY <1>1, <2>2
  <2>4. u = call[r].key[2]
    BY <1>0 DEF UserOf
  <2> HIDE DEF limit
  <2>5. limiter'[u] = b /\ \A v \in Users : v # u => limiter'[v] = limiter[v]
    BY <1>1, <1>2, <1>4 DEF Takes
  <2>6. \A v \in Users : limiter'[v] \in Referenced'
    BY DEF Referenced
  <2>7. bucket'[b] = o /\ \A v \in Users : v # u /\ limiter[v] # Nil =>
          limiter[v] \in Buckets /\
          bucket'[limiter[v]] = IF limiter[v] = b THEN o ELSE bucket[limiter[v]]
    <3>1. bucket' = [x \in Buckets |-> IF x \in Referenced' THEN [bucket EXCEPT ![b] = o][x] ELSE NoBucket]
      BY <1>4 DEF Takes
    <3>2. b \in Referenced'
      BY <1>2, <2>5, <2>6
    <3>3. bucket'[b] = o
      BY <1>1, <3>1, <3>2
    <3>4. ASSUME NEW v \in Users, v # u, limiter[v] # Nil
          PROVE  limiter[v] \in Buckets /\
                 bucket'[limiter[v]] = IF limiter[v] = b THEN o ELSE bucket[limiter[v]]
      <4>1. limiter[v] \in Buckets
        BY <1>1, <3>4
      <4>2. limiter[v] \in Referenced'
        BY <2>5, <2>6, <3>4
      <4>3. QED
        BY <1>1, <3>1, <4>1, <4>2
    <3>5. QED
      BY <3>3, <3>4
  <2>8. /\ o.tokens <= o.limit /\ o.idle = 0 /\ o.limit = limit
        /\ \/ /\ limiter[u] = b /\ bucket[b].limit = limit
              /\ o.tokens = bucket[b].tokens
           \/ /\ b \notin Referenced /\ o.tokens = limit
              /\ limiter[u] = Nil \/ bucket[limiter[u]].limit # limit
    BY <1>4 DEF Takes
  <2>9. ideal' = IF limit = db[u].limit THEN ideal ELSE [ideal EXCEPT ![u] = Nil]
    BY <1>4 DEF Takes
  <2>10. ASSUME NEW v \in Users, v # u, ideal'[v] # Nil PROVE Sound(v)'
    <3>1. ideal'[v] = ideal[v]
      BY <1>1, <2>9, <2>10
    <3>2. limiter[v] # Nil =>
            /\ bucket'[limiter[v]].limit = bucket[limiter[v]].limit
            /\ bucket'[limiter[v]].tokens <= bucket[limiter[v]].tokens
            /\ bucket'[limiter[v]].idle # 0 => bucket[limiter[v]].idle # 0
      <4> SUFFICES ASSUME limiter[v] # Nil
                   PROVE  /\ bucket'[limiter[v]].limit = bucket[limiter[v]].limit
                          /\ bucket'[limiter[v]].tokens <= bucket[limiter[v]].tokens
                          /\ bucket'[limiter[v]].idle # 0 => bucket[limiter[v]].idle # 0
        OBVIOUS
      <4>1. limiter[v] \in Buckets /\ bucket[limiter[v]].tokens \in Nat
        <5>1. limiter[v] \in Buckets
          BY <2>7, <2>10
        <5>2. QED
          BY <1>1, <5>1 DEF Objects
      <4>2. CASE limiter[v] = b
        <5>1. b \in Referenced
          BY <4>2 DEF Referenced
        <5>2. bucket'[limiter[v]] = o
          BY <2>7, <4>2
        <5>3. o.limit = bucket[limiter[v]].limit /\ o.tokens = bucket[limiter[v]].tokens
          BY <2>8, <4>2, <5>1
        <5>4. QED
          BY <2>8, <4>1, <5>2, <5>3
      <4>3. CASE limiter[v] # b
        <5>1. bucket'[limiter[v]] = bucket[limiter[v]]
          BY <2>7, <2>10, <4>3
        <5>2. QED
          BY <4>1, <5>1
      <4>4. QED
        BY <4>2, <4>3
    <3>3. ASSUME NEW q \in Requests, call'[q].pc = "allow", call'[q].key[2] = v
          PROVE  call[q].pc = "allow" /\ call[q].key[2] = v /\ call'[q].bucket = call[q].bucket
      <4>1. q # r
        BY <2>1, <2>3, <2>4, <2>10, <3>3
      <4>2. call'[q] = call[q]
        BY <2>3, <4>1 DEF Processes
      <4>3. QED
        BY <3>3, <4>2
    <3>4. ideal[v] # Nil => Sound(v)
      BY DEF BurstInv
    <3>5. db'[v].limit = db[v].limit /\ limiter'[v] = limiter[v]
      BY <1>2, <2>5, <2>10
    <3>6. QED
      BY <2>10, <3>1, <3>2, <3>3, <3>4, <3>5, SoundKept
  <2>11. ASSUME ideal'[u] # Nil PROVE Sound(u)'
    <3>1. limit = db[u].limit /\ ideal' = ideal
      BY <1>1, <1>2, <2>9, <2>11
    <3>2. Sound(u) /\ ideal[u] \in Nat
      BY <1>2, <2>11, <3>1 DEF BurstInv, Sound
    <3>3. o.tokens <= ideal[u]
      <4>1. CASE limiter[u] = b /\ bucket[b].limit = limit /\ o.tokens = bucket[b].tokens
        BY <3>1, <3>2, <4>1, Sizes DEF Sound
      <4>2. CASE o.tokens = limit /\ (limiter[u] = Nil \/ bucket[limiter[u]].limit # limit)
        <5>1. ideal[u] = db[u].limit
          BY <3>1, <3>2, <4>2 DEF Sound
        <5>2. QED
          BY <3>1, <3>2, <4>2, <5>1
      <4>3. QED
        BY <2>8, <4>1, <4>2
    <3>4. ASSUME NEW q \in Requests, call'[q].pc = "allow", call'[q].key[2] = u
          PROVE  call'[q].bucket = b
      <4>1. CASE q = r
        BY <2>1, <2>3, <4>1
      <4>2. CASE q # r
        <5>1. call'[q] = call[q]
          BY <2>3, <4>2 DEF Processes
        <5>2. Holding(u)
          BY <3>4, <5>1 DEF Holding, UserOf
        <5>3. limiter[u] # Nil /\ bucket[limiter[u]].limit = limit
          BY <3>1, <3>2, <5>2 DEF Sound
        <5>4. limiter[u] = b
          BY <2>8, <5>3
        <5>5. call[q].bucket = limiter[u]
          BY <3>1, <3>2, <3>4, <5>1, <5>3 DEF Sound, UserOf
        <5>6. QED
          BY <5>1, <5>4, <5>5
      <4>3. QED
        BY <4>1, <4>2
    <3>5. limiter'[u] # Nil /\ bucket'[limiter'[u]].limit = db'[u].limit
      BY <1>2, <2>5, <2>7, <2>8, <3>1, Sizes
    <3>6. bucket'[limiter'[u]].tokens <= ideal'[u] /\ bucket'[limiter'[u]].idle = 0
      BY <2>5, <2>7, <2>8, <3>1, <3>3
    <3>7. QED
      BY <2>5, <3>1, <3>2, <3>4, <3>5, <3>6 DEF Sound, UserOf
  <2>12. Unclaimed'
    <3>1. \A v \in Users : ideal[v] = Nil => ideal'[v] = Nil
      BY <1>1, <1>2, <2>9
    <3>2. \A a \in Admins : call'[a] = call[a]
      BY <1>1, <2>3 DEF Processes
    <3>3. QED
      BY <3>1, <3>2, UnclaimedKept DEF BurstInv
  <2>13. QED
    BY <2>10, <2>11, <2>12 DEF BurstInv
<1>5. QED
  BY <1>2, <1>3, <1>4

\* A token granted from the registered bucket is one the ideal bucket has.
LEMMA BurstAllow ==
  ASSUME TypeInv, TypeInv', BurstInv, NEW r \in Requests, Allow(r)
  PROVE  BurstInv'
<1> DEFINE b == call[r].bucket
<1>0. PICK u \in Users : u = UserOf(r)
  BY AllowFacts
<1>1. /\ r \in Processes /\ r \notin Admins /\ call \in [Processes -> Calls]
      /\ limiter \in [Users -> Buckets \cup {Nil}] /\ bucket \in [Buckets -> Objects]
      /\ ideal \in [Users -> Int \cup {Nil}] /\ call[r].pc = "allow"
  BY TypeFacts, UserAssumption DEF Processes, Allow
<1>2. u \in Users /\ b \in Buckets /\ Return(r) /\ UNCHANGED <<db, limiter>>
  BY AllowFacts
<1>3. PICK o \in [Buckets -> Objects] :
        /\ bucket' = [x \in Buckets |-> IF x \in Referenced' THEN o[x] ELSE NoBucket]
        /\ \A x \in Buckets : /\ o[x].limit = bucket[x].limit /\ o[x].idle = bucket[x].idle
                              /\ o[x].tokens <= bucket[x].tokens
        /\ \/ ideal' = ideal
           \/ /\ bucket[b].tokens > 0 /\ o[b].tokens = bucket[b].tokens - 1
              /\ ideal[u] # Nil /\ ideal' = [ideal EXCEPT ![u] = ideal[u] - 1]
  BY <1>0, AllowFacts
<1>4. call'[r] = NoCall /\ \A q \in Processes : q # r => call'[q] = call[q]
  BY <1>1, <1>2 DEF Return
<1>5. u = call[r].key[2]
  BY <1>0 DEF UserOf
<1> HIDE DEF b
<1>6. ASSUME NEW v \in Users, limiter[v] # Nil
      PROVE  limiter[v] \in Buckets /\ bucket'[limiter[v]] = o[limiter[v]]
  <2>1. limiter[v] \in Buckets
    BY <1>1, <1>6
  <2>2. limiter[v] \in Referenced'
    BY <1>2 DEF Referenced
  <2>3. QED
    BY <1>3, <2>1, <2>2
<1>7. ASSUME NEW q \in Requests, call'[q].pc = "allow"
      PROVE  q # r /\ call'[q] = call[q]
  BY <1>4, <1>7, IdleCall DEF Processes
<1>8. ASSUME NEW v \in Users, ideal'[v] = ideal[v], ideal'[v] # Nil PROVE Sound(v)'
  <2>1. limiter[v] # Nil =>
          /\ bucket'[limiter[v]].limit = bucket[limiter[v]].limit
          /\ bucket'[limiter[v]].tokens <= bucket[limiter[v]].tokens
          /\ bucket'[limiter[v]].idle # 0 => bucket[limiter[v]].idle # 0
    BY <1>3, <1>6
  <2>2. \A q \in Requests : call'[q].pc = "allow" /\ call'[q].key[2] = v =>
          call[q].pc = "allow" /\ call[q].key[2] = v /\ call'[q].bucket = call[q].bucket
    BY <1>7
  <2>3. ideal[v] # Nil => Sound(v)
    BY DEF BurstInv
  <2>4. db'[v].limit = db[v].limit /\ limiter'[v] = limiter[v]
    BY <1>2
  <2>5. QED
    BY <1>8, <2>1, <2>2, <2>3, <2>4, SoundKept
<1>9. CASE ideal' = ideal
  <2>1. Unclaimed'
    <3>1. \A a \in Admins : call'[a] = call[a]
      BY <1>1, <1>4 DEF Processes
    <3>2. QED
      BY <1>9, <3>1, UnclaimedKept DEF BurstInv
  <2>2. QED
    BY <1>8, <1>9, <2>1 DEF BurstInv
<1>10. CASE /\ bucket[b].tokens > 0 /\ o[b].tokens = bucket[b].tokens - 1
            /\ ideal[u] # Nil /\ ideal' = [ideal EXCEPT ![u] = ideal[u] - 1]
  <2>1. Sound(u) /\ ideal[u] \in Nat
    BY <1>2, <1>10 DEF BurstInv, Sound
  <2>2. Holding(u)
    BY <1>1, <1>5 DEF Holding, UserOf
  <2>3. limiter[u] # Nil /\ bucket[limiter[u]].limit = db[u].limit
    BY <2>1, <2>2 DEF Sound
  <2>4. /\ bucket[limiter[u]].tokens <= ideal[u] /\ bucket[limiter[u]].idle = 0
        /\ \A q \in Requests : call[q].pc = "allow" /\ UserOf(q) = u => call[q].bucket = limiter[u]
    BY <2>1, <2>2, <2>3 DEF Sound
  <2>5. limiter[u] = b
    BY <1>1, <1>5, <2>4 DEF UserOf, b
  <2>6. ideal'[u] = ideal[u] - 1 /\ \A v \in Users : v # u => ideal'[v] = ideal[v]
    BY <1>1, <1>2, <1>10
  <2>7. bucket[b].tokens \in Nat
    BY <1>1, <1>2 DEF Objects
  <2>8. bucket'[b] = o[b]
    BY <1>2, <1>6, <2>3, <2>5
  <2>9. ideal'[u] \in Nat /\ bucket'[limiter'[u]].tokens <= ideal'[u]
    BY <1>2, <1>10, <2>1, <2>4, <2>5, <2>6, <2>7, <2>8
  <2>10. /\ limiter'[u] # Nil /\ bucket'[limiter'[u]].limit = db'[u].limit
         /\ bucket'[limiter'[u]].idle = 0
    BY <1>2, <1>3, <2>3, <2>4, <2>5, <2>8
  <2>11. \A q \in Requests : call'[q].pc = "allow" /\ call'[q].key[2] = u => call'[q].bucket = limiter'[u]
    BY <1>2, <1>7, <2>4 DEF UserOf
  <2>12. Sound(u)'
    BY <2>9, <2>10, <2>11 DEF Sound, UserOf
  <2>13. Unclaimed'
    <3>1. \A a \in Admins : call'[a] = call[a]
      BY <1>1, <1>4 DEF Processes
    <3>2. \A v \in Users : ideal[v] = Nil => ideal'[v] = Nil
      BY <1>10, <2>6
    <3>3. QED
      BY <3>1, <3>2, UnclaimedKept DEF BurstInv
  <2>14. QED
    BY <1>8, <2>6, <2>12, <2>13 DEF BurstInv
<1>11. QED
  BY <1>3, <1>9, <1>10

\* The registry is left alone.
LEMMA SameBuckets ==
  ASSUME TypeInv, UNCHANGED <<limiter, bucket>>, NEW v \in Users
  PROVE  limiter[v] # Nil =>
           /\ bucket'[limiter[v]].limit = bucket[limiter[v]].limit
           /\ bucket'[limiter[v]].tokens <= bucket[limiter[v]].tokens
           /\ bucket'[limiter[v]].idle # 0 => bucket[limiter[v]].idle # 0
<1> SUFFICES ASSUME limiter[v] # Nil
             PROVE  bucket[limiter[v]].tokens <= bucket[limiter[v]].tokens
  OBVIOUS
<1>1. limiter[v] \in Buckets
  BY TypeFacts
<1>2. bucket[limiter[v]].tokens \in Nat
  BY <1>1, TypeFacts DEF Objects
<1>3. QED
  BY <1>2

LEMMA BurstUpdateRow ==
  ASSUME TypeInv, TypeInv', BurstInv, NEW a \in Admins, UpdateRow(a)
  PROVE  BurstInv'
<1>1. /\ a \in Processes /\ a \notin Requests /\ call \in [Processes -> Calls] /\ call[a] \in Calls
      /\ db \in [Users -> Rows] /\ ideal \in [Users -> Int \cup {Nil}]
  BY TypeFacts, UserAssumption DEF Processes
<1>2. PICK u \in Users : u = UserOf(a)
  BY UpdateFacts
<1>3. UNCHANGED <<limiter, bucket>>
  BY UpdateFacts
<1>4. CASE Return(a) /\ UNCHANGED <<db, ideal>>
  BY <1>1, <1>3, <1>4, IdleCall, BurstHandler DEF Return
<1>5. CASE /\ call' = [call EXCEPT ![a] = [call[a] EXCEPT !.pc = "invalidate"]]
           /\ ideal' = IF call[a].op \in Changing THEN [ideal EXCEPT ![u] = Nil] ELSE ideal
           /\ \/ db' = db
              \/ \E row \in Rows : /\ db' = [db EXCEPT ![u] = row]
                                   /\ call[a].op \notin Changing => row.limit = db[u].limit
  <2> DEFINE c == [call[a] EXCEPT !.pc = "invalidate"]
  <2>1. c.op = call[a].op /\ c.key = call[a].key
    BY <1>1 DEF Calls
  <2>2. call'[a] = c /\ \A q \in Processes : q # a => call'[q] = call[q]
    BY <1>1, <1>5
  <2> HIDE DEF c
  <2>3. ASSUME NEW v \in Users, ideal'[v] # Nil
        PROVE  ideal'[v] = ideal[v] /\ db'[v].limit = db[v].limit
    <3>1. v # u \/ call[a].op \notin Changing
      BY <1>1, <1>5, <2>3
    <3>2. ideal'[v] = ideal[v]
      BY <1>1, <1>5, <3>1
    <3>3. db'[v].limit = db[v].limit
      <4>1. CASE v # u
        BY <1>1, <1>5, <4>1
      <4>2. CASE v = u /\ call[a].op \notin Changing
        BY <1>1, <1>5, <4>2
      <4>3. QED
        BY <3>1, <4>1, <4>2
    <3>4. QED
      BY <3>2, <3>3
  <2>4. ASSUME NEW v \in Users, ideal'[v] # Nil PROVE Sound(v)'
    <3>1. \A r \in Requests : call'[r] = call[r]
      BY <1>1, <2>2 DEF Processes
    <3>2. ideal'[v] = ideal[v] /\ db'[v].limit = db[v].limit
      BY <2>3, <2>4
    <3>3. ideal[v] # Nil => Sound(v)
      BY DEF BurstInv
    <3>4. limiter'[v] = limiter[v]
      BY <1>3
    <3>5. limiter[v] # Nil =>
            /\ bucket'[limiter[v]].limit = bucket[limiter[v]].limit
            /\ bucket'[limiter[v]].tokens <= bucket[limiter[v]].tokens
            /\ bucket'[limiter[v]].idle # 0 => bucket[limiter[v]].idle # 0
      BY <1>3, SameBuckets
    <3>6. QED
      BY <2>4, <3>1, <3>2, <3>3, <3>4, <3>5, SoundKept
  <2>5. ASSUME NEW q \in Admins, call'[q].pc \in {"invalidate", "drop"}, call'[q].op \in Changing
        PROVE  ideal'[call'[q].key[2]] = Nil
    <3>1. CASE q = a
      <4>1. call'[q].key[2] = u /\ call[a].op \in Changing
        BY <1>2, <2>1, <2>2, <2>5, <3>1 DEF UserOf
      <4>2. QED
        BY <1>1, <1>5, <4>1
    <3>2. CASE q # a
      <4>1. call'[q] = call[q] /\ CallOK(call[q])
        BY <2>2, <3>2, TypeFacts DEF Processes
      <4>2. call[q].key[2] \in Users /\ ideal[call[q].key[2]] = Nil
        BY <2>5, <4>1 DEF BurstInv, Unclaimed, UserOf, CallOK, CacheKeys
      <4>3. QED
        BY <1>1, <1>5, <4>1, <4>2
    <3>3. QED
      BY <3>1, <3>2
  <2>6. Unclaimed'
    BY <2>5 DEF Unclaimed, UserOf
  <2>7. QED
    BY <2>4, <2>6 DEF BurstInv
<1>6. QED
  BY <1>2, <1>4, <1>5, UpdateFacts

LEMMA BurstInvalidate ==
  ASSUME TypeInv, TypeInv', BurstInv, NEW a \in Admins, invalidateUserCache(a)
  PROVE  BurstInv'
<1>1. UNCHANGED <<db, limiter, bucket, ideal>> /\ call[a].pc = "invalidate"
  BY InvalidateFacts
<1>2. PICK c \in Calls :
        /\ c.pc \in {"idle", "drop"}
        /\ c.pc = "drop" => c.op = call[a].op /\ c.key = call[a].key
        /\ call' = [p \in Processes |->
             IF p = a THEN c
             ELSE IF call[p].pc = "store" /\ UserOf(p) = UserOf(a)
             THEN [call[p] EXCEPT !.raced = TRUE] ELSE call[p]]
  BY InvalidateFacts
<1>3. ASSUME NEW p \in Processes, p # a, call'[p].pc \in {"allow", "invalidate", "drop"}
      PROVE  call'[p] = call[p]
  <2>1. call[p] \in Calls
    BY TypeFacts
  <2>2. CASE call[p].pc = "store" /\ UserOf(p) = UserOf(a)
    <3>1. call'[p] = [call[p] EXCEPT !.raced = TRUE]
      BY <1>2, <1>3, <2>2
    <3>2. call'[p].pc = "store"
      BY <2>1, <2>2, <3>1 DEF Calls
    <3>3. QED
      BY <1>3, <3>2
  <2>3. CASE ~(call[p].pc = "store" /\ UserOf(p) = UserOf(a))
    BY <1>2, <1>3, <2>3
  <2>4. QED
    BY <2>2, <2>3
<1>4. a \in Processes /\ call'[a] = c
  BY <1>2 DEF Processes
<1>5. ASSUME NEW v \in Users, ideal'[v] # Nil PROVE Sound(v)'
  <2>1. \A r \in Requests : call'[r].pc = "allow" => call'[r] = call[r]
    BY <1>3, UserAssumption DEF Processes
  <2>2. ideal[v] # Nil => Sound(v)
    BY DEF BurstInv
  <2>3. limiter[v] # Nil =>
          /\ bucket'[limiter[v]].limit = bucket[limiter[v]].limit
          /\ bucket'[limiter[v]].tokens <= bucket[limiter[v]].tokens
          /\ bucket'[limiter[v]].idle # 0 => bucket[limiter[v]].idle # 0
    BY <1>1, SameBuckets
  <2>4. ideal'[v] = ideal[v] /\ db'[v].limit = db[v].limit /\ limiter'[v] = limiter[v]
    BY <1>1
  <2>5. \A r \in Requests : call'[r].pc = "allow" /\ call'[r].key[2] = v =>
          call[r].pc = "allow" /\ call[r].key[2] = v /\ call'[r].bucket = call[r].bucket
    BY <2>1
  <2>6. QED
    BY <1>5, <2>2, <2>3, <2>4, <2>5, SoundKept
<1>6. ASSUME NEW q \in Admins, call'[q].pc \in {"invalidate", "drop"}
      PROVE  /\ call[q].pc \in {"invalidate", "drop"}
             /\ call'[q].op = call[q].op /\ call'[q].key = call[q].key
  <2>1. CASE q = a
    BY <1>1, <1>2, <1>4, <1>6, <2>1
  <2>2. CASE q # a
    <3>1. call'[q] = call[q]
      BY <1>3, <1>6, <2>2 DEF Processes
    <3>2. QED
      BY <1>6, <3>1
  <2>3. QED
    BY <2>1, <2>2
<1>7. Unclaimed'
  BY <1>1, <1>6, UnclaimedKept DEF BurstInv
<1>8. QED
  BY <1>5, <1>7 DEF BurstInv

LEMMA BurstDrop ==
  ASSUME TypeInv, TypeInv', BurstInv, NEW a \in Admins, dropUserLimiter(a)
  PROVE  BurstInv'
<1>1. /\ call \in [Processes -> Calls] /\ limiter \in [Users -> Buckets \cup {Nil}]
      /\ bucket \in [Buckets -> Objects] /\ a \in Processes
  BY TypeFacts DEF Processes
<1>2. PICK u \in Users : u = UserOf(a)
  BY DropFacts
<1>3. /\ call[a].pc = "drop" /\ call[a].op \in Changing /\ limiter' = [limiter EXCEPT ![u] = Nil]
      /\ Return(a) /\ UNCHANGED <<db, ideal>>
      /\ bucket' = [x \in Buckets |-> IF x \in Referenced' THEN bucket[x] ELSE NoBucket]
  BY <1>2, DropFacts
<1>4. ideal[u] = Nil
  BY <1>2, <1>3 DEF BurstInv, Unclaimed
<1>5. call'[a] = NoCall /\ \A q \in Processes : q # a => call'[q] = call[q]
  BY <1>1, <1>3 DEF Return
<1>6. ASSUME NEW v \in Users, ideal'[v] # Nil PROVE Sound(v)'
  <2>1. v # u /\ limiter'[v] = limiter[v]
    BY <1>1, <1>3, <1>4, <1>6
  <2>2. limiter[v] # Nil =>
          /\ bucket'[limiter[v]].limit = bucket[limiter[v]].limit
          /\ bucket'[limiter[v]].tokens <= bucket[limiter[v]].tokens
          /\ bucket'[limiter[v]].idle # 0 => bucket[limiter[v]].idle # 0
    <3> SUFFICES ASSUME limiter[v] # Nil
                 PROVE  /\ bucket'[limiter[v]] = bucket[limiter[v]]
                        /\ bucket[limiter[v]].tokens <= bucket[limiter[v]].tokens
      OBVIOUS
    <3>1. limiter[v] \in Buckets
      BY <1>1
    <3>2. limiter[v] \in Referenced'
      BY <2>1 DEF Referenced
    <3>3. bucket[limiter[v]].tokens \in Nat
      BY <1>1, <3>1 DEF Objects
    <3>4. QED
      BY <1>3, <3>1, <3>2, <3>3
  <2>3. \A r \in Requests : call'[r].pc = "allow" /\ call'[r].key[2] = v =>
          call[r].pc = "allow" /\ call[r].key[2] = v /\ call'[r].bucket = call[r].bucket
    BY <1>5, IdleCall DEF Processes
  <2>4. ideal[v] # Nil => Sound(v)
    BY DEF BurstInv
  <2>5. ideal'[v] = ideal[v] /\ db'[v].limit = db[v].limit
    BY <1>3
  <2>6. QED
    BY <1>6, <2>1, <2>2, <2>3, <2>4, <2>5, SoundKept
<1>7. Unclaimed'
  <2>1. \A q \in Admins : call'[q].pc \in {"invalidate", "drop"} => call'[q] = call[q]
    BY <1>5, IdleCall DEF Processes
  <2>2. QED
    BY <1>3, <2>1, UnclaimedKept DEF BurstInv
<1>8. QED
  BY <1>6, <1>7 DEF BurstInv

LEMMA BurstCreateUser ==
  ASSUME TypeInv, TypeInv', BurstInv, NEW u \in Users, createUser(u)
  PROVE  BurstInv'
<1>1. /\ UNCHANGED <<limiter, bucket, ideal, call>> /\ db \in [Users -> Rows]
      /\ db' = [db EXCEPT ![u].status = "disabled"]
  BY TypeFacts DEF createUser, limiterVars
<1>2. ASSUME NEW v \in Users PROVE db'[v].limit = db[v].limit
  <2>1. db[v] \in Rows
    BY <1>1
  <2>2. db'[v] = IF v = u THEN [db[v] EXCEPT !.status = "disabled"] ELSE db[v]
    BY <1>1
  <2>3. QED
    BY <2>1, <2>2 DEF Rows
<1>3. ASSUME NEW v \in Users, ideal'[v] # Nil PROVE Sound(v)'
  <2>1. limiter[v] # Nil =>
          /\ bucket'[limiter[v]].limit = bucket[limiter[v]].limit
          /\ bucket'[limiter[v]].tokens <= bucket[limiter[v]].tokens
          /\ bucket'[limiter[v]].idle # 0 => bucket[limiter[v]].idle # 0
    BY <1>1, SameBuckets
  <2>2. ideal[v] # Nil => Sound(v)
    BY DEF BurstInv
  <2>3. QED
    BY <1>1, <1>2, <1>3, <2>1, <2>2, SoundKept
<1>4. Unclaimed'
  BY <1>1, UnclaimedKept DEF BurstInv
<1>5. QED
  BY <1>3, <1>4 DEF BurstInv

LEMMA BurstReset ==
  ASSUME TypeInv, TypeInv', BurstInv, resetAllLimiters
  PROVE  BurstInv'
<1>1. call' = call /\ \A u \in Users : ideal'[u] = Nil
  BY DEF resetAllLimiters
<1>2. Unclaimed'
  BY <1>1, UnclaimedKept DEF BurstInv
<1>3. QED
  BY <1>1, <1>2 DEF BurstInv

\* A swept bucket was full and nobody's.
LEMMA BurstSweep ==
  ASSUME TypeInv, TypeInv', BurstInv, sweepIdleLimiters
  PROVE  BurstInv'
<1>1. /\ UNCHANGED <<db, ideal, call>>
      /\ limiter' = [u \in Users |->
           IF limiter[u] # Nil /\ bucket[limiter[u]].idle >= IdleEvictAfter THEN Nil ELSE limiter[u]]
      /\ bucket' = [x \in Buckets |-> IF x \in Referenced' THEN bucket[x] ELSE NoBucket]
  BY DEF sweepIdleLimiters, userVars, Keep
<1>2. limiter \in [Users -> Buckets \cup {Nil}] /\ bucket \in [Buckets -> Objects]
  BY TypeFacts
<1>3. ASSUME NEW v \in Users, ideal'[v] # Nil PROVE Sound(v)'
  <2>1. ideal[v] # Nil /\ Sound(v) /\ ideal'[v] = ideal[v] /\ db'[v].limit = db[v].limit
    BY <1>1, <1>3 DEF BurstInv
  <2>2. CASE limiter[v] # Nil /\ bucket[limiter[v]].idle >= IdleEvictAfter
    <3>1. limiter'[v] = Nil
      BY <1>1, <2>2
    <3>2. bucket[limiter[v]].idle # 0
      <4>1. limiter[v] \in Buckets
        BY <1>2, <2>2
      <4>2. bucket[limiter[v]].idle \in Nat /\ IdleEvictAfter \in Nat \ {0}
        BY <1>2, <4>1, UserAssumption DEF Objects
      <4>3. QED
        BY <2>2, <4>2
    <3>3. ideal[v] = db[v].limit /\ ~Holding(v) /\ ideal[v] \in Nat
      BY <2>1, <2>2, <3>2 DEF Sound
    <3>4. ~Holding(v)'
      BY <1>1, <3>3 DEF Holding, UserOf
    <3>5. QED
      BY <2>1, <3>1, <3>3, <3>4 DEF Sound
  <2>3. CASE ~(limiter[v] # Nil /\ bucket[limiter[v]].idle >= IdleEvictAfter)
    <3>1. limiter'[v] = limiter[v]
      BY <1>1, <2>3
    <3>2. limiter[v] # Nil =>
            /\ bucket'[limiter[v]].limit = bucket[limiter[v]].limit
            /\ bucket'[limiter[v]].tokens <= bucket[limiter[v]].tokens
            /\ bucket'[limiter[v]].idle # 0 => bucket[limiter[v]].idle # 0
      <4> SUFFICES ASSUME limiter[v] # Nil
                   PROVE  /\ bucket'[limiter[v]] = bucket[limiter[v]]
                          /\ bucket[limiter[v]].tokens <= bucket[limiter[v]].tokens
        OBVIOUS
      <4>1. limiter[v] \in Buckets
        BY <1>2
      <4>2. limiter[v] \in Referenced'
        BY <3>1 DEF Referenced
      <4>3. bucket[limiter[v]].tokens \in Nat
        BY <1>2, <4>1 DEF Objects
      <4>4. QED
        BY <1>1, <4>1, <4>2, <4>3
    <3>3. \A r \in Requests : call'[r].pc = "allow" /\ call'[r].key[2] = v =>
            call[r].pc = "allow" /\ call[r].key[2] = v /\ call'[r].bucket = call[r].bucket
      BY <1>1
    <3>4. QED
      BY <1>3, <2>1, <3>1, <3>2, <3>3, SoundKept
  <2>4. QED
    BY <2>2, <2>3
<1>4. Unclaimed'
  BY <1>1, UnclaimedKept DEF BurstInv
<1>5. QED
  BY <1>3, <1>4 DEF BurstInv

\* The ideal bucket and the registered one of the same limit refill together.
LEMMA BurstRefill ==
  ASSUME TypeInv, TypeInv', BurstInv, NEW l \in Limits \cup {DefaultRL}, Refill(l)
  PROVE  BurstInv'
<1>1. /\ UNCHANGED <<db, limiter, call>>
      /\ bucket' = [b \in Buckets |->
           IF bucket[b].limit = l
             THEN [bucket[b] EXCEPT !.tokens = Lower(l, @ + 1)] ELSE bucket[b]]
      /\ ideal' = [u \in Users |->
           IF ideal[u] # Nil /\ db[u].limit = l THEN Lower(l, ideal[u] + 1) ELSE ideal[u]]
  BY DEF Refill, userVars
<1>2. l \in Nat
  BY UserAssumption
<1>3. ASSUME NEW b \in Buckets
      PROVE  /\ bucket'[b].limit = bucket[b].limit /\ bucket'[b].idle = bucket[b].idle
             /\ bucket'[b].tokens = IF bucket[b].limit = l
                                      THEN Lower(l, bucket[b].tokens + 1) ELSE bucket[b].tokens
  <2>1. PICK o \in Objects : o = bucket[b] /\ o.tokens <= o.limit
    BY TypeFacts
  <2>2. bucket'[b] = IF o.limit = l THEN [o EXCEPT !.tokens = Lower(l, @ + 1)] ELSE o
    BY <1>1, <2>1
  <2>3. QED
    BY <1>2, <2>1, <2>2, RefillObject
<1>4. ASSUME NEW v \in Users, ideal'[v] # Nil PROVE Sound(v)'
  <2>1. ideal[v] # Nil /\ Sound(v) /\ ideal[v] \in Nat
    <3>1. ideal[v] # Nil
      BY <1>1, <1>4
    <3>2. QED
      BY <3>1 DEF BurstInv, Sound
  <2>2. ideal'[v] = IF db[v].limit = l THEN Lower(l, ideal[v] + 1) ELSE ideal[v]
    BY <1>1, <2>1
  <2>3. /\ db'[v].limit = db[v].limit /\ limiter'[v] = limiter[v] /\ ideal'[v] \in Nat
        /\ Holding(v)' <=> Holding(v)
    BY <1>1, <1>2, <2>1, <2>2 DEF Lower, Holding, UserOf
  <2>4. ideal[v] = db[v].limit => ideal'[v] = db'[v].limit
    BY <1>2, <2>1, <2>2, <2>3 DEF Lower
  <2>5. CASE limiter[v] # Nil /\ bucket[limiter[v]].limit = db[v].limit
    <3>1. /\ bucket[limiter[v]].tokens <= ideal[v]
          /\ bucket[limiter[v]].idle # 0 => ideal[v] = db[v].limit /\ ~Holding(v)
          /\ \A r \in Requests : call[r].pc = "allow" /\ UserOf(r) = v => call[r].bucket = limiter[v]
      BY <2>1, <2>5 DEF Sound
    <3>2. limiter[v] \in Buckets
      BY <2>5, TypeFacts
    <3>3. bucket[limiter[v]].tokens \in Nat
      BY <3>2, TypeFacts DEF Objects
    <3>4. /\ bucket'[limiter[v]].limit = db[v].limit
          /\ bucket'[limiter[v]].idle = bucket[limiter[v]].idle
          /\ bucket'[limiter[v]].tokens = IF db[v].limit = l
               THEN Lower(l, bucket[limiter[v]].tokens + 1) ELSE bucket[limiter[v]].tokens
      BY <1>3, <2>5, <3>2
    <3>5. bucket'[limiter[v]].tokens <= ideal'[v]
      BY <1>2, <2>1, <2>2, <3>1, <3>3, <3>4 DEF Lower
    <3>6. \A r \in Requests : call'[r].pc = "allow" /\ call'[r].key[2] = v => call'[r].bucket = limiter'[v]
      BY <1>1, <3>1 DEF UserOf
    <3>7. bucket'[limiter'[v]].idle # 0 => ideal'[v] = db'[v].limit /\ ~Holding(v)'
      BY <2>3, <2>4, <3>1, <3>4
    <3>8. /\ limiter'[v] # Nil /\ bucket'[limiter'[v]].limit = db'[v].limit
          /\ bucket'[limiter'[v]].tokens <= ideal'[v]
      BY <2>3, <2>5, <3>4, <3>5
    <3>9. QED
      BY <2>3, <3>6, <3>7, <3>8 DEF Sound, UserOf
  <2>6. CASE ~(limiter[v] # Nil /\ bucket[limiter[v]].limit = db[v].limit)
    <3>1. ideal[v] = db[v].limit /\ ~Holding(v)
      BY <2>1, <2>6 DEF Sound
    <3>2. ideal'[v] = db'[v].limit /\ ~Holding(v)'
      BY <2>3, <2>4, <3>1
    <3>3. ~(limiter'[v] # Nil /\ bucket'[limiter'[v]].limit = db'[v].limit)
      BY <1>3, <2>3, <2>6, TypeFacts
    <3>4. QED
      BY <2>3, <3>2, <3>3 DEF Sound
  <2>7. QED
    BY <2>5, <2>6
<1>5. Unclaimed'
  BY <1>1, UnclaimedKept DEF BurstInv
<1>6. QED
  BY <1>4, <1>5 DEF BurstInv

\* After a minute without a holder every bucket is full, the ideal one too.
LEMMA BurstTick ==
  ASSUME TypeInv, TypeInv', BurstInv, Tick
  PROVE  BurstInv'
<1>1. /\ UNCHANGED <<db, limiter, call>>
      /\ bucket' = [b \in Buckets |->
           [bucket[b] EXCEPT !.tokens = bucket[b].limit,
                             !.idle = IF bucket[b].limit = 0 THEN 0 ELSE Lower(IdleEvictAfter, @ + 1)]]
      /\ ideal' = [u \in Users |->
           IF Quiet(u) \/ (ideal[u] # Nil /\ ~Holding(u)) THEN db[u].limit ELSE Nil]
  BY DEF Tick
<1>2. ASSUME NEW b \in Buckets
      PROVE  bucket'[b].tokens = bucket'[b].limit
  <2>1. PICK o \in Objects : o = bucket[b]
    BY TypeFacts
  <2>2. bucket'[b] = [o EXCEPT !.tokens = o.limit,
                               !.idle = IF o.limit = 0 THEN 0 ELSE Lower(IdleEvictAfter, @ + 1)]
    BY <1>1, <2>1
  <2>3. QED
    BY <2>2, TickObject, ZenonT(40)
<1>3. ASSUME NEW v \in Users, ideal'[v] # Nil PROVE Sound(v)'
  <2>1. Quiet(v) \/ (ideal[v] # Nil /\ ~Holding(v))
    BY <1>1, <1>3
  <2>2. ~Holding(v)
    BY <2>1 DEF Quiet
  <2>3. ~Holding(v)' /\ db'[v].limit = db[v].limit /\ limiter'[v] = limiter[v]
    BY <1>1, <2>2 DEF Holding, UserOf
  <2>4. db[v].limit \in Nat
    BY TypeFacts, RowLimit
  <2>5. ideal'[v] = db'[v].limit /\ ideal'[v] \in Nat
    BY <1>1, <2>1, <2>3, <2>4
  <2>6. CASE limiter'[v] # Nil /\ bucket'[limiter'[v]].limit = db'[v].limit
    <3>1. limiter'[v] \in Buckets
      BY <2>3, <2>6, TypeFacts
    <3>2. bucket'[limiter'[v]].tokens = ideal'[v]
      BY <1>2, <2>5, <2>6, <3>1
    <3>3. \A r \in Requests : ~(call'[r].pc = "allow" /\ call'[r].key[2] = v)
      BY <1>1, <2>2 DEF Holding, UserOf
    <3>4. bucket'[limiter'[v]].tokens <= ideal'[v]
      BY <2>5, <3>2
    <3>5. QED
      BY <2>3, <2>5, <2>6, <3>3, <3>4 DEF Sound, UserOf
  <2>7. CASE ~(limiter'[v] # Nil /\ bucket'[limiter'[v]].limit = db'[v].limit)
    BY <2>3, <2>5, <2>7 DEF Sound
  <2>8. QED
    BY <2>6, <2>7
<1>4. ASSUME NEW a \in Admins, call'[a].pc \in {"invalidate", "drop"}, call'[a].op \in Changing
      PROVE  ideal'[call'[a].key[2]] = Nil
  <2>1. call'[a] = call[a] /\ a \in Processes /\ a \notin Requests /\ CallOK(call[a])
    BY <1>1, TypeFacts, UserAssumption DEF Processes
  <2>2. PICK u \in Users : u = call[a].key[2]
    BY <1>4, <2>1 DEF CallOK, CacheKeys
  <2>3. ideal[u] = Nil
    BY <1>4, <2>1, <2>2 DEF BurstInv, Unclaimed, UserOf
  <2>4. ~Quiet(u)
    BY <1>4, <2>1, <2>2 DEF Quiet, UserOf
  <2>5. QED
    BY <1>1, <2>1, <2>2, <2>3, <2>4
<1>5. Unclaimed'
  BY <1>4 DEF Unclaimed, UserOf
<1>6. QED
  BY <1>3, <1>5 DEF BurstInv

LEMMA BurstInit == Init => BurstInv
<1> SUFFICES ASSUME Init PROVE BurstInv
  OBVIOUS
<1>1. \A p \in Processes : call[p].pc = "idle"
  BY IdleCall DEF Init
<1>2. ASSUME NEW u \in Users PROVE Sound(u)
  <2>1. ideal[u] = db[u].limit /\ limiter[u] = Nil /\ db[u] \in Rows
    BY DEF Init
  <2>2. ideal[u] \in Nat
    BY <2>1, RowLimit
  <2>3. ~Holding(u)
    BY <1>1 DEF Holding, Processes
  <2>4. QED
    BY <2>1, <2>2, <2>3 DEF Sound
<1>3. Unclaimed
  BY <1>1 DEF Unclaimed, Processes
<1>4. QED
  BY <1>2, <1>3 DEF BurstInv

LEMMA BurstStep == TypeInv /\ TypeInv' /\ BurstInv /\ [Next]_vars => BurstInv'
<1> SUFFICES ASSUME TypeInv, TypeInv', BurstInv, [Next]_vars PROVE BurstInv'
  OBVIOUS
<1>1. CASE UNCHANGED vars
  <2>1. UNCHANGED <<db, call, limiter, bucket, ideal>>
    BY <1>1 DEF vars, userVars, limiterVars
  <2>2. ASSUME NEW v \in Users, ideal'[v] # Nil PROVE Sound(v)'
    <3>1. limiter[v] # Nil =>
            /\ bucket'[limiter[v]].limit = bucket[limiter[v]].limit
            /\ bucket'[limiter[v]].tokens <= bucket[limiter[v]].tokens
            /\ bucket'[limiter[v]].idle # 0 => bucket[limiter[v]].idle # 0
      BY <2>1, SameBuckets
    <3>2. ideal[v] # Nil => Sound(v)
      BY DEF BurstInv
    <3>3. QED
      BY <2>1, <2>2, <3>1, <3>2, SoundKept
  <2>3. Unclaimed'
    BY <2>1, UnclaimedKept DEF BurstInv
  <2>4. QED
    BY <2>2, <2>3 DEF BurstInv
<1>2. ASSUME NEW r \in Requests, RequestStep(r) PROVE BurstInv'
  <2>1. r \in Processes
    BY DEF Processes
  <2>2. QED
    BY <1>2, <2>1, BurstReadRow, BurstUserCacheSet, BurstFetchLimiter, BurstAllow
       DEF RequestStep, Lookup
<1>3. ASSUME NEW a \in Admins, AdminStep(a) PROVE BurstInv'
  <2>1. a \in Processes
    BY DEF Processes
  <2>2. QED
    BY <1>3, <2>1, BurstReadRow, BurstUserCacheSet, BurstUpdateRow, BurstInvalidate, BurstDrop
       DEF AdminStep, Lookup
<1>4. QED
  BY <1>1, <1>2, <1>3, BurstBeginRequest, BurstBeginEdit, BurstCreateUser, BurstRefill,
     BurstReset, BurstSweep, BurstTick DEF Next

\* isAllowed (ratelimit.go) grants no more than one bucket of the limit would, over
\* replaced and swept buckets and ones used outside the registry's lock, while
\* the limit was not changed nor the limiters reset within the minute.
THEOREM OneBucketsWorth == Spec => []BurstBounded
<1>1. BurstInv => BurstBounded
  BY DEF BurstInv, BurstBounded, Sound
<1>2. QED
  BY <1>1, TypeHolds, BurstInit, BurstStep, PTL DEF Spec
=============================================================================
