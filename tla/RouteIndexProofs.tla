-------------------------- MODULE RouteIndexProofs --------------------------
(***************************************************************************)
(* Theorems about model-aware routing, for every finite set of engines and *)
(* admins, any builds and requests, and all bounds.                        *)
(*                                                                         *)
(* A build is followed from the generation it records to the verdicts that *)
(* rest on it.  BuildInv says what its goroutines have left in the index,  *)
(* FreshInv that an index which may still be published shows nothing from  *)
(* before the last invalidation, and OwedInv carries that promise to the   *)
(* requests which hold the index after it was superseded.                  *)
(***************************************************************************)
EXTENDS RouteIndex, FiniteSetTheorems, RecursionFacts, TLAPS

\* Admins whose change has not reached the generation yet.
Settling == {a \in Admins : admin[a] \in {"changed", "dropped"}}

\* Every invalidation belongs to a change, so the generation keeps its bound.
\* What is published was built.
TypeInv ==
  /\ TypeOK
  /\ routeIndexPtr # Nil => routeIndexPtr.build \in Builds
  /\ routeGen + Cardinality(Settling) <= changes
  /\ \A k \in Builds : build[k].gen <= routeGen

IdsOf(k) == {e \in Engines : \E v \in build[k].saw[e] : Holds(e, v)}

\* e was moved to another server since s was seen, or s is a list of the past.
Seen(e, s) ==
  /\ s \in Probes!Sightings /\ s.via <= adapter[e]
  /\ s.version <= upstream[e][s.via]

\* An id that was there when the ids were sorted follows lower ones only.
Ordered(ids, late) ==
  \A i, j \in DOMAIN ids : i < j /\ ids[j] \notin late => ids[i] < ids[j]

\* What is in the index of a build, and who may still add to it.
BuildShape(k) ==
  /\ ToSet(build[k].byModel) = IdsOf(k)
  /\ \A e \in Engines :
       /\ \A s \in build[k].saw[e] : Seen(e, s)
       /\ build[k].pc \in {"free", "gen"} => build[k].saw[e] = {}
       /\ ask[<<k, e>>] # Probes!Idle =>
            /\ build[k].pc \in {"probing", "ready"}
            /\ e \in build[k].asked /\ build[k].saw[e] = {}
  /\ build[k].pc = "ready" => Ordered(build[k].byModel, build[k].late)
  /\ build[k].pc # "ready" => build[k].late = {}

\* Whoever can read an index refers to a build that exists.
Referred ==
  /\ routeIndexPtr # Nil => build[routeIndexPtr.build].pc = "ready"
  /\ \A r \in Requests :
       /\ request[r].pc \in {"look", "building"} =>
            request[r].idx.build \in Builds /\ build[request[r].idx.build].pc # "free"
       /\ request[r].pc = "look" => build[request[r].idx.build].pc = "ready"

BuildInv == (\A k \in Builds : BuildShape(k)) /\ Referred

\* No version of e in f is higher than that in g.
Before(f, g, e) == \A a \in Probes!Adapters : f[e][a] <= g[e][a]

\* The index of k shows, and will show, nothing from before the last settling.
UpToDate(k) ==
  \A e \in settled.engines :
    /\ e \in build[k].asked
    /\ \A s \in build[k].saw[e] :
         settled.oldest[e] <= s.via /\ settled.lists[e][s.via] <= s.version
    /\ ask[<<k, e>>] # Probes!Idle =>
         \A a \in Probes!Adapters : settled.lists[e][a] <= ask[<<k, e>>].since[a]

\* The index of k is published as fresh, or will be unless something changes.
Publishable(k) ==
  \/ build[k].pc = "probing" /\ build[k].gen = routeGen
  \/ routeIndexPtr # Nil /\ ~Stale(routeIndexPtr) /\ routeIndexPtr.build = k

\* What was covered by an invalidation is in the past of the probe cache.
Past(covered, e) ==
  Before(covered.lists, floor, e) /\ covered.oldest[e] <= oldest[e]

FreshInv ==
  /\ settled.engines \subseteq registered /\ dropped.engines \subseteq registered
  /\ \A e \in Engines :
       /\ Past(settled, e) /\ Past(dropped, e)
       /\ Before(floor, upstream, e) /\ oldest[e] <= adapter[e]
  /\ \A k \in Builds : Publishable(k) => UpToDate(k)

\* The index of k was asked of e since e's list last changed.
Answerable(k, e) ==
  build[k].pc \in {"probing", "ready"} =>
    /\ e \in build[k].asked
    /\ build[k].saw[e] \subseteq {Current(upstream, e)}
    /\ ask[<<k, e>>] # Probes!Idle =>
         upstream[e][adapter[e]] <= ask[<<k, e>>].since[adapter[e]]

\* No answer about e, now or later, is older than its server's list.
Settled(e) ==
  /\ oldest[e] = adapter[e]
  /\ floor[e][adapter[e]] = upstream[e][adapter[e]]

\* What a request may count on still holds when it takes its verdict.
OwedInv ==
  \A r \in Requests : \A e \in request[r].owed :
    /\ e \in registered
    /\ Holds(e, Current(upstream, e))
    /\ Settled(e)
    /\ request[r].pc = "building" \/ (request[r].pc = "look" /\ ~Stale(request[r].idx))
         => Answerable(request[r].idx.build, e)

RouteInv == BuildInv /\ FreshInv /\ OwedInv

-----------------------------------------------------------------------------
(* The sort.                                                               *)

\* Every finite set of naturals has an increasing enumeration: the least
\* element first, then one of the rest.
LEMMA EnumerationExists ==
  ASSUME NEW ids \in SUBSET Nat, IsFiniteSet(ids)
  PROVE  \E s \in [1 .. Cardinality(ids) -> ids] : Enumerates(s, ids)
<1> DEFINE T == {n \in Nat : \A S \in SUBSET Nat :
                   IsFiniteSet(S) /\ Cardinality(S) = n =>
                     \E s \in [1 .. n -> S] : Enumerates(s, S)}
<1>1. 0 \in T
  <2> SUFFICES ASSUME NEW S \in SUBSET Nat, IsFiniteSet(S), Cardinality(S) = 0
               PROVE  \E s \in [1 .. 0 -> S] : Enumerates(s, S)
    OBVIOUS
  <2>1. S = {}
    BY FS_EmptySet
  <2> DEFINE s == [i \in 1 .. 0 |-> 0]
  <2>2. s \in [1 .. 0 -> S]
    OBVIOUS
  <2>3. Enumerates(s, S)
    BY <2>1 DEF Enumerates, ToSet
  <2>4. QED
    BY <2>2, <2>3
<1>2. ASSUME NEW n \in Nat, n \in T PROVE n + 1 \in T
  <2> SUFFICES ASSUME NEW S \in SUBSET Nat, IsFiniteSet(S), Cardinality(S) = n + 1
               PROVE  \E s \in [1 .. n + 1 -> S] : Enumerates(s, S)
    OBVIOUS
  <2>1. S # {}
    BY FS_EmptySet
  <2>2. PICK x \in S : \A y \in S : x <= y
    BY <2>1, LeastElement
  <2>3. IsFiniteSet(S \ {x}) /\ Cardinality(S \ {x}) = n
    <3>1. IsFiniteSet(S \ {x}) /\ Cardinality(S \ {x}) = Cardinality(S) - 1
      BY FS_RemoveElement
    <3>2. QED
      BY <3>1
  <2>4. PICK s \in [1 .. n -> S \ {x}] : Enumerates(s, S \ {x})
    BY <1>2, <2>3
  <2> DEFINE t == [i \in 1 .. n + 1 |-> IF i = 1 THEN x ELSE s[i - 1]]
  <2>5. t \in [1 .. n + 1 -> S]
    <3>1. \A i \in 1 .. n + 1 : i # 1 => i - 1 \in 1 .. n
      OBVIOUS
    <3>2. QED
      BY <2>4, <3>1
  <2>6. t[1] = x /\ DOMAIN t = 1 .. n + 1
    OBVIOUS
  <2>7. \A i \in 2 .. n + 1 : i - 1 \in 1 .. n /\ t[i] = s[i - 1]
    OBVIOUS
  <2> HIDE DEF t
  <2>8. DOMAIN s = 1 .. n
    BY <2>4
  <2>9. \A i, j \in 1 .. n + 1 : i < j => t[i] < t[j]
    <3> SUFFICES ASSUME NEW i \in 1 .. n + 1, NEW j \in 1 .. n + 1, i < j
                 PROVE  t[i] < t[j]
      OBVIOUS
    <3>1. j - 1 \in 1 .. n /\ t[j] = s[j - 1]
      BY <2>7
    <3>2. CASE i = 1
      <4>1. s[j - 1] \in S /\ s[j - 1] # x
        BY <2>4, <3>1
      <4>2. x \in Nat /\ s[j - 1] \in Nat /\ x <= s[j - 1]
        BY <2>2, <4>1
      <4>3. t[i] = x /\ t[j] = s[j - 1]
        BY <2>6, <3>1, <3>2
      <4>4. QED
        BY <4>1, <4>2, <4>3
    <3>3. CASE i # 1
      <4>1. i - 1 \in 1 .. n /\ t[i] = s[i - 1] /\ i - 1 < j - 1
        BY <2>7, <3>3
      <4>2. s[i - 1] < s[j - 1]
        BY <2>4, <2>8, <3>1, <4>1 DEF Enumerates
      <4>3. QED
        BY <3>1, <4>1, <4>2
    <3>4. QED
      BY <3>2, <3>3
  <2>10. \A y \in S : \E i \in DOMAIN t : t[i] = y
    <3> SUFFICES ASSUME NEW y \in S, y # x PROVE \E i \in DOMAIN t : t[i] = y
      BY <2>6
    <3>1. PICK i \in 1 .. n : s[i] = y
      BY <2>4, <2>8 DEF Enumerates, ToSet
    <3>2. i + 1 \in 2 .. n + 1 /\ (i + 1) - 1 = i
      OBVIOUS
    <3>3. t[i + 1] = y
      BY <2>7, <3>1, <3>2
    <3>4. QED
      BY <2>6, <3>2, <3>3
  <2>11. ToSet(t) = S
    BY <2>5, <2>6, <2>10, ZenonT(40) DEF ToSet
  <2>12. Enumerates(t, S)
    BY <2>6, <2>9, <2>11 DEF Enumerates
  <2>13. QED
    BY <2>5, <2>12
<1> HIDE DEF T
<1>3. \A n \in Nat : n \in T
  BY <1>1, <1>2, SetInduction
<1>4. Cardinality(ids) \in T
  BY <1>3, FS_CardinalityType
<1>5. QED
  BY <1>4 DEF T

\* What sort.Ints leaves: the same ids, the first-added first.
LEMMA SortedFacts ==
  ASSUME NEW ids \in SUBSET Engines
  PROVE  Sorted(ids) \in Seq(Engines) /\ Enumerates(Sorted(ids), ids)
<1>1. ids \in SUBSET Nat /\ IsFiniteSet(ids)
  BY RouteAssumption, FS_Subset
<1>2. \E s \in [1 .. Cardinality(ids) -> ids] : Enumerates(s, ids)
  BY <1>1, EnumerationExists
<1>3. Sorted(ids) \in [1 .. Cardinality(ids) -> ids] /\ Enumerates(Sorted(ids), ids)
  BY <1>2 DEF Sorted
<1>4. Cardinality(ids) \in Nat
  BY <1>1, FS_CardinalityType
<1>5. QED
  BY <1>3, <1>4
-----------------------------------------------------------------------------
(* Types and bounds.                                                       *)

\* What a probe cache may answer: nothing, or one list, through an adapter that
\* may still be heard of and no older than the floor of the question.
LEMMA AnswerFacts ==
  ASSUME TypeOK, NEW e \in Engines, NEW since \in Probes!Lists,
         NEW data \in Probes!Answers(e, since)
  PROVE  /\ data.status \in BOOLEAN
         /\ \A s \in data.seen :
              /\ s \in Probes!Sightings
              /\ oldest[e] <= s.via /\ s.via <= adapter[e]
              /\ since[s.via] <= s.version /\ s.version <= upstream[e][s.via]
<1>1. CASE data \in {Probes!Down, Probes!Unlisted}
  <2>1. Probes!Down.status = FALSE /\ Probes!Down.seen = {}
    BY DEF Probes!Down
  <2>2. Probes!Unlisted.status = TRUE /\ Probes!Unlisted.seen = {}
    BY DEF Probes!Unlisted
  <2>3. data.status \in BOOLEAN /\ data.seen = {}
    BY <1>1, <2>1, <2>2
  <2>4. QED
    BY <2>3
<1>2. CASE data \notin {Probes!Down, Probes!Unlisted}
  <2>1. PICK s \in [via : oldest[e] .. adapter[e], version : 0 .. MaxVersion] :
          /\ data = Probes!Listed(s.via, s.version)
          /\ since[s.via] <= s.version /\ s.version <= upstream[e][s.via]
    BY <1>2 DEF Probes!Answers
  <2>2. oldest[e] \in Probes!Adapters /\ adapter[e] \in Probes!Adapters
    BY DEF TypeOK, Probes!ServiceTypeOK
  <2>3. /\ s.via \in Probes!Adapters /\ s.version \in Nat
        /\ oldest[e] <= s.via /\ s.via <= adapter[e]
    BY <2>1, <2>2, RouteAssumption DEF Probes!Adapters
  <2>4. data.status = TRUE /\ data.seen = {[via |-> s.via, version |-> s.version]}
    BY <2>1 DEF Probes!Listed
  <2>5. \A t \in data.seen : t \in Probes!Sightings /\ t.via = s.via /\ t.version = s.version
    BY <2>3, <2>4 DEF Probes!Sightings
  <2>6. data.status \in BOOLEAN
    BY <2>4
  <2>7. QED
    BY <2>1, <2>3, <2>5, <2>6
<1>3. QED
  BY <1>1, <1>2

\* Every question and its answer are about a list as it was in the past.
LEMMA ListTypes ==
  ASSUME TypeOK, NEW e \in Engines
  PROVE  /\ adapter[e] \in Probes!Adapters /\ oldest[e] \in Probes!Adapters
         /\ settled.oldest[e] \in Probes!Adapters /\ dropped.oldest[e] \in Probes!Adapters
         /\ Probes!Adapters \subseteq Nat
         /\ \A a \in Probes!Adapters :
              /\ upstream[e][a] \in Nat /\ floor[e][a] \in Nat
              /\ settled.lists[e][a] \in Nat /\ dropped.lists[e][a] \in Nat
         /\ \A k \in Builds : ask[<<k, e>>] \in Probes!Asks
<1> USE DEF TypeOK, Covered, Probes!ServiceTypeOK
<1>1. Probes!Adapters \subseteq Nat
  BY RouteAssumption DEF Probes!Adapters
<1>2. /\ upstream[e] \in Probes!Lists /\ floor[e] \in Probes!Lists
      /\ settled.lists[e] \in Probes!Lists /\ dropped.lists[e] \in Probes!Lists
  OBVIOUS
<1>3. \A a \in Probes!Adapters :
        /\ upstream[e][a] \in Nat /\ floor[e][a] \in Nat
        /\ settled.lists[e][a] \in Nat /\ dropped.lists[e][a] \in Nat
  BY <1>2 DEF Probes!Lists
<1>4. QED
  BY <1>1, <1>3

LEMMA StartedTypes ==
  ASSUME TypeInv, NEW k \in Builds
  PROVE  /\ Started(k) \in [Builds -> BuildRuns]
         /\ \A j \in Builds : Started(k)[j].gen <= routeGen
<1>1. NoBuild \in BuildRuns
  BY RouteAssumption DEF NoBuild, BuildRuns
<1>2. routeGen \in 0 .. MaxChanges
  BY DEF TypeInv, TypeOK
<1>3. [NoBuild EXCEPT !.pc = "gen", !.gen = routeGen] \in BuildRuns
  BY <1>1, <1>2 DEF BuildRuns
<1>4. [NoBuild EXCEPT !.pc = "gen", !.gen = routeGen].gen = routeGen
  BY DEF NoBuild
<1>5. build \in [Builds -> BuildRuns] /\ \A j \in Builds : build[j].gen <= routeGen
  BY DEF TypeInv, TypeOK
<1>6. QED
  BY <1>2, <1>3, <1>4, <1>5 DEF Started

LEMMA RefreshTypes ==
  ASSUME TypeInv, RefreshAsync
  PROVE  /\ build' \in [Builds -> BuildRuns]
         /\ routeRefreshing' \in Builds \cup {Nil}
         /\ \A j \in Builds : build'[j].gen <= routeGen
<1>1. CASE routeRefreshing # Nil
  BY <1>1 DEF RefreshAsync, TypeInv, TypeOK
<1>2. CASE routeRefreshing = Nil
  BY <1>2, StartedTypes DEF RefreshAsync
<1>3. QED
  BY <1>1, <1>2

LEMMA CountTypes ==
  ASSUME TypeInv
  PROVE  /\ IsFiniteSet(Settling) /\ Cardinality(Settling) \in Nat
         /\ \A a \in Settling : Cardinality(Settling) >= 1
<1>1. Settling \in SUBSET Admins
  BY DEF Settling
<1>2. IsFiniteSet(Settling) /\ Cardinality(Settling) \in Nat
  BY <1>1, RouteAssumption, FS_Subset, FS_CardinalityType
<1>3. \A a \in Settling : Cardinality(Settling) # 0
  BY <1>2, FS_EmptySet
<1>4. QED
  BY <1>2, <1>3

\* A change is counted as the handler begins to settle it.
LEMMA BeginCounts ==
  ASSUME TypeInv, NEW a \in Admins, BeginChange(a), routeGen' = routeGen
  PROVE  /\ admin' \in [Admins -> {"idle", "changed", "dropped", "marked"}]
         /\ changes' \in 0 .. MaxChanges
         /\ routeGen' + Cardinality(Settling') <= changes'
<1>1. a \notin Settling
  BY DEF BeginChange, Settling
<1>2. admin \in [Admins -> {"idle", "changed", "dropped", "marked"}]
      /\ changes \in 0 .. MaxChanges /\ routeGen \in 0 .. MaxChanges
      /\ routeGen + Cardinality(Settling) <= changes
  BY DEF TypeInv, TypeOK
<1>3. Settling' = Settling \cup {a}
  BY <1>2 DEF BeginChange, Settling
<1>4. Cardinality(Settling \cup {a}) = Cardinality(Settling) + 1
  BY <1>1, CountTypes, FS_AddElement
<1>5. changes' \in 0 .. MaxChanges /\ changes' = changes + 1
  BY <1>2, RouteAssumption DEF BeginChange
<1>6. Cardinality(Settling) \in Nat
  BY CountTypes
<1>7. routeGen + (Cardinality(Settling) + 1) <= changes + 1
  BY <1>2, <1>6
<1>8. QED
  BY <1>2, <1>3, <1>4, <1>5, <1>7 DEF BeginChange

LEMMA TypeInit == Init => TypeInv
<1> SUFFICES ASSUME Init PROVE TypeInv
  OBVIOUS
<1>1. NoBuild \in BuildRuns /\ NoBuild.gen = 0
  BY RouteAssumption DEF NoBuild, BuildRuns
<1>2. NoRequest \in RequestRuns
  BY DEF NoRequest, RequestRuns, Index, Indexes, Verdicts
<1>3. Probes!ServiceTypeOK
  <2>1. 0 \in Probes!Adapters /\ Probes!Idle \in Probes!Asks
    BY RouteAssumption DEF Probes!Adapters, Probes!Asks
  <2>2. [a \in Probes!Adapters |-> 0] \in Probes!Lists
    BY DEF Probes!Lists
  <2>3. QED
    BY <2>1, <2>2 DEF Init, Probes!ServiceInit, Probes!ServiceTypeOK
<1>4. dropped \in Covered /\ settled \in Covered
  BY <1>3 DEF Init, Covered, Probes!ServiceTypeOK
<1>5. TypeOK
  BY <1>1, <1>2, <1>3, <1>4, RouteAssumption DEF Init, TypeOK
<1>6. Settling = {}
  BY DEF Init, Settling
<1>7. Cardinality(Settling) = 0
  BY <1>6, FS_EmptySet
<1>8. QED
  BY <1>1, <1>5, <1>7 DEF TypeInv, Init
\* Steps that leave the counted variables alone keep the count.
LEMMA CountKept ==
  ASSUME TypeInv, UNCHANGED <<routeGen, changes, admin>>
  PROVE  routeGen' + Cardinality(Settling') <= changes'
<1>1. Settling' = Settling
  BY DEF Settling
<1>2. QED
  BY <1>1 DEF TypeInv

\* Probing: the questions, the answers, and the sorted result.
LEMMA LaunchTypes ==
  ASSUME TypeInv, NEW k \in Builds, LaunchProbes(k)
  PROVE  TypeInv'
<1> USE DEF TypeInv, TypeOK
<1>1. build' \in [Builds -> BuildRuns] /\ \A j \in Builds : build'[j].gen <= routeGen
  <2>1. [build[k] EXCEPT !.pc = "probing", !.asked = registered] \in BuildRuns
    BY ZenonT(40) DEF BuildRuns
  <2>2. build' = [build EXCEPT ![k] =
                    [build[k] EXCEPT !.pc = "probing", !.asked = registered]]
    BY DEF LaunchProbes
  <2>3. \A j \in Builds : build'[j].gen = build[j].gen
    BY <2>2 DEF BuildRuns
  <2>4. QED
    BY <2>1, <2>2, <2>3
<1>2. ask' \in [Builds \X Engines -> Probes!Asks]
  <2>1. \A c \in Builds \X Engines : /\ c[2] \in Engines /\ floor[c[2]] \in Probes!Lists
                                     /\ adapter[c[2]] \in Probes!Adapters
    BY DEF Probes!ServiceTypeOK
  <2>2. \A c \in Builds \X Engines :
          Probes!Pending(c[2], adapter[c[2]], floor[c[2]]) \in Probes!Asks
    BY <2>1 DEF Probes!Pending, Probes!Asks
  <2>3. DOMAIN ask = Builds \X Engines
    BY DEF Probes!ServiceTypeOK
  <2>4. \A c \in Builds \X Engines : ask[c] \in Probes!Asks
    BY DEF Probes!ServiceTypeOK
  <2>5. QED
    BY <2>2, <2>3, <2>4 DEF LaunchProbes
<1>3. Probes!ServiceTypeOK'
  BY <1>2 DEF LaunchProbes, Probes!ServiceTypeOK
<1>4. routeGen' + Cardinality(Settling') <= changes'
  BY CountKept, SMTT(30) DEF LaunchProbes, adminVars, indexVars
<1>5. QED
  BY <1>1, <1>3, <1>4 DEF LaunchProbes, adminVars, indexVars

LEMMA CollectTypes ==
  ASSUME TypeInv, NEW k \in Builds, NEW e \in Engines, CollectProbe(k, e)
  PROVE  TypeInv'
<1> USE DEF TypeInv, TypeOK
<1>1. ask[<<k, e>>].since \in Probes!Lists
  <2>1. ask[<<k, e>>] \in Probes!Asks /\ ask[<<k, e>>].state = "pending"
    BY DEF CollectProbe, Probes!ServiceTypeOK
  <2>2. QED
    BY <2>1 DEF Probes!Asks, Probes!Idle
<1>2. build' \in [Builds -> BuildRuns] /\ \A j \in Builds : build'[j].gen <= routeGen
  <2>1. PICK data \in Probes!Answers(e, ask[<<k, e>>].since) :
          LET holds == \E v \in data.seen : Holds(e, v)
          IN build' = IF ~data.status THEN build ELSE
               [build EXCEPT ![k].probed = TRUE,
                             ![k].saw[e] = data.seen,
                             ![k].byModel = IF holds THEN Append(@, e) ELSE @,
                             ![k].late = IF holds /\ build[k].pc = "ready"
                                           THEN @ \cup {e} ELSE @]
    BY DEF CollectProbe
  <2>2. data.seen \in SUBSET Probes!Sightings
    BY <1>1, AnswerFacts
  <2> DEFINE holds == \E v \in data.seen : Holds(e, v)
             ids == IF holds THEN Append(build[k].byModel, e) ELSE build[k].byModel
             late == IF holds /\ build[k].pc = "ready" THEN build[k].late \cup {e}
                                                       ELSE build[k].late
             new == [build[k] EXCEPT !.probed = TRUE, !.saw[e] = data.seen,
                                     !.byModel = ids, !.late = late]
  <2>3. ids \in Seq(Engines) /\ late \in SUBSET Engines
    <3>1. build[k].byModel \in Seq(Engines) /\ build[k].late \in SUBSET Engines
      BY DEF BuildRuns
    <3>2. QED
      BY <3>1
  <2>4. build' = build \/ build' = [build EXCEPT ![k] = new]
    BY <2>1
  <2> HIDE DEF ids, late, holds
  <2>5. new \in BuildRuns /\ new.gen = build[k].gen
    BY <2>2, <2>3, ZenonT(40) DEF BuildRuns
  <2> HIDE DEF new
  <2>6. QED
    BY <2>4, <2>5
<1>3. ask' \in [Builds \X Engines -> Probes!Asks]
  BY DEF CollectProbe, Probes!ServiceTypeOK, Probes!Asks
<1>4. Probes!ServiceTypeOK'
  BY <1>3 DEF CollectProbe, Probes!ServiceTypeOK
<1>5. routeGen' + Cardinality(Settling') <= changes'
  BY CountKept DEF CollectProbe, adminVars, indexVars
<1>6. QED
  BY <1>2, <1>4, <1>5 DEF CollectProbe, adminVars, indexVars

LEMMA SortTypes ==
  ASSUME TypeInv, NEW k \in Builds, SortIndex(k), storeRouteIndex(k),
         UNCHANGED <<service, adminVars, routeGen, routeRefreshing, request, booting>>
  PROVE  TypeInv'
<1> USE DEF TypeInv, TypeOK
<1>1. build' \in [Builds -> BuildRuns] /\ \A j \in Builds : build'[j].gen <= routeGen
  <2> DEFINE ids == Sorted(ToSet(build[k].byModel))
             new == [build[k] EXCEPT !.pc = "ready", !.gen = 0, !.byModel = ids]
  <2>1. ids \in Seq(Engines)
    <3>1. build[k].byModel \in Seq(Engines)
      BY DEF BuildRuns
    <3>2. ToSet(build[k].byModel) \in SUBSET Engines
      BY <3>1 DEF ToSet
    <3>3. QED
      BY <3>2, SortedFacts
  <2>2. build' = [build EXCEPT ![k] = new]
    BY DEF SortIndex
  <2> HIDE DEF ids
  <2>3. new \in BuildRuns /\ new.gen = 0
    <3>1. build[k] \in BuildRuns /\ 0 \in 0 .. MaxChanges
      BY RouteAssumption
    <3>2. QED
      BY ONLY <2>1, <3>1 DEF BuildRuns
  <2> HIDE DEF new
  <2>4. \A j \in Builds : build'[j] \in BuildRuns /\ build'[j].gen <= routeGen
    BY <2>2, <2>3
  <2>5. QED
    BY <2>2, <2>4
<1>2. routeIndexPtr' \in Indexes \cup {Nil}
      /\ (routeIndexPtr' # Nil => routeIndexPtr'.build \in Builds)
  BY DEF storeRouteIndex, Index, Indexes
<1>3. Probes!ServiceTypeOK'
  BY DEF service, Probes!ServiceTypeOK
<1>4. routeGen' + Cardinality(Settling') <= changes'
  BY CountKept DEF adminVars
<1>5. QED
  BY <1>1, <1>2, <1>3, <1>4 DEF adminVars, service

LEMMA ReclaimTypes ==
  ASSUME TypeInv, NEW k \in Builds, Reclaim(k)
  PROVE  TypeInv'
<1> USE DEF TypeInv, TypeOK
<1>1. NoBuild \in BuildRuns /\ NoBuild.gen = 0
  BY RouteAssumption DEF NoBuild, BuildRuns
<1>2. build' \in [Builds -> BuildRuns] /\ \A j \in Builds : build'[j].gen <= routeGen
  BY <1>1 DEF Reclaim
<1>3. ask' \in [Builds \X Engines -> Probes!Asks]
  <2>1. Probes!Idle \in Probes!Asks
    BY DEF Probes!Asks
  <2>2. DOMAIN ask = Builds \X Engines
        /\ \A c \in Builds \X Engines : ask[c] \in Probes!Asks
    BY DEF Probes!ServiceTypeOK
  <2>3. QED
    BY <2>1, <2>2 DEF Reclaim
<1>4. Probes!ServiceTypeOK'
  BY <1>3 DEF Reclaim, Probes!ServiceTypeOK
<1>5. routeGen' + Cardinality(Settling') <= changes'
  BY CountKept DEF Reclaim, adminVars, indexVars
<1>6. QED
  BY <1>2, <1>4, <1>5 DEF Reclaim, adminVars, indexVars
\* The handlers of admins.
LEMMA ExcuseTypes ==
  ASSUME TypeOK, NEW e, ExcuseEngine(e)
  PROVE  request' \in [Requests -> RequestRuns]
<1>1. \A r \in Requests : request[r] \in RequestRuns
  BY DEF TypeOK
<1>2. \A r \in Requests : [request[r] EXCEPT !.owed = @ \ {e}] \in RequestRuns
  BY <1>1 DEF RequestRuns
<1>3. QED
  BY <1>2 DEF ExcuseEngine

\* A list or an adapter that changes stays within its bounds.
LEMMA ServiceTypes ==
  ASSUME TypeOK, NEW e \in Engines,
         (\E a \in 0 .. adapter[e] : Probes!ChangeList(e, a)) \/ Probes!ReplaceAdapter(e)
  PROVE  Probes!ServiceTypeOK'
<1>1. Probes!ServiceTypeOK
  BY DEF TypeOK
<1>2. CASE \E a \in 0 .. adapter[e] : Probes!ChangeList(e, a)
  <2>1. PICK a \in 0 .. adapter[e] : Probes!ChangeList(e, a)
    BY <1>2
  <2>2. upstream[e] \in [Probes!Adapters -> Nat]
    BY <1>1 DEF Probes!ServiceTypeOK, Probes!Lists
  <2>3. adapter[e] \in 0 .. MaxAdapter
    BY <1>1 DEF Probes!ServiceTypeOK, Probes!Adapters
  <2>4. a \in Probes!Adapters
    BY <2>3, RouteAssumption DEF Probes!Adapters
  <2>5. [upstream[e] EXCEPT ![a] = @ + 1] \in Probes!Lists
    BY <2>2, <2>4 DEF Probes!Lists
  <2>6. upstream' = [upstream EXCEPT ![e] = [upstream[e] EXCEPT ![a] = @ + 1]]
        /\ UNCHANGED <<adapter, floor, oldest, ask>>
    BY <2>1 DEF Probes!ChangeList
  <2>7. QED
    BY <1>1, <2>5, <2>6 DEF Probes!ServiceTypeOK
<1>3. CASE Probes!ReplaceAdapter(e)
  <2>1. adapter[e] + 1 \in Probes!Adapters
    BY <1>1, <1>3, RouteAssumption DEF Probes!ReplaceAdapter, Probes!ServiceTypeOK, Probes!Adapters
  <2>2. adapter' = [adapter EXCEPT ![e] = adapter[e] + 1]
        /\ UNCHANGED <<upstream, floor, oldest, ask>>
    BY <1>3 DEF Probes!ReplaceAdapter
  <2>3. QED
    BY <1>1, <2>1, <2>2 DEF Probes!ServiceTypeOK
<1>4. QED
  BY <1>2, <1>3

\* The changes an admin makes, after which onEnginesChanged follows.
Changes(a) ==
  \/ PullNothing(a)
  \/ \E e \in Engines :
       ChangeModel(a, e) \/ EditEngine(a, e) \/ RemoveEngine(a, e) \/ AddEngine(a, e)

LEMMA ChangeTypes ==
  ASSUME TypeInv, NEW a \in Admins, Changes(a)
  PROVE  TypeInv'
<1> USE DEF Changes
<1>1. BeginChange(a) /\ routeGen' = routeGen
  BY DEF ChangeModel, EditEngine, PullNothing, RemoveEngine, AddEngine, indexVars
<1>2. /\ admin' \in [Admins -> {"idle", "changed", "dropped", "marked"}]
      /\ changes' \in 0 .. MaxChanges
      /\ routeGen' + Cardinality(Settling') <= changes'
  BY <1>1, BeginCounts
<1>3. UNCHANGED <<routeIndexPtr, routeRefreshing, build, booting>>
  BY DEF ChangeModel, EditEngine, PullNothing, RemoveEngine, AddEngine, indexVars
<1>4. Probes!ServiceTypeOK'
  <2>1. Probes!ServiceTypeOK /\ TypeOK
    BY DEF TypeInv, TypeOK
  <2>2. CASE UNCHANGED service
    BY <2>1, <2>2 DEF service, Probes!ServiceTypeOK
  <2>3. CASE ~UNCHANGED service
    BY <2>1, <2>3, ServiceTypes DEF ChangeModel, EditEngine, PullNothing, RemoveEngine, AddEngine
  <2>4. QED
    BY <2>2, <2>3
<1>5. registered' \subseteq Engines
  BY DEF ChangeModel, EditEngine, PullNothing, RemoveEngine, AddEngine, TypeInv, TypeOK
<1>6. request' \in [Requests -> RequestRuns]
  BY ExcuseTypes DEF ChangeModel, EditEngine, PullNothing, RemoveEngine, AddEngine, TypeInv, TypeOK
<1>7. dropped' \in Covered /\ settled' \in Covered
  BY DEF ChangeModel, EditEngine, PullNothing, RemoveEngine, AddEngine, Covered, TypeInv, TypeOK
<1>8. QED
  BY <1>1, <1>2, <1>3, <1>4, <1>5, <1>6, <1>7 DEF TypeInv, TypeOK

LEMMA AdminTypes ==
  ASSUME TypeInv, NEW a \in Admins, AdminStep(a)
  PROVE  TypeInv'
<1> USE DEF TypeInv, TypeOK
<1>1. CASE DropProbes(a)
  <2>1. Settling' = Settling
    BY <1>1 DEF DropProbes, Settling
  <2>2. Probes!ServiceTypeOK'
    BY <1>1 DEF DropProbes, Probes!InvalidateProbes, Probes!ServiceTypeOK
  <2>3. dropped' \in Covered
    BY <1>1, <2>2 DEF DropProbes, Covered, Probes!ServiceTypeOK
  <2>4. QED
    BY <1>1, <2>1, <2>2, <2>3 DEF DropProbes, indexVars
<1>2. CASE invalidateRouteIndex(a)
  <2>1. a \in Settling /\ Settling' = Settling \ {a}
    BY <1>2 DEF invalidateRouteIndex, Settling
  <2>2. Cardinality(Settling \ {a}) = Cardinality(Settling) - 1
    BY <2>1, CountTypes, FS_RemoveElement
  <2>3. Cardinality(Settling) \in Nat /\ Cardinality(Settling) >= 1
    BY <2>1, CountTypes
  <2>4. routeGen' = routeGen + 1 /\ changes' = changes
    BY <1>2 DEF invalidateRouteIndex
  <2>5. routeGen' + Cardinality(Settling') <= changes'
    BY <2>1, <2>2, <2>3, <2>4
  <2>6. routeGen' \in 0 .. MaxChanges
    BY <2>3, <2>4, RouteAssumption
  <2>7. routeIndexPtr' \in Indexes \cup {Nil}
        /\ (routeIndexPtr' # Nil => routeIndexPtr'.build \in Builds)
    <3>1. CASE routeIndexPtr = Nil
      BY <1>2, <3>1 DEF invalidateRouteIndex
    <3>2. CASE routeIndexPtr # Nil
      <4>1. routeIndexPtr \in Indexes /\ routeIndexPtr.build \in Builds
        BY <3>2
      <4>2. Probed(routeIndexPtr) \in BOOLEAN
        BY <4>1 DEF Probed, Indexes, BuildRuns
      <4>3. routeIndexPtr' = [routeIndexPtr EXCEPT !.built = "zero", !.copied = TRUE,
                                !.probed = Probed(routeIndexPtr)]
        BY <1>2, <3>2 DEF invalidateRouteIndex
      <4>4. QED
        BY <4>1, <4>2, <4>3 DEF Indexes
    <3>3. QED
      BY <3>1, <3>2
  <2>8. \A k \in Builds : build[k].gen <= routeGen'
    BY <2>4 DEF BuildRuns
  <2>9. Probes!ServiceTypeOK'
    BY <1>2 DEF invalidateRouteIndex, service, Probes!ServiceTypeOK
  <2>10. QED
    BY <1>2, <2>5, <2>6, <2>7, <2>8, <2>9 DEF invalidateRouteIndex
<1>3. CASE Kick(a)
  <2>1. Settling' = Settling
    BY <1>3 DEF Kick, Settling
  <2>2. Probes!ServiceTypeOK'
    BY <1>3 DEF Kick, service, Probes!ServiceTypeOK
  <2>3. /\ build' \in [Builds -> BuildRuns]
        /\ routeRefreshing' \in Builds \cup {Nil}
        /\ \A j \in Builds : build'[j].gen <= routeGen
    BY <1>3, RefreshTypes DEF Kick
  <2>4. QED
    BY <1>3, <2>1, <2>2, <2>3 DEF Kick, indexVars
<1>4. QED
  BY <1>1, <1>2, <1>3 DEF AdminStep
\* Requests, and the steps that touch nothing but the index and the refresh.
LEMMA RequestTypes ==
  ASSUME TypeInv, NEW r \in Requests,
         RejectEmpty(r) \/ LoadIndex(r) \/ BuildFirst(r) \/ selectEngine(r)
  PROVE  TypeInv'
<1> USE DEF TypeInv, TypeOK
<1>1. UNCHANGED <<service, adminVars, indexVars, booting>>
  BY DEF RejectEmpty, LoadIndex, BuildFirst, selectEngine, UseBuild, RouteHit,
         RecheckMiss, RouteMiss
<1>2. /\ build' \in [Builds -> BuildRuns]
      /\ routeRefreshing' \in Builds \cup {Nil}
      /\ \A j \in Builds : build'[j].gen <= routeGen
  BY RefreshTypes, StartedTypes DEF RejectEmpty, LoadIndex, BuildFirst, selectEngine,
       UseBuild, RouteHit, RecheckMiss, RouteMiss
<1>3. request[r] \in RequestRuns
  OBVIOUS
<1>4. \E new \in RequestRuns : request' = [request EXCEPT ![r] = new]
  <2>1. ASSUME NEW pc \in Verdicts, NEW e \in Engines \cup {Nil}, Verdict(r, pc, e)
        PROVE  \E new \in RequestRuns : request' = [request EXCEPT ![r] = new]
    <3>1. [NoRequest EXCEPT !.pc = pc, !.engine = e] \in RequestRuns
      BY DEF NoRequest, RequestRuns, Index, Indexes
    <3>2. QED
      BY <2>1, <3>1 DEF Verdict
  <2>2. Owed \in SUBSET Engines
    BY DEF Owed
  <2>3. CASE RejectEmpty(r)
    BY <2>1, <2>3 DEF RejectEmpty, Verdicts
  <2>4. CASE LoadIndex(r)
    <3>1. [pc |-> "look", idx |-> routeIndexPtr, owed |-> Owed, engine |-> Nil]
            \in RequestRuns
      BY <2>2, <2>4 DEF LoadIndex, RequestRuns
    <3>2. QED
      BY <2>4, <3>1 DEF LoadIndex
  <2>5. CASE BuildFirst(r)
    <3>1. PICK k \in Builds : request' = [request EXCEPT ![r] =
            [pc |-> "building", idx |-> Index(k, "fresh"), owed |-> Owed, engine |-> Nil]]
      BY <2>5 DEF BuildFirst
    <3>2. [pc |-> "building", idx |-> Index(k, "fresh"), owed |-> Owed, engine |-> Nil]
            \in RequestRuns
      BY <2>2 DEF RequestRuns, Index, Indexes
    <3>3. QED
      BY <3>1, <3>2
  <2>6. CASE UseBuild(r)
    <3>1. [request[r] EXCEPT !.pc = "look"] \in RequestRuns
      BY <1>3 DEF RequestRuns
    <3>2. QED
      BY <2>6, <3>1 DEF UseBuild
  <2>7. CASE RouteHit(r)
    <3>1. PICK i \in Candidates(request[r].idx) :
            Verdict(r, "routed", build[request[r].idx.build].byModel[i])
      BY <2>7 DEF RouteHit
    <3>2. build[request[r].idx.build].byModel[i] \in Engines
      BY <3>1 DEF Candidates
    <3>3. QED
      BY <2>1, <3>1, <3>2 DEF Verdicts
  <2>8. CASE RecheckMiss(r)
    <3>1. PICK k \in Builds : request' = [request EXCEPT ![r] =
            [request[r] EXCEPT !.pc = "building", !.idx = Index(k, "fresh")]]
      BY <2>8 DEF RecheckMiss
    <3>2. [request[r] EXCEPT !.pc = "building", !.idx = Index(k, "fresh")] \in RequestRuns
      BY <1>3 DEF RequestRuns, Index, Indexes
    <3>3. QED
      BY <3>1, <3>2
  <2>9. CASE RouteMiss(r)
    BY <2>1, <2>9 DEF RouteMiss, Verdicts
  <2>10. QED
    BY <2>3, <2>4, <2>5, <2>6, <2>7, <2>8, <2>9 DEF selectEngine
<1>5. request' \in [Requests -> RequestRuns]
  BY <1>4
<1>6. routeGen' + Cardinality(Settling') <= changes'
  BY <1>1, CountKept DEF adminVars, indexVars
<1>7. Probes!ServiceTypeOK'
  BY <1>1 DEF service, Probes!ServiceTypeOK
<1>8. QED
  BY <1>1, <1>2, <1>5, <1>6, <1>7 DEF adminVars, indexVars

LEMMA OtherTypes ==
  ASSUME TypeInv, ExpireIndex \/ EndRefresh \/ Boot \/ UNCHANGED vars
  PROVE  TypeInv'
<1> USE DEF TypeInv, TypeOK
<1>1. UNCHANGED <<service, adminVars, routeGen, request>>
  BY DEF ExpireIndex, EndRefresh, Boot, vars, indexVars
<1>2. /\ build' \in [Builds -> BuildRuns]
      /\ routeRefreshing' \in Builds \cup {Nil}
      /\ \A j \in Builds : build'[j].gen <= routeGen
  BY RefreshTypes DEF ExpireIndex, EndRefresh, Boot, vars
<1>3. routeIndexPtr' \in Indexes \cup {Nil}
      /\ (routeIndexPtr' # Nil => routeIndexPtr'.build \in Builds)
  BY DEF ExpireIndex, EndRefresh, Boot, vars, indexVars, Indexes
<1>4. booting' \in BOOLEAN
  BY DEF ExpireIndex, EndRefresh, Boot, vars
<1>5. routeGen' + Cardinality(Settling') <= changes'
  BY <1>1, CountKept DEF adminVars
<1>6. Probes!ServiceTypeOK'
  BY <1>1 DEF service, Probes!ServiceTypeOK
<1>7. QED
  BY <1>1, <1>2, <1>3, <1>4, <1>5, <1>6 DEF adminVars

LEMMA TypeStep == TypeInv /\ [Next]_vars => TypeInv'
<1> SUFFICES ASSUME TypeInv, [Next]_vars PROVE TypeInv'
  OBVIOUS
<1>1. ASSUME NEW k \in Builds, ReturnIndex(k) \/ CutShort(k) PROVE TypeInv'
  BY <1>1, SortTypes DEF ReturnIndex, CutShort
<1>2. QED
  BY <1>1, LaunchTypes, CollectTypes, ReclaimTypes, ChangeTypes, AdminTypes,
     RequestTypes, OtherTypes DEF Next, Act, BuildStep, Changes

\* Routing keeps to its types and its bounds (routing.go); in particular the
\* generation counts invalidations, of which there is one for each change.
THEOREM TypeCorrect == Spec => []TypeOK
<1>1. TypeInv => TypeOK
  BY DEF TypeInv
<1>2. QED
  BY <1>1, TypeInit, TypeStep, PTL DEF Spec
-----------------------------------------------------------------------------
(* What a step does to one build.                                          *)

Same(k) == build'[k] = build[k] /\ \A e \in Engines : ask'[<<k, e>>] = ask[<<k, e>>]

Starts(k) ==
  /\ Free(k)
  /\ build'[k] = [NoBuild EXCEPT !.pc = "gen", !.gen = routeGen]
  /\ \A e \in Engines : ask'[<<k, e>>] = ask[<<k, e>>]
  /\ UNCHANGED indexVars

Moves(k) ==
  \/ Same(k) \/ Starts(k) \/ LaunchProbes(k) \/ (\E e \in Engines : CollectProbe(k, e))
  \/ ReturnIndex(k) \/ CutShort(k) \/ Reclaim(k)

\* A rebuild starts on a free name and leaves the others alone.
LEMMA StartMoves ==
  ASSUME TypeInv, NEW j \in Builds, Free(j), build' = Started(j),
         UNCHANGED <<ask, indexVars>>, NEW k \in Builds
  PROVE  Moves(k)
<1>1. build \in [Builds -> BuildRuns]
  BY DEF TypeInv, TypeOK
<1>2. CASE k = j
  BY <1>1, <1>2 DEF Moves, Starts, Started
<1>3. CASE k # j
  BY <1>1, <1>3 DEF Moves, Same, Started
<1>4. QED
  BY <1>2, <1>3

LEMMA RefreshMoves ==
  ASSUME TypeInv, RefreshAsync, UNCHANGED <<ask, indexVars>>, NEW k \in Builds
  PROVE  Moves(k)
<1>1. CASE routeRefreshing # Nil
  BY <1>1 DEF RefreshAsync, Moves, Same
<1>2. CASE routeRefreshing = Nil
  BY <1>2, StartMoves DEF RefreshAsync
<1>3. QED
  BY <1>1, <1>2

LEMMA BuildMoves ==
  ASSUME TypeInv, [Next]_vars, NEW k \in Builds
  PROVE  Moves(k)
<1> USE DEF TypeInv, TypeOK, Probes!ServiceTypeOK
<1>1. ASSUME UNCHANGED <<build, ask>> PROVE Moves(k)
  BY <1>1 DEF Moves, Same
<1>2. ASSUME NEW j \in Builds, BuildStep(j) PROVE Moves(k)
  <2>1. CASE j = k
    BY <1>2, <2>1 DEF BuildStep, Moves
  <2>2. CASE j # k
    <3>1. CASE LaunchProbes(j)
      <4>1. build'[k] = build[k]
        BY <2>2, <3>1 DEF LaunchProbes
      <4>2. \A e \in Engines : <<k, e>> \in DOMAIN ask /\ <<k, e>>[1] # j
        BY <2>2
      <4>3. \A e \in Engines : ask'[<<k, e>>] = ask[<<k, e>>]
        BY <3>1, <4>2 DEF LaunchProbes
      <4>4. QED
        BY <4>1, <4>3 DEF Moves, Same
    <3>2. CASE ReturnIndex(j) \/ CutShort(j)
      BY <2>2, <3>2 DEF ReturnIndex, CutShort, SortIndex, service, Moves, Same
    <3>3. QED
      BY <1>2, <3>1, <3>2 DEF BuildStep
  <2>3. QED
    BY <2>1, <2>2
<1>3. ASSUME NEW j \in Builds, NEW e \in Engines, CollectProbe(j, e) PROVE Moves(k)
  <2>1. CASE j = k
    BY <1>3, <2>1, SMTT(30) DEF Moves
  <2>2. CASE j # k
    BY <1>3, <2>2 DEF CollectProbe, Moves, Same
  <2>3. QED
    BY <2>1, <2>2
<1>4. ASSUME NEW j \in Builds, Reclaim(j) PROVE Moves(k)
  <2>1. CASE j = k
    BY <1>4, <2>1 DEF Moves
  <2>2. CASE j # k
    <3>1. \A e \in Engines : <<k, e>> \in DOMAIN ask /\ <<k, e>>[1] # j
      BY <2>2
    <3>2. QED
      BY <1>4, <2>2, <3>1 DEF Reclaim, Moves, Same
  <2>3. QED
    BY <2>1, <2>2
<1>5. ASSUME ExpireIndex \/ EndRefresh \/ UNCHANGED vars PROVE Moves(k)
  BY <1>1, <1>5 DEF ExpireIndex, EndRefresh, vars, service
<1>6. ASSUME Boot PROVE Moves(k)
  BY <1>6, RefreshMoves DEF Boot, service
<1>7. ASSUME NEW a \in Admins, AdminStep(a) PROVE Moves(k)
  BY <1>1, <1>7, RefreshMoves DEF AdminStep, DropProbes, invalidateRouteIndex, Kick,
       service, Probes!InvalidateProbes
<1>8. ASSUME NEW a \in Admins, Changes(a) PROVE Moves(k)
  BY <1>1, <1>8 DEF Changes, ChangeModel, EditEngine, PullNothing, RemoveEngine, AddEngine,
       service, Probes!ChangeList, Probes!ReplaceAdapter
<1>9. ASSUME NEW r \in Requests,
             RejectEmpty(r) \/ LoadIndex(r) \/ BuildFirst(r) \/ selectEngine(r)
      PROVE  Moves(k)
  <2>1. CASE RejectEmpty(r) \/ UseBuild(r) \/ RouteHit(r) \/ RouteMiss(r)
    BY <1>1, <2>1 DEF RejectEmpty, UseBuild, RouteHit, RouteMiss, service
  <2>2. CASE LoadIndex(r)
    BY <1>1, <2>2, RefreshMoves DEF LoadIndex, service
  <2>3. CASE BuildFirst(r) \/ RecheckMiss(r)
    BY <2>3, StartMoves, SMTT(30) DEF BuildFirst, RecheckMiss, service
  <2>4. QED
    BY <1>9, <2>1, <2>2, <2>3 DEF selectEngine
<1>10. QED
  BY <1>2, <1>3, <1>4, <1>5, <1>6, <1>7, <1>8, <1>9 DEF Next, Act, Changes

\* What the probe cache may be told of only moves forward.
LEMMA ListsGrow ==
  ASSUME TypeInv, [Next]_vars, NEW e \in Engines
  PROVE  /\ adapter'[e] \in Probes!Adapters /\ adapter[e] <= adapter'[e]
         /\ oldest'[e] \in Probes!Adapters /\ oldest[e] <= oldest'[e]
         /\ oldest'[e] <= adapter[e] \/ oldest' = oldest
         /\ \A a \in Probes!Adapters :
              upstream'[e][a] \in Nat /\ upstream[e][a] <= upstream'[e][a]
         /\ floor' \in {floor, upstream}
<1>1. /\ adapter \in [Engines -> Probes!Adapters] /\ oldest \in [Engines -> Probes!Adapters]
      /\ upstream \in [Engines -> Probes!Lists]
      /\ Probes!Adapters \subseteq Nat
      /\ \A a \in Probes!Adapters : upstream[e][a] \in Nat
  BY ListTypes DEF TypeInv, TypeOK, Probes!ServiceTypeOK
<1>2. ASSUME NEW i \in Engines, NEW b \in 0 .. adapter[i], Probes!ChangeList(i, b)
      PROVE  /\ UNCHANGED <<adapter, oldest, floor>>
             /\ \A a \in Probes!Adapters :
                  upstream'[e][a] \in Nat /\ upstream[e][a] <= upstream'[e][a]
  <2>1. UNCHANGED <<adapter, oldest, floor>> /\ upstream' = [upstream EXCEPT ![i][b] = @ + 1]
    BY <1>2 DEF Probes!ChangeList
  <2>2. \A a \in Probes!Adapters : upstream'[e][a] \in {upstream[e][a], upstream[e][a] + 1}
    BY <1>1, <2>1 DEF Probes!Lists
  <2>3. QED
    BY <1>1, <2>1, <2>2
<1>3. ASSUME NEW i \in Engines, Probes!ReplaceAdapter(i)
      PROVE  /\ UNCHANGED <<upstream, oldest, floor>>
             /\ adapter'[e] \in Probes!Adapters /\ adapter[e] <= adapter'[e]
  <2>1. UNCHANGED <<upstream, oldest, floor>> /\ adapter' = [adapter EXCEPT ![i] = @ + 1]
        /\ adapter[i] < MaxAdapter
    BY <1>3 DEF Probes!ReplaceAdapter
  <2>2. adapter'[e] = adapter[e] \/ (adapter'[e] = adapter[e] + 1 /\ adapter[e] < MaxAdapter)
    BY <1>1, <2>1
  <2>3. QED
    BY <1>1, <2>1, <2>2, RouteAssumption DEF Probes!Adapters
<1>4. ASSUME Probes!InvalidateProbes
      PROVE  /\ UNCHANGED <<adapter, upstream>> /\ floor' = upstream
             /\ oldest'[e] \in Probes!Adapters
             /\ oldest[e] <= oldest'[e] /\ oldest'[e] <= adapter[e]
  BY <1>4 DEF Probes!InvalidateProbes, Probes!Reaches
<1>0. /\ adapter[e] \in Probes!Adapters /\ adapter[e] <= adapter[e]
      /\ oldest[e] \in Probes!Adapters /\ oldest[e] <= oldest[e]
      /\ \A a \in Probes!Adapters : upstream[e][a] <= upstream[e][a]
  <2>1. adapter[e] \in Probes!Adapters /\ oldest[e] \in Probes!Adapters
    BY <1>1
  <2>2. adapter[e] \in Nat /\ oldest[e] \in Nat
    BY <1>1, <2>1
  <2>3. \A n \in Nat : n <= n
    OBVIOUS
  <2>4. QED
    BY <1>1, <2>1, <2>2, <2>3, Zenon
<1>5. CASE UNCHANGED <<adapter, upstream, floor, oldest>>
  <2>1. adapter' = adapter /\ upstream' = upstream /\ floor' = floor /\ oldest' = oldest
    BY <1>5
  <2>2. QED
    BY <1>0, <1>1, <2>1, Zenon
<1>6. CASE \E a \in Admins : Changes(a)
  <2>1. PICK a \in Admins : Changes(a)
    BY <1>6
  <2>2. \/ UNCHANGED service
        \/ \E i \in Engines :
             (\E b \in 0 .. adapter[i] : Probes!ChangeList(i, b)) \/ Probes!ReplaceAdapter(i)
    BY <2>1 DEF Changes, ChangeModel, EditEngine, PullNothing, RemoveEngine, AddEngine
  <2>3. CASE UNCHANGED service
    BY <1>5, <2>3 DEF service
  <2>4. ASSUME NEW i \in Engines, NEW b \in 0 .. adapter[i], Probes!ChangeList(i, b)
        PROVE  /\ UNCHANGED <<adapter, oldest, floor>>
               /\ \A v \in Probes!Adapters :
                    upstream'[e][v] \in Nat /\ upstream[e][v] <= upstream'[e][v]
    BY <1>2, <2>4
  <2>5. CASE \E i \in Engines : \E b \in 0 .. adapter[i] : Probes!ChangeList(i, b)
    BY <1>0, <2>4, <2>5
  <2>6. CASE \E i \in Engines : Probes!ReplaceAdapter(i)
    BY <1>0, <1>1, <1>3, <2>6
  <2>7. QED
    BY <2>2, <2>3, <2>5, <2>6
<1>7. CASE \E a \in Admins : DropProbes(a)
  <2>1. Probes!InvalidateProbes
    BY <1>7 DEF DropProbes
  <2>2. QED
    BY <1>0, <1>1, <1>4, <2>1
<1>8. QED
  BY <1>5, <1>6, <1>7 DEF Next, Act, BuildStep, LaunchProbes, ReturnIndex, CutShort,
     CollectProbe, Reclaim, ExpireIndex, EndRefresh, Boot, AdminStep, Changes,
     invalidateRouteIndex, Kick, RejectEmpty,
     LoadIndex, BuildFirst, selectEngine, UseBuild, RouteHit, RecheckMiss, RouteMiss,
     service, vars
-----------------------------------------------------------------------------
(* What is in an index.                                                    *)

\* A build with nothing in it yet.
LEMMA BlankShape ==
  ASSUME NEW k, build'[k].pc # "ready",
         build'[k].byModel = <<>>, build'[k].saw = [e \in Engines |-> {}],
         build'[k].late = {}, \A e \in Engines : ask'[<<k, e>>] = Probes!Idle
  PROVE  BuildShape(k)'
<1>1. \A e \in Engines : build'[k].saw[e] = {}
  OBVIOUS
<1>2. IdsOf(k)' = {}
  BY <1>1 DEF IdsOf
<1>3. ToSet(build'[k].byModel) = {}
  BY DEF ToSet
<1>4. QED
  BY <1>1, <1>2, <1>3 DEF BuildShape, ToSet

\* What was seen stays in the past.
LEMMA SeenStays ==
  ASSUME TypeInv, [Next]_vars, NEW e \in Engines, NEW v, Seen(e, v)
  PROVE  Seen(e, v)'
<1>1. v.via \in Probes!Adapters /\ v.version \in Nat
  BY DEF Seen, Probes!Sightings
<1>2. /\ Probes!Adapters \subseteq Nat /\ adapter[e] \in Probes!Adapters
      /\ upstream[e][v.via] \in Nat
  BY <1>1, ListTypes DEF TypeInv
<1>3. /\ adapter'[e] \in Probes!Adapters /\ adapter[e] <= adapter'[e]
      /\ upstream'[e][v.via] \in Nat /\ upstream[e][v.via] <= upstream'[e][v.via]
  BY <1>1, ListsGrow
<1>4. v.via <= adapter[e] /\ v.version <= upstream[e][v.via]
  BY DEF Seen
<1>5. v.via <= adapter'[e]
  <2>1. v.via \in Nat /\ adapter[e] \in Nat /\ adapter'[e] \in Nat
    BY <1>1, <1>2, <1>3
  <2>2. \A x, y, z \in Nat : x <= y /\ y <= z => x <= z
    OBVIOUS
  <2>3. QED
    BY <1>3, <1>4, <2>1, <2>2, Zenon
<1>6. v.version <= upstream'[e][v.via]
  BY <1>1, <1>2, <1>3, <1>4
<1>7. QED
  BY <1>5, <1>6 DEF Seen

LEMMA ShapeKept ==
  ASSUME TypeInv, [Next]_vars, NEW k \in Builds, BuildShape(k), Same(k)
  PROVE  BuildShape(k)'
<1>1. build'[k] = build[k] /\ \A e \in Engines : ask'[<<k, e>>] = ask[<<k, e>>]
  BY DEF Same
<1>2. IdsOf(k)' = IdsOf(k)
  BY <1>1 DEF IdsOf
<1>3. \A e \in Engines : \A v \in build[k].saw[e] : Seen(e, v)'
  BY SeenStays DEF BuildShape
<1>4. QED
  BY <1>1, <1>2, <1>3 DEF BuildShape

LEMMA AppendSet ==
  ASSUME NEW s \in Seq(Engines), NEW e \in Engines
  PROVE  ToSet(Append(s, e)) = ToSet(s) \cup {e}
<1> DEFINE t == Append(s, e)
<1>1. Len(s) \in Nat /\ DOMAIN s = 1 .. Len(s) /\ DOMAIN t = 1 .. Len(s) + 1
  OBVIOUS
<1>2. t[Len(s) + 1] = e /\ \A i \in 1 .. Len(s) : t[i] = s[i]
  OBVIOUS
<1> HIDE DEF t
<1>3. \A i \in DOMAIN t : t[i] \in ToSet(s) \cup {e}
  <2> SUFFICES ASSUME NEW i \in DOMAIN t PROVE t[i] \in ToSet(s) \cup {e}
    OBVIOUS
  <2>1. CASE i = Len(s) + 1
    BY <1>2, <2>1
  <2>2. CASE i # Len(s) + 1
    <3>1. i \in DOMAIN s /\ t[i] = s[i]
      BY <1>1, <1>2, <2>2
    <3>2. QED
      BY <3>1 DEF ToSet
  <2>3. QED
    BY <2>1, <2>2
<1>4. \A i \in DOMAIN s : i \in DOMAIN t /\ t[i] = s[i]
  BY <1>1, <1>2
<1>5. Len(s) + 1 \in DOMAIN t
  BY <1>1
<1>6. QED
  BY <1>2, <1>3, <1>4, <1>5 DEF ToSet, t

\* A late id may come anywhere in the order.
LEMMA AppendOrdered ==
  ASSUME NEW s \in Seq(Engines), NEW late, Ordered(s, late), NEW e \in Engines
  PROVE  Ordered(Append(s, e), late \cup {e})
<1> DEFINE t == Append(s, e)
<1>1. Len(s) \in Nat /\ DOMAIN s = 1 .. Len(s) /\ DOMAIN t = 1 .. Len(s) + 1
  OBVIOUS
<1>2. t[Len(s) + 1] = e /\ \A i \in 1 .. Len(s) : t[i] = s[i]
  OBVIOUS
<1> HIDE DEF t
<1>3. SUFFICES ASSUME NEW i \in DOMAIN t, NEW j \in DOMAIN t,
                      i < j, t[j] \notin late \cup {e}
               PROVE  t[i] < t[j]
  BY DEF Ordered, t
<1>4. j # Len(s) + 1
  BY <1>2, <1>3
<1>5. i \in DOMAIN s /\ j \in DOMAIN s
  BY <1>1, <1>3, <1>4
<1>6. t[i] = s[i] /\ t[j] = s[j]
  BY <1>1, <1>2, <1>5
<1>7. s[i] < s[j]
  BY <1>3, <1>5, <1>6 DEF Ordered
<1>8. QED
  BY <1>6, <1>7

\* What a build is left with when it hears of e.
Collected(k, e, seen) ==
  LET holds == \E v \in seen : Holds(e, v)
  IN [build[k] EXCEPT !.probed = TRUE, !.saw[e] = seen,
        !.byModel = IF holds THEN Append(@, e) ELSE @,
        !.late = IF holds /\ build[k].pc = "ready" THEN @ \cup {e} ELSE @]

\* The answer a build hears, if it is an answer about a server that is up.
LEMMA CollectFrame ==
  ASSUME TypeInv, NEW k \in Builds, NEW e \in Engines, CollectProbe(k, e)
  PROVE  /\ ask[<<k, e>>] # Probes!Idle /\ ask[<<k, e>>].since \in Probes!Lists
         /\ ask'[<<k, e>>] = Probes!Idle
         /\ \A i \in Engines \ {e} : ask'[<<k, i>>] = ask[<<k, i>>]
         /\ UNCHANGED <<adapter, upstream, floor, oldest, registered, settled, indexVars>>
         /\ \/ build'[k] = build[k]
            \/ \E seen \in SUBSET Probes!Sightings :
                 /\ \A v \in seen :
                      /\ oldest[e] <= v.via /\ v.via <= adapter[e]
                      /\ ask[<<k, e>>].since[v.via] <= v.version
                      /\ v.version <= upstream[e][v.via]
                 /\ build'[k] = Collected(k, e, seen)
<1>1. ask \in [Builds \X Engines -> Probes!Asks]
  BY DEF TypeInv, TypeOK, Probes!ServiceTypeOK
<1>2. ask[<<k, e>>] \in Probes!Asks /\ ask[<<k, e>>].state = "pending"
  BY <1>1 DEF CollectProbe
<1>3. ask[<<k, e>>].since \in Probes!Lists /\ ask[<<k, e>>] # Probes!Idle
  BY <1>2 DEF Probes!Asks, Probes!Idle
<1>4. /\ ask'[<<k, e>>] = Probes!Idle
      /\ \A i \in Engines \ {e} : ask'[<<k, i>>] = ask[<<k, i>>]
  BY <1>1 DEF CollectProbe
<1>5. PICK data \in Probes!Answers(e, ask[<<k, e>>].since) :
        LET holds == \E v \in data.seen : Holds(e, v)
        IN build' = IF ~data.status THEN build ELSE
             [build EXCEPT ![k].probed = TRUE,
                           ![k].saw[e] = data.seen,
                           ![k].byModel = IF holds THEN Append(@, e) ELSE @,
                           ![k].late = IF holds /\ build[k].pc = "ready"
                                         THEN @ \cup {e} ELSE @]
  BY DEF CollectProbe
<1>6. k \in DOMAIN build /\ build[k] \in BuildRuns
  BY DEF TypeInv, TypeOK
<1>7. \A v \in data.seen :
        /\ v \in Probes!Sightings
        /\ oldest[e] <= v.via /\ v.via <= adapter[e]
        /\ ask[<<k, e>>].since[v.via] <= v.version
        /\ v.version <= upstream[e][v.via]
  BY <1>3, AnswerFacts DEF TypeInv
<1>8. build'[k] = build[k] \/ build'[k] = Collected(k, e, data.seen)
  <2>1. build' = build \/ build' = [build EXCEPT ![k] = Collected(k, e, data.seen)]
    BY <1>5 DEF Collected
  <2> HIDE DEF Collected
  <2>2. QED
    BY <1>6, <2>1
<1>9. UNCHANGED <<adapter, upstream, floor, oldest, registered, settled, indexVars>>
  BY DEF CollectProbe, adminVars
<1>10. QED
  BY <1>3, <1>4, <1>7, <1>8, <1>9

LEMMA CollectedFields ==
  ASSUME TypeInv, NEW k \in Builds, NEW e \in Engines, NEW seen \in SUBSET Probes!Sightings
  PROVE  LET b == Collected(k, e, seen)
             holds == \E v \in seen : Holds(e, v)
         IN /\ b.pc = build[k].pc /\ b.gen = build[k].gen /\ b.asked = build[k].asked
            /\ b.saw[e] = seen
            /\ \A i \in Engines \ {e} : b.saw[i] = build[k].saw[i]
            /\ b.byModel = IF holds THEN Append(build[k].byModel, e) ELSE build[k].byModel
            /\ b.late = IF holds /\ build[k].pc = "ready" THEN build[k].late \cup {e}
                                                          ELSE build[k].late
<1> DEFINE holds == \E v \in seen : Holds(e, v)
           ids == IF holds THEN Append(build[k].byModel, e) ELSE build[k].byModel
           late == IF holds /\ build[k].pc = "ready" THEN build[k].late \cup {e}
                                                     ELSE build[k].late
<1>1. Collected(k, e, seen) = [build[k] EXCEPT !.probed = TRUE, !.saw[e] = seen,
                                               !.byModel = ids, !.late = late]
  BY DEF Collected
<1>2. build[k] \in BuildRuns
  BY DEF TypeInv, TypeOK
<1> HIDE DEF holds, ids, late
<1>3. LET b == Collected(k, e, seen)
      IN /\ b.pc = build[k].pc /\ b.gen = build[k].gen /\ b.asked = build[k].asked
         /\ b.saw[e] = seen
         /\ \A i \in Engines \ {e} : b.saw[i] = build[k].saw[i]
         /\ b.byModel = ids /\ b.late = late
  BY <1>1, <1>2 DEF BuildRuns
<1>4. QED
  BY <1>3 DEF ids, late, holds

\* An answer is added under the name of its engine, which was not there.
LEMMA CollectShape ==
  ASSUME TypeInv, NEW k \in Builds, BuildShape(k), NEW e \in Engines, CollectProbe(k, e)
  PROVE  BuildShape(k)'
<1>1. ask[<<k, e>>] # Probes!Idle /\ ask'[<<k, e>>] = Probes!Idle
      /\ (\A i \in Engines \ {e} : ask'[<<k, i>>] = ask[<<k, i>>])
      /\ UNCHANGED <<adapter, upstream>>
  BY CollectFrame
<1>2. build[k].pc \in {"probing", "ready"} /\ build[k].saw[e] = {}
  BY <1>1 DEF BuildShape
<1>3. \A i \in Engines : \A v : Seen(i, v)' <=> Seen(i, v)
  BY <1>1 DEF Seen
<1>4. CASE build'[k] = build[k]
  <2>1. IdsOf(k)' = IdsOf(k)
    BY <1>4 DEF IdsOf
  <2>2. \A i \in Engines : ask'[<<k, i>>] # Probes!Idle => ask[<<k, i>>] # Probes!Idle
    BY <1>1
  <2>3. QED
    BY <1>3, <1>4, <2>1, <2>2 DEF BuildShape
<1>5. CASE build'[k] # build[k]
  <2>1. PICK seen \in SUBSET Probes!Sightings :
          /\ \A v \in seen : v.via <= adapter[e] /\ v.version <= upstream[e][v.via]
          /\ build'[k] = Collected(k, e, seen)
    BY <1>5, CollectFrame
  <2> DEFINE holds == \E v \in seen : Holds(e, v)
  <2>2. /\ build'[k].pc = build[k].pc /\ build'[k].asked = build[k].asked
        /\ build'[k].saw[e] = seen
        /\ \A i \in Engines \ {e} : build'[k].saw[i] = build[k].saw[i]
        /\ build'[k].byModel = IF holds THEN Append(build[k].byModel, e) ELSE build[k].byModel
        /\ build'[k].late = IF holds /\ build[k].pc = "ready" THEN build[k].late \cup {e}
                                                              ELSE build[k].late
    <3> DEFINE b == Collected(k, e, seen)
    <3>1. /\ b.pc = build[k].pc /\ b.asked = build[k].asked /\ b.saw[e] = seen
          /\ \A i \in Engines \ {e} : b.saw[i] = build[k].saw[i]
          /\ b.byModel = IF holds THEN Append(build[k].byModel, e) ELSE build[k].byModel
          /\ b.late = IF holds /\ build[k].pc = "ready" THEN build[k].late \cup {e}
                                                        ELSE build[k].late
      BY CollectedFields
    <3> HIDE DEF holds
    <3>2. build'[k] = b
      BY <2>1
    <3> HIDE DEF b
    <3>3. QED
      BY <3>1, <3>2
  <2>3. build[k].byModel \in Seq(Engines) /\ ToSet(build[k].byModel) = IdsOf(k)
    BY DEF TypeInv, TypeOK, BuildRuns, BuildShape
  <2>4. ToSet(build'[k].byModel) = IdsOf(k)'
    <3>1. e \notin IdsOf(k)
      BY <1>2 DEF IdsOf
    <3>2. e \in IdsOf(k)' <=> holds
      BY <2>2 DEF IdsOf, Holds
    <3>3. \A i \in Engines \ {e} : i \in IdsOf(k)' <=> i \in IdsOf(k)
      BY <2>2 DEF IdsOf, Holds
    <3>4. IdsOf(k)' = IF holds THEN IdsOf(k) \cup {e} ELSE IdsOf(k)
      <4>1. IdsOf(k)' \subseteq Engines /\ IdsOf(k) \subseteq Engines
        BY DEF IdsOf
      <4> HIDE DEF holds
      <4>2. QED
        BY <3>1, <3>2, <3>3, <4>1
    <3>5. ToSet(Append(build[k].byModel, e)) = ToSet(build[k].byModel) \cup {e}
      BY <2>3, AppendSet
    <3> HIDE DEF holds
    <3>6. QED
      BY <2>2, <2>3, <3>4, <3>5
  <2>5. \A v \in seen : Seen(e, v)
    BY <2>1 DEF Seen
  <2>6. \A i \in Engines : \A v \in build'[k].saw[i] : Seen(i, v)'
    BY <1>3, <2>2, <2>5, ZenonT(40) DEF BuildShape
  <2>7. \A i \in Engines : ask'[<<k, i>>] # Probes!Idle =>
          /\ build'[k].pc \in {"probing", "ready"}
          /\ i \in build'[k].asked /\ build'[k].saw[i] = {}
    BY <1>1, <2>2 DEF BuildShape
  <2>8. build'[k].pc = "ready" => Ordered(build'[k].byModel, build'[k].late)
    <3>1. SUFFICES ASSUME build[k].pc = "ready"
                   PROVE  Ordered(build'[k].byModel, build'[k].late)
      BY <2>2
    <3>2. Ordered(build[k].byModel, build[k].late)
      BY <3>1 DEF BuildShape
    <3> HIDE DEF holds
    <3>3. CASE holds
      <4>1. Ordered(Append(build[k].byModel, e), build[k].late \cup {e})
        BY <2>3, <3>2, AppendOrdered
      <4>2. QED
        BY <2>2, <3>1, <3>3, <4>1
    <3>4. CASE ~holds
      BY <2>2, <3>2, <3>4
    <3>5. QED
      BY <3>3, <3>4
  <2>9. build'[k].pc # "ready" => build'[k].late = {}
    BY <2>2 DEF BuildShape
  <2>10. build'[k].pc \notin {"free", "gen"}
    BY <1>2, <2>2
  <2>11. QED
    BY <2>4, <2>6, <2>7, <2>8, <2>9, <2>10 DEF BuildShape
<1>6. QED
  BY <1>4, <1>5

\* The ids are sorted, also those of a build that is cut short.
LEMMA SortShape ==
  ASSUME TypeInv, NEW k \in Builds, BuildShape(k), ReturnIndex(k) \/ CutShort(k)
  PROVE  BuildShape(k)'
<1>1. build[k] \in BuildRuns /\ k \in DOMAIN build
  BY DEF TypeInv, TypeOK
<1>2. SortIndex(k) /\ build[k].pc = "probing" /\ UNCHANGED <<adapter, upstream, ask>>
  BY DEF ReturnIndex, CutShort, service
<1> DEFINE ids == Sorted(ToSet(build[k].byModel))
<1>3. /\ build'[k].pc = "ready" /\ build'[k].byModel = ids
      /\ build'[k].saw = build[k].saw /\ build'[k].asked = build[k].asked
  <2> HIDE DEF ids
  <2>1. QED
    BY <1>1, <1>2 DEF SortIndex, BuildRuns, ids
<1>4. ToSet(build[k].byModel) = IdsOf(k) /\ IdsOf(k) \in SUBSET Engines
  BY DEF BuildShape, IdsOf
<1>5. Enumerates(ids, IdsOf(k))
  BY <1>4, SortedFacts
<1> HIDE DEF ids
<1>6. IdsOf(k)' = IdsOf(k)
  BY <1>3 DEF IdsOf
<1>7. ToSet(build'[k].byModel) = IdsOf(k)' /\ Ordered(build'[k].byModel, build'[k].late)
  BY <1>3, <1>5, <1>6 DEF Enumerates, Ordered
<1>8. \A e \in Engines :
        /\ \A v \in build'[k].saw[e] : Seen(e, v)'
        /\ ask'[<<k, e>>] # Probes!Idle => e \in build'[k].asked /\ build'[k].saw[e] = {}
  BY <1>2, <1>3 DEF BuildShape, Seen
<1>9. QED
  BY <1>3, <1>7, <1>8 DEF BuildShape

LEMMA LaunchShape ==
  ASSUME TypeInv, NEW k \in Builds, BuildShape(k), LaunchProbes(k)
  PROVE  BuildShape(k)'
<1>1. build[k] \in BuildRuns /\ k \in DOMAIN build
  BY DEF TypeInv, TypeOK
<1>2. /\ build'[k].pc = "probing" /\ build'[k].asked = registered
      /\ build'[k].byModel = build[k].byModel /\ build'[k].saw = build[k].saw
      /\ build'[k].late = build[k].late
  BY <1>1 DEF LaunchProbes, BuildRuns
<1>3. build[k].pc = "gen"
  BY DEF LaunchProbes
<1>4. \A e \in Engines : build'[k].saw[e] = {}
  BY <1>2, <1>3 DEF BuildShape
<1>5. \A e \in Engines : ask'[<<k, e>>] # Probes!Idle => e \in registered
  <2> SUFFICES ASSUME NEW e \in Engines, e \notin registered
               PROVE  ask'[<<k, e>>] = Probes!Idle
    OBVIOUS
  <2>1. <<k, e>> \in DOMAIN ask /\ <<k, e>>[2] = e
    BY DEF TypeInv, TypeOK, Probes!ServiceTypeOK
  <2>2. ask'[<<k, e>>] = ask[<<k, e>>]
    BY <2>1 DEF LaunchProbes
  <2>3. QED
    BY <1>3, <2>2 DEF BuildShape
<1>6. IdsOf(k)' = IdsOf(k)
  BY <1>2 DEF IdsOf
<1>7. build'[k].late = {}
  BY <1>2, <1>3 DEF BuildShape
<1>8. QED
  BY <1>2, <1>4, <1>5, <1>6, <1>7 DEF BuildShape

LEMMA ShapeStep ==
  ASSUME TypeInv, [Next]_vars, NEW k \in Builds, BuildShape(k)
  PROVE  BuildShape(k)'
<1>1. CASE Same(k)
  BY <1>1, ShapeKept
<1>2. CASE Starts(k)
  <2>1. /\ build'[k].pc = "gen" /\ build'[k].byModel = <<>> /\ build'[k].late = {}
        /\ build'[k].saw = [e \in Engines |-> {}]
    BY <1>2 DEF Starts, NoBuild
  <2>2. \A e \in Engines : ask'[<<k, e>>] = Probes!Idle
    BY <1>2 DEF Starts, Free, BuildShape
  <2>3. QED
    BY <2>1, <2>2, BlankShape
<1>3. CASE Reclaim(k)
  <2>1. build' = [build EXCEPT ![k] = NoBuild] /\ k \in DOMAIN build
    BY <1>3 DEF Reclaim, TypeInv, TypeOK
  <2>2. /\ build'[k].pc = "free" /\ build'[k].byModel = <<>> /\ build'[k].late = {}
        /\ build'[k].saw = [e \in Engines |-> {}]
    BY <2>1 DEF NoBuild
  <2>3. \A e \in Engines : <<k, e>> \in DOMAIN ask /\ <<k, e>>[1] = k
    BY DEF TypeInv, TypeOK, Probes!ServiceTypeOK
  <2>4. \A e \in Engines : ask'[<<k, e>>] = Probes!Idle
    BY <1>3, <2>3 DEF Reclaim
  <2>5. QED
    BY <2>2, <2>4, BlankShape
<1>4. QED
  BY <1>1, <1>2, <1>3, LaunchShape, CollectShape, SortShape, BuildMoves DEF Moves
-----------------------------------------------------------------------------
(* What a step does to the pointer and to a request.                       *)

\* Nobody who can reach a build loses it.
LEMMA BuildStays ==
  ASSUME TypeInv, [Next]_vars, NEW k \in Builds, ~Garbage(k)
  PROVE  /\ build[k].pc = "ready" => build'[k].pc = "ready"
         /\ build[k].pc # "free" => build'[k].pc # "free"
<1>1. k \in DOMAIN build /\ build[k] \in BuildRuns
  BY DEF TypeInv, TypeOK
<1>2. CASE \E e \in Engines : CollectProbe(k, e)
  <2>1. build'[k] = build[k]
        \/ \E e \in Engines, seen \in SUBSET Probes!Sightings : build'[k] = Collected(k, e, seen)
    BY <1>2, CollectFrame
  <2>2. \A e \in Engines, seen \in SUBSET Probes!Sightings :
          Collected(k, e, seen).pc = build[k].pc
    BY CollectedFields
  <2>3. build'[k].pc = build[k].pc
    BY <2>1, <2>2, Zenon
  <2>4. QED
    BY <2>3
<1>3. CASE ReturnIndex(k) \/ CutShort(k)
  BY <1>1, <1>3 DEF ReturnIndex, CutShort, SortIndex, BuildRuns
<1>4. CASE LaunchProbes(k)
  BY <1>1, <1>4 DEF LaunchProbes, BuildRuns
<1>5. CASE Same(k) \/ Starts(k)
  BY <1>5, SMTT(30) DEF Same, Starts, Free
<1>6. QED
  BY <1>2, <1>3, <1>4, <1>5, BuildMoves DEF Moves, Reclaim

Stores(k) ==
  /\ ReturnIndex(k) \/ CutShort(k)
  /\ build[k].gen = routeGen
  /\ routeIndexPtr' = Index(k, "fresh")

Ages ==
  /\ routeIndexPtr # Nil /\ routeIndexPtr'.build = routeIndexPtr.build
  /\ routeIndexPtr'.built # "fresh"

LEMMA PointerMoves ==
  ASSUME TypeInv, [Next]_vars
  PROVE  routeIndexPtr' = routeIndexPtr \/ (\E k \in Builds : Stores(k)) \/ Ages
<1>1. CASE \E k \in Builds : ReturnIndex(k) \/ CutShort(k)
  <2>1. PICK k \in Builds : ReturnIndex(k) \/ CutShort(k)
    BY <1>1
  <2>2. storeRouteIndex(k)
    BY <2>1 DEF ReturnIndex, CutShort
  <2>3. QED
    BY <2>1, <2>2 DEF storeRouteIndex, Stores
<1>2. CASE ExpireIndex \/ \E a \in Admins : invalidateRouteIndex(a)
  <2>1. routeIndexPtr \in Indexes \cup {Nil}
    BY DEF TypeInv, TypeOK
  <2>2. QED
    BY <1>2, <2>1 DEF ExpireIndex, invalidateRouteIndex, Indexes, Ages
<1>3. QED
  BY <1>1, <1>2 DEF Next, Act, BuildStep, LaunchProbes, CollectProbe, Reclaim, EndRefresh,
     Boot, AdminStep, DropProbes, Kick, ChangeModel, EditEngine, PullNothing, RemoveEngine,
     AddEngine, RejectEmpty, LoadIndex, BuildFirst, selectEngine, UseBuild, RouteHit, RecheckMiss,
     RouteMiss, indexVars, vars

\* The request is where it was, and what it may count on has not changed.
Waits(r) ==
  /\ request'[r].pc = request[r].pc /\ request'[r].idx = request[r].idx
  /\ request'[r].owed \subseteq request[r].owed
  /\ \A e \in request'[r].owed :
       e \in registered =>
         e \in registered' /\ adapter'[e] = adapter[e] /\ upstream'[e] = upstream[e]

Done(r) == request'[r].pc \in Verdicts /\ request'[r].owed = {}

LEMMA VerdictEnds ==
  ASSUME TypeInv, NEW r \in Requests, NEW q \in Requests, NEW pc \in Verdicts, NEW e,
         Verdict(q, pc, e), UNCHANGED <<service, registered>>
  PROVE  Waits(r) \/ Done(r)
<1>1. request \in [Requests -> RequestRuns]
  BY DEF TypeInv, TypeOK
<1>2. CASE r = q
  BY <1>1, <1>2 DEF Verdict, NoRequest, Done
<1>3. CASE r # q
  BY <1>1, <1>3, SMTT(30) DEF Verdict, Waits, service
<1>4. QED
  BY <1>2, <1>3

LEMMA RequestMoves ==
  ASSUME TypeInv, [Next]_vars, NEW r \in Requests
  PROVE  Waits(r) \/ Done(r) \/ LoadIndex(r) \/ BuildFirst(r) \/ UseBuild(r) \/ RecheckMiss(r)
<1>1. /\ request \in [Requests -> RequestRuns]
      /\ upstream \in [Engines -> Probes!Lists] /\ adapter \in [Engines -> Probes!Adapters]
  BY DEF TypeInv, TypeOK, Probes!ServiceTypeOK
<1>2. ASSUME UNCHANGED request, UNCHANGED <<registered, adapter, upstream>> PROVE Waits(r)
  BY <1>2 DEF Waits
<1>3. ASSUME NEW a \in Admins, Changes(a) PROVE Waits(r)
  <2>1. CASE PullNothing(a)
    BY <1>2, <2>1 DEF PullNothing, service
  <2>2. ASSUME NEW e \in Engines,
               ChangeModel(a, e) \/ EditEngine(a, e) \/ RemoveEngine(a, e) \/ AddEngine(a, e)
        PROVE  Waits(r)
    <3>1. ExcuseEngine(e)
      BY <2>2 DEF ChangeModel, EditEngine, RemoveEngine, AddEngine
    <3>2. request'[r] = [request[r] EXCEPT !.owed = @ \ {e}]
      BY <3>1 DEF ExcuseEngine
    <3>3. /\ request'[r].pc = request[r].pc /\ request'[r].idx = request[r].idx
          /\ request'[r].owed = request[r].owed \ {e} /\ request[r].owed \subseteq Engines
      BY <1>1, <3>2 DEF RequestRuns
    <3>4. ASSUME NEW i \in Engines \ {e}
          PROVE  /\ i \in registered => i \in registered'
                 /\ adapter'[i] = adapter[i] /\ upstream'[i] = upstream[i]
      <4>1. i \in registered => i \in registered'
        BY <2>2 DEF ChangeModel, EditEngine, RemoveEngine, AddEngine
      <4>2. adapter'[i] = adapter[i] /\ upstream'[i] = upstream[i]
        BY <1>1, <2>2 DEF ChangeModel, EditEngine, RemoveEngine, AddEngine, service,
           Probes!ChangeList, Probes!ReplaceAdapter
      <4>3. QED
        BY <4>1, <4>2
    <3>5. QED
      BY <3>3, <3>4 DEF Waits
  <2>3. QED
    BY <1>3, <2>1, <2>2 DEF Changes
<1>4. ASSUME NEW q \in Requests,
             RejectEmpty(q) \/ LoadIndex(q) \/ BuildFirst(q) \/ selectEngine(q)
      PROVE  \/ Waits(r) \/ Done(r)
             \/ LoadIndex(r) \/ BuildFirst(r) \/ UseBuild(r) \/ RecheckMiss(r)
  <2>1. UNCHANGED <<service, registered>>
    BY <1>4 DEF RejectEmpty, LoadIndex, BuildFirst, selectEngine, UseBuild, RouteHit,
       RecheckMiss, RouteMiss, adminVars
  <2>2. CASE RejectEmpty(q) \/ RouteHit(q) \/ RouteMiss(q)
    BY <2>1, <2>2, VerdictEnds DEF RejectEmpty, RouteHit, RouteMiss, Verdicts
  <2>3. CASE LoadIndex(q) \/ BuildFirst(q) \/ UseBuild(q) \/ RecheckMiss(q)
    <3>1. CASE q = r
      BY <2>3, <3>1
    <3>2. CASE q # r
      <4>1. request'[r] = request[r]
        BY <1>1, <2>3, <3>2 DEF LoadIndex, BuildFirst, UseBuild, RecheckMiss
      <4>2. QED
        BY <2>1, <4>1 DEF Waits, service
    <3>3. QED
      BY <3>1, <3>2
  <2>4. QED
    BY <1>4, <2>2, <2>3 DEF selectEngine
<1>5. QED
  BY <1>2, <1>3, <1>4 DEF Next, Act, BuildStep, LaunchProbes, ReturnIndex, CutShort,
     CollectProbe, Reclaim, ExpireIndex, EndRefresh, Boot, AdminStep, DropProbes,
     Changes, Probes!InvalidateProbes, invalidateRouteIndex, Kick, service, adminVars, vars

LEMMA ReferredStep ==
  ASSUME TypeInv, TypeInv', Referred, [Next]_vars
  PROVE  Referred'
<1> USE DEF Referred
<1>1. routeIndexPtr' # Nil => build'[routeIndexPtr'.build].pc = "ready"
  <2> SUFFICES ASSUME routeIndexPtr' # Nil PROVE build'[routeIndexPtr'.build].pc = "ready"
    OBVIOUS
  <2>1. CASE \E k \in Builds : Stores(k)
    <3>1. PICK k \in Builds : Stores(k)
      BY <2>1
    <3>2. routeIndexPtr'.build = k
      BY <3>1 DEF Stores, Index
    <3>3. build'[k].pc = "ready"
      <4>1. k \in DOMAIN build /\ build[k] \in BuildRuns
        BY DEF TypeInv, TypeOK
      <4>2. QED
        BY <3>1, <4>1 DEF Stores, ReturnIndex, CutShort, SortIndex, BuildRuns
    <3>4. QED
      BY <3>2, <3>3
  <2>2. CASE routeIndexPtr' = routeIndexPtr \/ Ages
    <3>1. routeIndexPtr # Nil /\ routeIndexPtr'.build = routeIndexPtr.build
      BY <2>2 DEF Ages
    <3>2. routeIndexPtr.build \in Builds /\ build[routeIndexPtr.build].pc = "ready"
      BY <3>1 DEF TypeInv
    <3>3. ~Garbage(routeIndexPtr.build)
      BY <3>1 DEF Garbage
    <3>4. QED
      BY <3>1, <3>2, <3>3, BuildStays
  <2>3. QED
    BY <2>1, <2>2, PointerMoves
<1>2. ASSUME NEW r \in Requests
      PROVE  /\ request'[r].pc \in {"look", "building"} =>
                  /\ request'[r].idx.build \in Builds
                  /\ build'[request'[r].idx.build].pc # "free"
             /\ request'[r].pc = "look" => build'[request'[r].idx.build].pc = "ready"
  <2>1. ~Garbage(request[r].idx.build)
    BY DEF Garbage
  <2>2. request \in [Requests -> RequestRuns] /\ build \in [Builds -> BuildRuns]
    BY DEF TypeInv, TypeOK
  <2>3. CASE Waits(r)
    BY <2>1, <2>3, BuildStays DEF Waits
  <2>4. CASE Done(r)
    BY <2>4 DEF Done, Verdicts
  <2>5. CASE LoadIndex(r)
    <3>1. request'[r].idx = routeIndexPtr /\ routeIndexPtr # Nil
      BY <2>2, <2>5 DEF LoadIndex
    <3>2. routeIndexPtr.build \in Builds /\ build[routeIndexPtr.build].pc = "ready"
      BY <3>1 DEF TypeInv
    <3>3. ~Garbage(routeIndexPtr.build)
      BY <3>1 DEF Garbage
    <3>4. build'[routeIndexPtr.build].pc = "ready"
      BY <3>2, <3>3, BuildStays
    <3>5. QED
      BY <3>1, <3>2, <3>4
  <2>6. CASE BuildFirst(r) \/ RecheckMiss(r)
    <3>1. PICK k \in Builds : build' = Started(k) /\ request'[r].pc = "building"
                              /\ request'[r].idx = Index(k, "fresh")
      BY <2>2, <2>6 DEF BuildFirst, RecheckMiss, RequestRuns
    <3>2. build'[k].pc = "gen"
      BY <2>2, <3>1 DEF Started, NoBuild
    <3>3. QED
      BY <3>1, <3>2 DEF Index
  <2>7. CASE UseBuild(r)
    <3>1. /\ request[r].pc = "building" /\ build[request[r].idx.build].pc = "ready"
          /\ request'[r].idx = request[r].idx
      BY <2>2, <2>7 DEF UseBuild, RequestRuns
    <3>2. QED
      BY <2>1, <3>1, BuildStays
  <2>8. QED
    BY <2>3, <2>4, <2>5, <2>6, <2>7, RequestMoves
<1>3. QED
  BY <1>1, <1>2

LEMMA BuildInvStep ==
  ASSUME TypeInv, TypeInv', BuildInv, [Next]_vars
  PROVE  BuildInv'
BY ShapeStep, ReferredStep DEF BuildInv

LEMMA BuildInvInit == Init => BuildInv
<1> SUFFICES ASSUME Init PROVE BuildInv
  OBVIOUS
<1>1. ASSUME NEW k \in Builds PROVE BuildShape(k)
  <2>1. /\ build[k].pc = "free" /\ build[k].byModel = <<>> /\ build[k].late = {}
        /\ \A e \in Engines : build[k].saw[e] = {}
    BY DEF Init, NoBuild
  <2>2. \A e \in Engines : ask[<<k, e>>] = Probes!Idle
    BY DEF Init, Probes!ServiceInit
  <2>3. ToSet(build[k].byModel) = {} /\ IdsOf(k) = {}
    BY <2>1 DEF ToSet, IdsOf
  <2>4. QED
    BY <2>1, <2>2, <2>3 DEF BuildShape
<1>2. Referred
  BY SMTT(30) DEF Init, NoRequest, Referred
<1>3. QED
  BY <1>1, <1>2 DEF BuildInv
-----------------------------------------------------------------------------
(* Fresh indexes are current.                                              *)

\* invalidateRouteIndex is the only step that settles anything.
LEMMA SettledMoves ==
  ASSUME TypeInv, [Next]_vars
  PROVE  \/ /\ settled'.engines \subseteq settled.engines
            /\ settled'.lists = settled.lists /\ settled'.oldest = settled.oldest
            /\ routeGen' = routeGen
         \/ /\ settled' = dropped /\ routeGen' = routeGen + 1
            /\ UNCHANGED <<build, service>>
            /\ routeIndexPtr' # Nil => Stale(routeIndexPtr)'
<1>1. settled \in Covered
  BY DEF TypeInv, TypeOK
<1>2. CASE \E a \in Admins, e \in Engines : RemoveEngine(a, e)
  BY <1>1, <1>2 DEF RemoveEngine, indexVars, Covered
<1>3. CASE \E a \in Admins : invalidateRouteIndex(a)
  <2>1. routeIndexPtr \in Indexes \cup {Nil}
    BY DEF TypeInv, TypeOK
  <2>2. QED
    BY <1>3, <2>1 DEF invalidateRouteIndex, Stale, Indexes
<1>4. CASE UNCHANGED <<settled, routeGen>>
  BY <1>4
<1>5. QED
  BY <1>2, <1>3, <1>4, ZenonT(40) DEF Next, Act, BuildStep, LaunchProbes, CollectProbe, ReturnIndex,
     CutShort, Reclaim, ExpireIndex, EndRefresh, Boot, AdminStep, DropProbes, Kick,
     ChangeModel, EditEngine, PullNothing, AddEngine, RejectEmpty, LoadIndex, BuildFirst,
     selectEngine, UseBuild, RouteHit, RecheckMiss, RouteMiss, indexVars, adminVars, vars

\* What is settled or about to be is configured, and its lists are in the past.
LEMMA CoveredStep ==
  ASSUME TypeInv, TypeInv', FreshInv, [Next]_vars
  PROVE  /\ (settled.engines \subseteq registered)' /\ (dropped.engines \subseteq registered)'
         /\ \A e \in Engines :
              /\ Past(settled, e)' /\ Past(dropped, e)'
              /\ Before(floor, upstream, e)' /\ (oldest[e] <= adapter[e])'
<1>1. settled \in Covered /\ dropped \in Covered
  BY DEF TypeInv, TypeOK
<1>2. (settled.engines \subseteq registered)' /\ (dropped.engines \subseteq registered)'
  <2>1. CASE \E a \in Admins, e \in Engines : RemoveEngine(a, e)
    BY <1>1, <2>1 DEF RemoveEngine, Covered, FreshInv
  <2>2. CASE \E a \in Admins, e \in Engines : AddEngine(a, e)
    BY <2>2 DEF AddEngine, FreshInv
  <2>3. CASE \E a \in Admins : DropProbes(a)
    BY <2>3 DEF DropProbes, FreshInv
  <2>4. CASE \E a \in Admins : invalidateRouteIndex(a)
    BY <2>4 DEF invalidateRouteIndex, FreshInv
  <2>5. CASE UNCHANGED <<registered, dropped, settled>>
    BY <2>5 DEF FreshInv
  <2>6. QED
    BY <2>1, <2>2, <2>3, <2>4, <2>5, ZenonT(40) DEF Next, Act, BuildStep, LaunchProbes, CollectProbe,
       ReturnIndex, CutShort, Reclaim, ExpireIndex, EndRefresh, Boot, AdminStep, Kick,
       ChangeModel, EditEngine, PullNothing, RejectEmpty, LoadIndex, BuildFirst, selectEngine,
       UseBuild, RouteHit, RecheckMiss, RouteMiss, adminVars, vars
<1>3. /\ \/ settled'.lists = settled.lists /\ settled'.oldest = settled.oldest
         \/ settled' = dropped
      /\ \/ dropped'.lists = dropped.lists /\ dropped'.oldest = dropped.oldest
         \/ dropped'.lists = floor' /\ dropped'.oldest = oldest'
  <2>1. CASE \E a \in Admins, e \in Engines : RemoveEngine(a, e)
    BY <1>1, <2>1 DEF RemoveEngine, Covered
  <2>2. CASE \E a \in Admins : DropProbes(a)
    BY <2>2 DEF DropProbes
  <2>3. CASE \E a \in Admins : invalidateRouteIndex(a)
    BY <2>3 DEF invalidateRouteIndex
  <2>4. CASE UNCHANGED <<dropped, settled>>
    BY <2>4
  <2>5. QED
    BY <2>1, <2>2, <2>3, <2>4, ZenonT(40) DEF Next, Act, BuildStep, LaunchProbes, CollectProbe,
       ReturnIndex, CutShort, Reclaim, ExpireIndex, EndRefresh, Boot, AdminStep, Kick,
       ChangeModel, EditEngine, PullNothing, AddEngine, RejectEmpty, LoadIndex, BuildFirst,
       selectEngine, UseBuild, RouteHit, RecheckMiss, RouteMiss, adminVars, vars
<1>4. ASSUME NEW e \in Engines, NEW a \in Probes!Adapters
      PROVE  /\ settled'.lists[e][a] <= floor'[e][a]
             /\ dropped'.lists[e][a] <= floor'[e][a]
             /\ floor'[e][a] <= upstream'[e][a]
  <2>1. /\ upstream[e][a] \in Nat /\ floor[e][a] \in Nat
        /\ settled.lists[e][a] \in Nat /\ dropped.lists[e][a] \in Nat
    BY ListTypes DEF TypeInv
  <2>2. /\ settled.lists[e][a] <= floor[e][a] /\ dropped.lists[e][a] <= floor[e][a]
        /\ floor[e][a] <= upstream[e][a]
    BY DEF FreshInv, Past, Before
  <2>3. /\ upstream'[e][a] \in Nat /\ upstream[e][a] <= upstream'[e][a]
        /\ floor'[e][a] \in {floor[e][a], upstream[e][a]}
    BY ListsGrow
  <2>4. /\ settled'.lists[e][a] \in {settled.lists[e][a], dropped.lists[e][a]}
        /\ dropped'.lists[e][a] \in {dropped.lists[e][a], floor'[e][a]}
    BY <1>3
  <2>5. QED
    BY <2>1, <2>2, <2>3, <2>4
<1>5. ASSUME NEW e \in Engines
      PROVE  /\ settled'.oldest[e] <= oldest'[e] /\ dropped'.oldest[e] <= oldest'[e]
             /\ oldest'[e] <= adapter'[e]
  <2>1. /\ adapter[e] \in Nat /\ oldest[e] \in Nat
        /\ settled.oldest[e] \in Nat /\ dropped.oldest[e] \in Nat
    BY ListTypes DEF TypeInv
  <2>2. /\ settled.oldest[e] <= oldest[e] /\ dropped.oldest[e] <= oldest[e]
        /\ oldest[e] <= adapter[e]
    BY DEF FreshInv, Past
  <2>3. /\ adapter'[e] \in Nat /\ oldest'[e] \in Nat
    BY ListsGrow, ListTypes DEF TypeInv
  <2>4. /\ adapter[e] <= adapter'[e] /\ oldest[e] <= oldest'[e]
        /\ oldest'[e] <= adapter[e] \/ oldest'[e] = oldest[e]
    BY ListsGrow
  <2>5. /\ settled'.oldest[e] \in {settled.oldest[e], dropped.oldest[e]}
        /\ dropped'.oldest[e] \in {dropped.oldest[e], oldest'[e]}
    BY <1>3
  <2>6. QED
    BY <2>1, <2>2, <2>3, <2>4, <2>5
<1>6. QED
  BY <1>2, <1>4, <1>5 DEF Past, Before

\* An index that may be published as fresh stays current: invalidations make
\* it unpublishable, and no other step adds to what is settled.
LEMMA CurrentStep ==
  ASSUME TypeInv, TypeInv', BuildInv, FreshInv, [Next]_vars,
         NEW k \in Builds, Publishable(k)'
  PROVE  UpToDate(k)'
<1>1. build[k].gen \in Nat /\ build[k].gen <= routeGen /\ routeGen \in Nat
  BY DEF TypeInv, TypeOK, BuildRuns
<1>2. /\ settled'.engines \subseteq settled.engines
      /\ settled'.lists = settled.lists /\ settled'.oldest = settled.oldest
      /\ routeGen' = routeGen
  <2> SUFFICES ASSUME routeGen' = routeGen + 1, UNCHANGED <<build, service>>,
                      routeIndexPtr' # Nil => Stale(routeIndexPtr)'
               PROVE  FALSE
    BY SettledMoves
  <2>1. build[k].gen = routeGen'
    BY DEF Publishable
  <2>2. QED
    BY <1>1, <2>1
<1>3. settled \in Covered
  BY DEF TypeInv, TypeOK
<1>4. routeIndexPtr # Nil /\ routeIndexPtr.build = k => build[k].pc = "ready"
  BY DEF BuildInv, Referred
<1>5. \/ build'[k].pc = "probing" /\ build'[k].gen = routeGen
      \/ routeIndexPtr' # Nil /\ routeIndexPtr'.build = k /\ ~Stale(routeIndexPtr)'
  BY <1>2 DEF Publishable
<1>6. ASSUME routeIndexPtr' # Nil, routeIndexPtr'.build = k, ~Stale(routeIndexPtr)'
      PROVE  Stores(k) \/ routeIndexPtr' = routeIndexPtr
  <2>1. ~Ages
    BY <1>6 DEF Ages, Stale
  <2>2. \A j \in Builds : Stores(j) => j = k
    BY <1>6 DEF Stores, Index
  <2>3. QED
    BY <2>1, <2>2, PointerMoves
<1>7. CASE LaunchProbes(k)
  <2>1. k \in DOMAIN build /\ build[k] \in BuildRuns
    BY DEF TypeInv, TypeOK
  <2>2. /\ build'[k].asked = registered
        /\ \A e \in Engines : build'[k].saw[e] = {}
    BY <1>7, <2>1 DEF LaunchProbes, BuildRuns, BuildInv, BuildShape
  <2>3. ASSUME NEW e \in settled.engines
        PROVE  /\ e \in registered
               /\ \A a \in Probes!Adapters : settled.lists[e][a] <= ask'[<<k, e>>].since[a]
    <3>1. e \in Engines /\ e \in registered
      BY <1>3, <2>3 DEF Covered, FreshInv
    <3>2. <<k, e>> \in DOMAIN ask /\ <<k, e>>[1] = k /\ <<k, e>>[2] = e
      BY <3>1 DEF TypeInv, TypeOK, Probes!ServiceTypeOK
    <3>3. ask'[<<k, e>>].since = floor[e]
      BY <1>7, <3>1, <3>2 DEF LaunchProbes, Probes!Pending
    <3>4. QED
      BY <3>1, <3>3 DEF FreshInv, Past, Before
  <2>4. QED
    BY <1>2, <1>3, <2>2, <2>3 DEF UpToDate, Covered
<1>8. ASSUME NEW e \in Engines, CollectProbe(k, e) PROVE UpToDate(k)'
  <2>1. PICK b : /\ b = build'[k]
                 /\ \/ b = build[k]
                    \/ \E seen \in SUBSET Probes!Sightings :
                         /\ \A v \in seen : /\ oldest[e] <= v.via
                                            /\ ask[<<k, e>>].since[v.via] <= v.version
                         /\ b = Collected(k, e, seen)
    BY <1>8, CollectFrame
  <2>2. /\ b.pc = build[k].pc /\ b.gen = build[k].gen /\ b.asked = build[k].asked
        /\ \A i \in Engines \ {e} : b.saw[i] = build[k].saw[i]
        /\ \A v \in b.saw[e] :
             \/ v \in build[k].saw[e]
             \/ /\ v \in Probes!Sightings /\ oldest[e] <= v.via
                /\ ask[<<k, e>>].since[v.via] <= v.version
    <3>1. ASSUME NEW seen \in SUBSET Probes!Sightings
          PROVE  LET c == Collected(k, e, seen)
                 IN /\ c.pc = build[k].pc /\ c.gen = build[k].gen /\ c.asked = build[k].asked
                    /\ c.saw[e] = seen
                    /\ \A i \in Engines \ {e} : c.saw[i] = build[k].saw[i]
      BY CollectedFields
    <3>2. CASE b = build[k]
      BY <3>2
    <3>3. CASE b # build[k]
      <4>1. PICK seen \in SUBSET Probes!Sightings :
              /\ \A v \in seen : oldest[e] <= v.via /\ ask[<<k, e>>].since[v.via] <= v.version
              /\ b = Collected(k, e, seen)
        BY <2>1, <3>3
      <4>2. /\ b.pc = build[k].pc /\ b.gen = build[k].gen /\ b.asked = build[k].asked
            /\ b.saw[e] = seen
            /\ \A i \in Engines \ {e} : b.saw[i] = build[k].saw[i]
        BY <3>1, <4>1
      <4>3. QED
        BY <4>1, <4>2
    <3>4. QED
      BY <3>2, <3>3
  <2>3. UpToDate(k)
    <3>1. routeIndexPtr' = routeIndexPtr
      BY <1>8 DEF CollectProbe, indexVars
    <3>2. Publishable(k)
      BY <1>5, <2>1, <2>2, <3>1 DEF Publishable, Stale
    <3>3. QED
      BY <3>2 DEF FreshInv
  <2>4. ASSUME NEW i \in settled.engines
        PROVE  /\ i \in b.asked
               /\ \A v \in b.saw[i] :
                    settled.oldest[i] <= v.via /\ settled.lists[i][v.via] <= v.version
               /\ ask'[<<k, i>>] # Probes!Idle =>
                    \A a \in Probes!Adapters : settled.lists[i][a] <= ask'[<<k, i>>].since[a]
    <3>1. /\ i \in build[k].asked
          /\ \A v \in build[k].saw[i] :
               settled.oldest[i] <= v.via /\ settled.lists[i][v.via] <= v.version
          /\ ask[<<k, i>>] # Probes!Idle =>
               \A a \in Probes!Adapters : settled.lists[i][a] <= ask[<<k, i>>].since[a]
      BY <2>3 DEF UpToDate
    <3>2. i \in Engines
      BY <1>3, <2>4 DEF Covered
    <3>3. CASE i = e
      <4>1. /\ ask[<<k, e>>] # Probes!Idle /\ ask[<<k, e>>].since \in Probes!Lists
            /\ ask'[<<k, e>>] = Probes!Idle
        BY <1>8, CollectFrame
      <4>2. ASSUME NEW v \in Probes!Sightings, oldest[e] <= v.via,
                   ask[<<k, e>>].since[v.via] <= v.version
            PROVE  settled.oldest[e] <= v.via /\ settled.lists[e][v.via] <= v.version
        <5>1. v.via \in Probes!Adapters /\ v.version \in Nat
          BY DEF Probes!Sightings
        <5>2. /\ settled.oldest[e] \in Nat /\ oldest[e] \in Nat /\ v.via \in Nat
              /\ settled.lists[e][v.via] \in Nat
          BY <5>1, ListTypes DEF TypeInv
        <5>3. ask[<<k, e>>].since[v.via] \in Nat
          BY <4>1, <5>1 DEF Probes!Lists
        <5>4. settled.oldest[e] <= oldest[e]
          BY DEF FreshInv, Past
        <5>5. settled.lists[e][v.via] <= ask[<<k, e>>].since[v.via]
          BY <3>1, <3>3, <4>1, <5>1
        <5>6. settled.oldest[e] <= v.via
          BY <4>2, <5>2, <5>4
        <5>7. settled.lists[e][v.via] <= v.version
          BY <4>2, <5>1, <5>2, <5>3, <5>5
        <5>8. QED
          BY <5>6, <5>7
      <4>3. \A v \in b.saw[e] :
              settled.oldest[e] <= v.via /\ settled.lists[e][v.via] <= v.version
        BY <2>2, <3>1, <3>3, <4>2
      <4>4. QED
        BY <2>2, <3>1, <3>3, <4>1, <4>3
    <3>4. CASE i # e
      <4>1. /\ b.asked = build[k].asked /\ b.saw[i] = build[k].saw[i]
            /\ ask'[<<k, i>>] = ask[<<k, i>>]
        BY <1>8, <2>2, <3>2, <3>4, CollectFrame, ZenonT(40)
      <4>2. QED
        BY <3>1, <4>1
    <3>5. QED
      BY <3>3, <3>4
  <2>5. QED
    BY <1>2, <2>1, <2>4, Zenon DEF UpToDate
<1>9. CASE ReturnIndex(k) \/ CutShort(k)
  <2>1. k \in DOMAIN build /\ build[k] \in BuildRuns
    BY DEF TypeInv, TypeOK
  <2>2. /\ build'[k].pc = "ready" /\ build[k].pc = "probing"
        /\ build'[k].asked = build[k].asked /\ build'[k].saw = build[k].saw
        /\ ask' = ask
    BY <1>9, <2>1 DEF ReturnIndex, CutShort, SortIndex, BuildRuns, service
  <2>3. Stores(k)
    BY <1>4, <1>5, <1>6, <2>2
  <2>4. UpToDate(k)
    BY <2>2, <2>3 DEF Stores, Publishable, FreshInv
  <2>5. QED
    BY <1>2, <2>2, <2>4 DEF UpToDate
<1>10. CASE Same(k)
  <2>1. ~Stores(k)
    <3>1. k \in DOMAIN build /\ build[k] \in BuildRuns
      BY DEF TypeInv, TypeOK
    <3>2. ReturnIndex(k) \/ CutShort(k) => build'[k].pc # build[k].pc
      BY <3>1 DEF ReturnIndex, CutShort, SortIndex, BuildRuns
    <3>3. QED
      BY <1>10, <3>2 DEF Same, Stores
  <2>2. Publishable(k)
    BY <1>5, <1>6, <1>10, <2>1 DEF Same, Publishable, Stale
  <2>3. UpToDate(k)
    BY <2>2 DEF FreshInv
  <2>4. QED
    BY <1>2, <1>3, <1>10, <2>3 DEF UpToDate, Same, Covered
<1>11. CASE Starts(k)
  <2>1. build[k].pc = "free" /\ build'[k].pc = "gen" /\ routeIndexPtr' = routeIndexPtr
    BY <1>11 DEF Starts, Free, NoBuild, indexVars
  <2>2. QED
    BY <1>4, <1>5, <2>1
<1>12. CASE Reclaim(k)
  <2>1. build'[k].pc = "free" /\ routeIndexPtr' = routeIndexPtr
    BY <1>12 DEF Reclaim, NoBuild, indexVars, TypeInv, TypeOK
  <2>2. routeIndexPtr # Nil => routeIndexPtr.build # k
    BY <1>12 DEF Reclaim, Garbage
  <2>3. QED
    BY <1>5, <2>1, <2>2
<1>13. QED
  BY <1>7, <1>8, <1>9, <1>10, <1>11, <1>12, BuildMoves DEF Moves

LEMMA FreshInvStep ==
  ASSUME TypeInv, TypeInv', BuildInv, FreshInv, [Next]_vars
  PROVE  FreshInv'
<1>1. \A k \in Builds : Publishable(k)' => UpToDate(k)'
  BY CurrentStep
<1>2. QED
  BY <1>1, CoveredStep DEF FreshInv

LEMMA FreshInvInit == Init => FreshInv
<1> SUFFICES ASSUME Init PROVE FreshInv
  OBVIOUS
<1>1. /\ settled = [engines |-> Engines, lists |-> floor, oldest |-> oldest]
      /\ dropped = settled /\ registered = Engines
      /\ floor = upstream /\ oldest = adapter
  BY DEF Init, Probes!ServiceInit
<1>2. \A e \in Engines : adapter[e] = 0 /\ \A a \in Probes!Adapters : floor[e][a] = 0
  BY DEF Init, Probes!ServiceInit
<1>3. \A k \in Builds : ~Publishable(k)
  BY DEF Init, NoBuild, Publishable
<1>4. QED
  BY <1>1, <1>2, <1>3 DEF FreshInv, Past, Before
-----------------------------------------------------------------------------
(* What a request may count on.                                            *)

\* Neither e's server nor that server's list changes in this step.
Quiet(e) == adapter'[e] = adapter[e] /\ upstream'[e] = upstream[e]

\* While nothing changes there, e's answers stay current.
LEMMA SettledKept ==
  ASSUME TypeInv, [Next]_vars, NEW e \in Engines, Settled(e), Quiet(e)
  PROVE  Settled(e)' /\ Current(upstream, e)' = Current(upstream, e)
<1>1. /\ adapter[e] \in Nat /\ oldest[e] \in Nat
  BY ListTypes DEF TypeInv
<1>2. oldest'[e] \in Nat
  BY ListsGrow, ListTypes DEF TypeInv
<1>3. oldest[e] <= oldest'[e] /\ (oldest'[e] <= adapter[e] \/ oldest'[e] = oldest[e])
  BY ListsGrow
<1>4. oldest[e] = adapter[e]
  BY DEF Settled
<1>5. oldest'[e] = adapter'[e]
  BY <1>1, <1>2, <1>3, <1>4 DEF Quiet
<1>6. floor'[e] \in {floor[e], upstream[e]}
  BY ListsGrow
<1>7. floor'[e][adapter'[e]] = upstream'[e][adapter'[e]]
  BY <1>6 DEF Settled, Quiet
<1>8. QED
  BY <1>5, <1>7 DEF Settled, Quiet, Current

\* An index that was asked of e after e's last change goes on being so.
LEMMA AnswerableStep ==
  ASSUME TypeInv, TypeInv', BuildInv, [Next]_vars, NEW k \in Builds, NEW e \in Engines,
         ~Garbage(k), Answerable(k, e), e \in registered, Settled(e), Quiet(e)
  PROVE  Answerable(k, e)'
<1> DEFINE a == adapter[e]
           v == upstream[e][a]
<1>1. /\ a \in Probes!Adapters /\ a \in Nat /\ v \in Nat /\ floor[e][a] = v
      /\ oldest[e] = a
  BY ListTypes DEF TypeInv, Settled
<1>2. k \in DOMAIN build /\ build[k] \in BuildRuns
  BY DEF TypeInv, TypeOK
<1>3. /\ adapter'[e] = a /\ upstream'[e][adapter'[e]] = v
      /\ Current(upstream, e) = [via |-> a, version |-> v]
      /\ Current(upstream, e)' = [via |-> a, version |-> v]
  BY DEF Quiet, Current
<1>4. \/ build'[k].pc \notin {"probing", "ready"}
      \/ /\ e \in build'[k].asked
         /\ build'[k].saw[e] \subseteq {[via |-> a, version |-> v]}
         /\ ask'[<<k, e>>] # Probes!Idle => v <= ask'[<<k, e>>].since[a]
  <2>1. \/ build[k].pc \notin {"probing", "ready"}
        \/ /\ e \in build[k].asked
           /\ build[k].saw[e] \subseteq {[via |-> a, version |-> v]}
           /\ ask[<<k, e>>] # Probes!Idle => v <= ask[<<k, e>>].since[a]
    BY <1>3 DEF Answerable
  <2> HIDE DEF a, v
  <2>2. CASE Same(k)
    BY <2>1, <2>2 DEF Same
  <2>3. CASE Starts(k)
    BY <2>3 DEF Starts, NoBuild
  <2>4. CASE LaunchProbes(k)
    <3>1. build'[k].asked = registered /\ build'[k].saw[e] = {}
      BY <1>2, <2>4 DEF LaunchProbes, BuildRuns, BuildInv, BuildShape
    <3>2. <<k, e>> \in DOMAIN ask /\ <<k, e>>[1] = k /\ <<k, e>>[2] = e
      BY DEF TypeInv, TypeOK, Probes!ServiceTypeOK
    <3>3. ask'[<<k, e>>].since = floor[e]
      BY <2>4, <3>2 DEF LaunchProbes, Probes!Pending
    <3>4. QED
      BY <1>1, <3>1, <3>3
  <2>5. ASSUME NEW i \in Engines, CollectProbe(k, i)
        PROVE  \/ build'[k].pc \notin {"probing", "ready"}
               \/ /\ e \in build'[k].asked
                  /\ build'[k].saw[e] \subseteq {[via |-> a, version |-> v]}
                  /\ ask'[<<k, e>>] # Probes!Idle => v <= ask'[<<k, e>>].since[a]
    <3>1. CASE build'[k] = build[k]
      <4>1. ask'[<<k, e>>] # Probes!Idle => ask'[<<k, e>>] = ask[<<k, e>>]
        BY <2>5, CollectFrame
      <4>2. QED
        BY <2>1, <3>1, <4>1
    <3>2. CASE build'[k] # build[k]
      <4>1. PICK seen \in SUBSET Probes!Sightings :
              /\ \A s \in seen : /\ oldest[i] <= s.via /\ s.via <= adapter[i]
                                 /\ ask[<<k, i>>].since[s.via] <= s.version
                                 /\ s.version <= upstream[i][s.via]
              /\ build'[k] = Collected(k, i, seen)
        BY <2>5, <3>2, CollectFrame
      <4>2. LET c == Collected(k, i, seen)
            IN /\ c.pc = build[k].pc /\ c.asked = build[k].asked /\ c.saw[i] = seen
               /\ \A j \in Engines \ {i} : c.saw[j] = build[k].saw[j]
        BY CollectedFields
      <4>3. /\ build'[k].pc = build[k].pc /\ build'[k].asked = build[k].asked
            /\ build'[k].saw[i] = seen
            /\ \A j \in Engines \ {i} : build'[k].saw[j] = build[k].saw[j]
        BY <4>1, <4>2
      <4>4. /\ ask[<<k, i>>] # Probes!Idle /\ ask[<<k, i>>].since \in Probes!Lists
            /\ ask'[<<k, i>>] = Probes!Idle
            /\ \A j \in Engines \ {i} : ask'[<<k, j>>] = ask[<<k, j>>]
        BY <2>5, CollectFrame
      <4>5. CASE i # e
        BY <2>1, <4>3, <4>4, <4>5
      <4>6. CASE i = e /\ build[k].pc \in {"probing", "ready"}
        <5>1. v <= ask[<<k, e>>].since[a] /\ ask[<<k, e>>].since[a] \in Nat
          BY <1>1, <2>1, <4>4, <4>6 DEF Probes!Lists
        <5>2. ASSUME NEW s \in seen PROVE s = [via |-> a, version |-> v]
          <6>1. s = [via |-> s.via, version |-> s.version]
                /\ s.via \in Probes!Adapters /\ s.version \in Nat
            BY DEF Probes!Sightings
          <6>2. s.via \in Nat
            BY <6>1, ListTypes DEF TypeInv
          <6>3. s.via = a
            BY <1>1, <4>1, <4>6, <6>2 DEF a
          <6>4. ask[<<k, e>>].since[a] <= s.version /\ s.version <= v
            BY <4>1, <4>6, <6>3 DEF a, v
          <6>5. s.version = v
            BY <1>1, <5>1, <6>1, <6>4
          <6>6. QED
            BY <6>1, <6>3, <6>5
        <5>3. QED
          BY <2>1, <4>3, <4>4, <4>6, <5>2
      <4>7. QED
        BY <4>3, <4>5, <4>6
    <3>3. QED
      BY <3>1, <3>2
  <2>6. CASE ReturnIndex(k) \/ CutShort(k)
    <3>1. /\ build[k].pc = "probing" /\ ask' = ask
          /\ build'[k].asked = build[k].asked /\ build'[k].saw = build[k].saw
      BY <1>2, <2>6 DEF ReturnIndex, CutShort, SortIndex, BuildRuns, service
    <3>2. QED
      BY <2>1, <3>1
  <2>7. QED
    BY <2>2, <2>3, <2>4, <2>5, <2>6, BuildMoves DEF Moves, Reclaim
<1>5. QED
  BY <1>3, <1>4 DEF Answerable

\* What a request may count on when it arrives.
LEMMA OwedFacts ==
  ASSUME TypeInv, FreshInv, NEW e \in Owed
  PROVE  /\ e \in Engines /\ e \in registered /\ e \in settled.engines
         /\ Holds(e, Current(upstream, e)) /\ Settled(e)
         /\ settled.oldest[e] = adapter[e]
         /\ settled.lists[e][adapter[e]] = upstream[e][adapter[e]]
<1>1. /\ e \in Engines /\ e \in registered /\ e \in settled.engines
      /\ settled.oldest[e] = adapter[e]
      /\ Current(upstream, e) = Current(settled.lists, e)
      /\ Holds(e, Current(upstream, e))
  BY DEF Owed, TypeInv, TypeOK
<1>2. settled.lists[e][adapter[e]] = upstream[e][adapter[e]]
  BY <1>1 DEF Current
<1>3. /\ adapter[e] \in Probes!Adapters /\ adapter[e] \in Nat /\ oldest[e] \in Nat
      /\ floor[e][adapter[e]] \in Nat /\ upstream[e][adapter[e]] \in Nat
  BY <1>1, ListTypes DEF TypeInv
<1>4. /\ settled.oldest[e] <= oldest[e] /\ oldest[e] <= adapter[e]
      /\ settled.lists[e][adapter[e]] <= floor[e][adapter[e]]
      /\ floor[e][adapter[e]] <= upstream[e][adapter[e]]
  BY <1>1, <1>3 DEF FreshInv, Past, Before
<1>5. oldest[e] = adapter[e] /\ floor[e][adapter[e]] = upstream[e][adapter[e]]
  BY <1>1, <1>2, <1>3, <1>4
<1>6. QED
  BY <1>1, <1>2, <1>5 DEF Settled

\* A fresh index was asked of all that a request may count on.
LEMMA FreshAnswers ==
  ASSUME TypeInv, BuildInv, FreshInv, NEW e \in Owed, NEW k \in Builds, UpToDate(k)
  PROVE  Answerable(k, e)
<1> DEFINE a == adapter[e]
<1>1. /\ e \in Engines /\ e \in settled.engines
      /\ settled.oldest[e] = a /\ settled.lists[e][a] = upstream[e][a]
  BY OwedFacts
<1>2. a \in Probes!Adapters /\ a \in Nat /\ upstream[e][a] \in Nat
  BY <1>1, ListTypes DEF TypeInv
<1>3. /\ e \in build[k].asked
      /\ ask[<<k, e>>] # Probes!Idle => upstream[e][a] <= ask[<<k, e>>].since[a]
  BY <1>1, <1>2 DEF UpToDate
<1>4. ASSUME NEW s \in build[k].saw[e] PROVE s = Current(upstream, e)
  <2>1. s \in Probes!Sightings /\ s.via <= a /\ s.version <= upstream[e][s.via]
    BY <1>1 DEF BuildInv, BuildShape, Seen
  <2>2. settled.oldest[e] <= s.via /\ settled.lists[e][s.via] <= s.version
    BY <1>1 DEF UpToDate
  <2>3. s = [via |-> s.via, version |-> s.version]
        /\ s.via \in Probes!Adapters /\ s.version \in Nat
    BY <2>1 DEF Probes!Sightings
  <2>4. s.via \in Nat
    BY <1>1, <2>3, ListTypes DEF TypeInv
  <2>5. s.via = a
    BY <1>1, <1>2, <2>1, <2>2, <2>4
  <2>6. s.version <= upstream[e][a] /\ upstream[e][a] <= s.version
    BY <1>1, <2>1, <2>2, <2>5
  <2>7. s.version = upstream[e][a]
    BY <1>2, <2>3, <2>6
  <2>8. QED
    BY <2>3, <2>5, <2>7 DEF Current
<1>5. QED
  BY <1>3, <1>4 DEF Answerable

LEMMA OwedStep ==
  ASSUME TypeInv, TypeInv', BuildInv, FreshInv, OwedInv, [Next]_vars
  PROVE  OwedInv'
<1> SUFFICES ASSUME NEW r \in Requests, NEW e \in request'[r].owed,
                    NEW k, k = request'[r].idx.build
             PROVE  /\ e \in registered'
                    /\ Holds(e, Current(upstream, e)') /\ Settled(e)'
                    /\ request'[r].pc = "building"
                         \/ (request'[r].pc = "look" /\ ~Stale(request'[r].idx))
                         => Answerable(k, e)'
  BY DEF OwedInv, Stale, Answerable, Holds
<1>1. e \in Engines /\ request \in [Requests -> RequestRuns]
  BY DEF TypeInv, TypeOK, RequestRuns
<1>2. ASSUME e \in registered', Holds(e, Current(upstream, e)), Settled(e), Quiet(e)
      PROVE  e \in registered' /\ Holds(e, Current(upstream, e)') /\ Settled(e)'
  BY <1>1, <1>2, SettledKept
<1>3. ~Garbage(request[r].idx.build)
  BY DEF Garbage
<1>4. CASE Waits(r)
  <2>1. e \in request[r].owed
    BY <1>4 DEF Waits
  <2>2. e \in registered /\ Holds(e, Current(upstream, e)) /\ Settled(e)
    BY <2>1 DEF OwedInv
  <2>3. e \in registered' /\ Quiet(e)
    BY <1>4, <2>2 DEF Waits, Quiet
  <2>4. ASSUME \/ request'[r].pc = "building"
               \/ request'[r].pc = "look" /\ ~Stale(request'[r].idx)
        PROVE  Answerable(k, e)'
    <3>1. request[r].idx.build = k /\ k \in Builds /\ ~Garbage(k)
      BY <1>3, <1>4, <2>4 DEF Waits, BuildInv, Referred
    <3>2. Answerable(k, e)
      BY <1>4, <2>1, <2>4, <3>1 DEF Waits, OwedInv
    <3>3. QED
      BY <1>1, <2>2, <2>3, <3>1, <3>2, AnswerableStep
  <2>5. QED
    BY <1>2, <2>2, <2>3, <2>4
<1>5. CASE Done(r)
  BY <1>5 DEF Done
<1>6. CASE LoadIndex(r)
  <2>1. /\ request'[r].owed = Owed /\ request'[r].idx = routeIndexPtr
        /\ request'[r].pc = "look" /\ routeIndexPtr # Nil
        /\ registered' = registered /\ Quiet(e)
    BY <1>1, <1>6 DEF LoadIndex, service, adminVars, Quiet
  <2>2. e \in registered /\ Holds(e, Current(upstream, e)) /\ Settled(e)
    BY <2>1, OwedFacts
  <2>3. ASSUME ~Stale(routeIndexPtr) PROVE Answerable(k, e)'
    <3>1. k = routeIndexPtr.build
      BY <2>1
    <3>2. k \in Builds /\ ~Garbage(k)
      BY <2>1, <3>1 DEF TypeInv, Garbage
    <3>3. UpToDate(k)
      BY <2>1, <2>3, <3>1, <3>2 DEF FreshInv, Publishable
    <3>4. Answerable(k, e)
      BY <2>1, <3>2, <3>3, FreshAnswers
    <3>5. QED
      BY <1>1, <2>1, <2>2, <3>2, <3>4, AnswerableStep
  <2>4. QED
    BY <1>2, <2>1, <2>2, <2>3
<1>7. CASE BuildFirst(r) \/ RecheckMiss(r)
  <2>1. PICK j \in Builds : /\ build' = Started(j) /\ request'[r].idx = Index(j, "fresh")
                            /\ request'[r].owed \in {Owed, request[r].owed}
                            /\ registered' = registered /\ Quiet(e)
    BY <1>1, <1>7, SMTT(30)
       DEF BuildFirst, RecheckMiss, RequestRuns, service, adminVars, Quiet
  <2>2. e \in registered /\ Holds(e, Current(upstream, e)) /\ Settled(e)
    BY <2>1, OwedFacts DEF OwedInv
  <2>3. k = j
    BY <2>1 DEF Index
  <2>4. build'[k].pc = "gen"
    BY <2>1, <2>3 DEF Started, NoBuild, TypeInv, TypeOK
  <2>5. Answerable(k, e)'
    BY <2>4 DEF Answerable
  <2>6. QED
    BY <1>2, <2>1, <2>2, <2>5
<1>8. CASE UseBuild(r)
  <2>1. /\ request'[r].owed = request[r].owed /\ request'[r].idx = request[r].idx
        /\ request[r].pc = "building"
        /\ registered' = registered /\ Quiet(e)
    BY <1>1, <1>8 DEF UseBuild, RequestRuns, service, adminVars, Quiet
  <2>2. k = request[r].idx.build
    BY <2>1
  <2>3. /\ e \in registered /\ Holds(e, Current(upstream, e)) /\ Settled(e)
        /\ Answerable(k, e)
    BY <2>1, <2>2 DEF OwedInv
  <2>4. k \in Builds /\ ~Garbage(k)
    BY <1>3, <2>1, <2>2 DEF BuildInv, Referred
  <2>5. Answerable(k, e)'
    BY <1>1, <2>1, <2>3, <2>4, AnswerableStep
  <2>6. QED
    BY <1>2, <2>1, <2>3, <2>5
<1>9. QED
  BY <1>4, <1>5, <1>6, <1>7, <1>8, RequestMoves, SMTT(30)

LEMMA OwedInit == Init => OwedInv
BY DEF Init, NoRequest, OwedInv

-----------------------------------------------------------------------------
(* The theorems.                                                           *)

LEMMA RouteInvariant == Spec => [](TypeInv /\ RouteInv)
<1>1. Init => TypeInv /\ RouteInv
  BY TypeInit, BuildInvInit, FreshInvInit, OwedInit DEF RouteInv
<1>2. TypeInv /\ RouteInv /\ [Next]_vars => TypeInv' /\ RouteInv'
  BY TypeStep, BuildInvStep, FreshInvStep, OwedStep DEF RouteInv
<1>3. QED
  BY <1>1, <1>2, PTL DEF Spec

\* An index served as fresh asked every engine that was configured when the
\* last change settled.  It shows no list from before that change, and no server
\* an engine had been moved away from by then, through edits and re-used ids,
\* except one whose adapter some goroutine still held (routing.go 66-72, 83-90,
\* 123-128 and 160-178).
THEOREM FreshIsCurrent == Spec => []FreshIndexIsCurrent
<1>1. TypeInv /\ RouteInv => FreshIndexIsCurrent
  <2> SUFFICES ASSUME TypeInv, RouteInv, routeIndexPtr # Nil, ~Stale(routeIndexPtr)
               PROVE  \A e \in registered \cap settled.engines :
                        /\ e \in build[routeIndexPtr.build].asked
                        /\ \A s \in build[routeIndexPtr.build].saw[e] :
                             /\ settled.oldest[e] <= s.via
                             /\ settled.lists[e][s.via] <= s.version
    BY DEF FreshIndexIsCurrent
  <2>1. routeIndexPtr.build \in Builds /\ Publishable(routeIndexPtr.build)
    BY DEF TypeInv, Publishable
  <2>2. QED
    BY <2>1 DEF RouteInv, FreshInv, UpToDate
<1>2. QED
  BY <1>1, RouteInvariant, PTL

\* A request that looks takes its verdict by a hit or a miss.
LEMMA VerdictMoves ==
  ASSUME TypeInv, [Next]_vars, NEW r \in Requests,
         request[r].pc = "look", request'[r].pc \in Verdicts
  PROVE  RouteHit(r) \/ RouteMiss(r)
<1>1. request \in [Requests -> RequestRuns]
  BY DEF TypeInv, TypeOK
<1>2. request'[r].pc # request[r].pc
  BY DEF Verdicts
<1>3. ASSUME NEW a \in Admins, Changes(a) PROVE FALSE
  <2>1. request' = request
        \/ \E e \in Engines : request'[r] = [request[r] EXCEPT !.owed = @ \ {e}]
    BY <1>3 DEF Changes, ChangeModel, EditEngine, PullNothing, RemoveEngine, AddEngine,
       ExcuseEngine
  <2>2. QED
    BY <1>1, <1>2, <2>1 DEF RequestRuns
<1>4. PICK q \in Requests : RejectEmpty(q) \/ LoadIndex(q) \/ BuildFirst(q) \/ selectEngine(q)
  BY <1>2, <1>3, ZenonT(40) DEF Next, Act, BuildStep, LaunchProbes, ReturnIndex, CutShort,
     CollectProbe, Reclaim, ExpireIndex, EndRefresh, Boot, AdminStep, DropProbes,
     invalidateRouteIndex, Kick, Changes, vars
<1>5. q = r
  <2>1. \E new : request' = [request EXCEPT ![q] = new]
    BY <1>4 DEF RejectEmpty, LoadIndex, BuildFirst, selectEngine, UseBuild, RouteHit,
       RecheckMiss, RouteMiss, Verdict
  <2>2. QED
    BY <1>1, <1>2, <2>1
<1>6. ~RejectEmpty(r) /\ ~LoadIndex(r) /\ ~BuildFirst(r) /\ ~UseBuild(r)
  BY DEF RejectEmpty, LoadIndex, BuildFirst, UseBuild, Resting, Verdicts
<1>7. ~RecheckMiss(r)
  BY <1>1 DEF RecheckMiss, Verdicts, RequestRuns
<1>8. QED
  BY <1>4, <1>5, <1>6, <1>7 DEF selectEngine

\* A request is refused with 404 only if every engine that held its model, with
\* that pull, edit or new engine settled before the request arrived, no older
\* adapter of the engine still held then and nothing changed since, was asked and
\* gave the index no list (routing.go 208-256).
THEOREM RefusalIsDeserved == Spec => NotFoundIsDeserved
<1>1. TypeInv /\ RouteInv /\ [Next]_vars =>
        \A r \in Requests :
          request[r].pc = "look" /\ request'[r].pc = "notFound" =>
            \A e \in request[r].owed :
              /\ e \in build[request[r].idx.build].asked
              /\ build[request[r].idx.build].saw[e] = {}
  <2> SUFFICES ASSUME TypeInv, RouteInv, [Next]_vars, NEW r \in Requests,
                      request[r].pc = "look", request'[r].pc = "notFound",
                      NEW e \in request[r].owed,
                      NEW k, k = request[r].idx.build
               PROVE  e \in build[k].asked /\ build[k].saw[e] = {}
    OBVIOUS
  <2>1. request \in [Requests -> RequestRuns] /\ e \in Engines
    BY DEF TypeInv, TypeOK, RequestRuns
  <2>2. RouteMiss(r)
    <3>1. RouteHit(r) => request'[r].pc = "routed"
      BY <2>1 DEF RouteHit, Verdict, NoRequest
    <3>2. QED
      BY <3>1, VerdictMoves DEF Verdicts
  <2>3. k \in Builds /\ build[k].pc = "ready" /\ build[k] \in BuildRuns
    BY DEF RouteInv, BuildInv, Referred, TypeInv, TypeOK
  <2>4. e \in registered /\ Holds(e, Current(upstream, e)) /\ Answerable(k, e)
    BY <2>2 DEF RouteMiss, RouteInv, OwedInv
  <2>5. e \in build[k].asked /\ build[k].saw[e] \subseteq {Current(upstream, e)}
    BY <2>3, <2>4 DEF Answerable
  <2>6. e \notin ToSet(build[k].byModel)
    BY <2>2, <2>4 DEF RouteMiss, Candidates, ToSet
  <2>7. e \notin IdsOf(k)
    BY <2>3, <2>6 DEF RouteInv, BuildInv, BuildShape
  <2>8. \A v \in build[k].saw[e] : ~Holds(e, v)
    BY <2>1, <2>7 DEF IdsOf
  <2>9. QED
    BY <2>4, <2>5, <2>8
<1>2. TypeInv /\ RouteInv /\ [Next]_vars =>
        [\A r \in Requests :
           request[r].pc = "look" /\ request'[r].pc = "notFound" =>
             LET b == build[request[r].idx.build] IN
               \A e \in request[r].owed : e \in b.asked /\ b.saw[e] = {}]_vars
  BY <1>1
<1>3. QED
  BY <1>2, RouteInvariant, PTL DEF Spec, NotFoundIsDeserved

\* Of the engines that reported the model before the build returned, the one
\* added first serves the request or gives way to one added earlier still: in
\* whatever order they answered, also when the build was cut short, and whatever
\* its late goroutines append meanwhile (routing.go 97-117 and 219-226).
THEOREM FirstAddedServes == Spec => FirstAddedWins
<1>1. TypeInv /\ RouteInv /\ [Next]_vars =>
        \A r \in Requests :
          request[r].pc = "look" /\ request'[r].pc = "routed" =>
            \A e \in (build[request[r].idx.build].asked \cap registered)
                       \ build[request[r].idx.build].late :
              Reported(build[request[r].idx.build], e) => request'[r].engine <= e
  <2> SUFFICES ASSUME TypeInv, RouteInv, [Next]_vars, NEW r \in Requests,
                      request[r].pc = "look", request'[r].pc = "routed",
                      NEW k, k = request[r].idx.build,
                      NEW e \in registered, e \notin build[k].late,
                      Reported(build[k], e)
               PROVE  request'[r].engine <= e
    OBVIOUS
  <2>1. request \in [Requests -> RequestRuns] /\ e \in Engines
    BY DEF TypeInv, TypeOK, RequestRuns
  <2>2. RouteHit(r)
    <3>1. RouteMiss(r) => request'[r].pc # "routed"
      BY <2>1 DEF RouteMiss, Verdict, NoRequest
    <3>2. QED
      BY <3>1, VerdictMoves DEF Verdicts
  <2>3. k \in Builds /\ build[k].pc = "ready" /\ build[k] \in BuildRuns
    BY DEF RouteInv, BuildInv, Referred, TypeInv, TypeOK
  <2>4. ToSet(build[k].byModel) = IdsOf(k) /\ Ordered(build[k].byModel, build[k].late)
    BY <2>3 DEF RouteInv, BuildInv, BuildShape
  <2>5. PICK i \in Candidates(request[r].idx) :
          /\ \A j \in Candidates(request[r].idx) : i <= j
          /\ Verdict(r, "routed", build[k].byModel[i])
    BY <2>2 DEF RouteHit
  <2>6. request'[r].engine = build[k].byModel[i]
    BY <2>1, <2>5 DEF Verdict, NoRequest
  <2>7. e \in IdsOf(k)
    BY <2>1 DEF IdsOf, Reported
  <2>8. PICK j \in DOMAIN build[k].byModel : build[k].byModel[j] = e
    BY <2>4, <2>7 DEF ToSet
  <2>9. i \in DOMAIN build[k].byModel /\ i <= j
    BY <2>5, <2>8 DEF Candidates
  <2>10. DOMAIN build[k].byModel \subseteq Nat /\ e \in Nat
    BY <2>1, <2>3, RouteAssumption DEF BuildRuns
  <2>11. i < j => build[k].byModel[i] < build[k].byModel[j]
    BY <2>4, <2>8, <2>9 DEF Ordered
  <2>12. i = j \/ i < j
    BY <2>9, <2>10
  <2>13. CASE i = j
    BY <2>6, <2>8, <2>10, <2>13
  <2>14. CASE i < j
    <3>1. build[k].byModel[i] < e
      BY <2>8, <2>11, <2>14
    <3>2. build[k].byModel[i] \in Engines
      BY <2>3, <2>9 DEF BuildRuns
    <3>3. build[k].byModel[i] \in Nat
      BY <3>2, RouteAssumption
    <3>4. QED
      BY <2>6, <2>10, <3>1, <3>3
  <2>15. QED
    BY <2>12, <2>13, <2>14
<1>2. TypeInv /\ RouteInv /\ [Next]_vars =>
        [\A r \in Requests :
           request[r].pc = "look" /\ request'[r].pc = "routed" =>
             LET b == build[request[r].idx.build] IN
               \A e \in (b.asked \cap registered) \ b.late :
                 Reported(b, e) => request'[r].engine <= e]_vars
  BY <1>1
<1>3. QED
  BY <1>2, RouteInvariant, PTL DEF Spec, FirstAddedWins
=============================================================================
