--------------------------- MODULE ServerLookupProofs ---------------------------
(***************************************************************************)
(* Theorems about the lookups on the server session, for any number of     *)
(* requests and profiles, all times to live and every cap.                 *)
(*                                                                         *)
(* Bounded is the invariant of the two maps, OneLeader that of             *)
(* singleflight's calls, and Current, which needs marks that do not        *)
(* outlive profiles, what makes a mark never newer than the profile.       *)
(***************************************************************************)
EXTENDS ServerLookup, ExpiringMapProofs

Bounded == TypeOK /\ SizesBounded

\* The call of an id belongs to the one request that leads it.
OneLeader ==
  /\ \A r \in Requests : pc[r] \in LeadPoints =>
       id[r] \in DOMAIN flights /\ flights[id[r]] = r
  /\ \A k \in DOMAIN flights : pc[flights[k]] \in LeadPoints /\ id[flights[k]] = k
  /\ \A r \in Requests : pc[r] = "waiting" => id[r] \in DOMAIN flights

\* The mark of an id whose last retrieval found the profile, which was not
\* evicted, is older than the profile in the cache, and a request that began
\* since then does not see it.
Current ==
  /\ \A k \in found \ evicted :
       Fresh(negative, k) => k \in DOMAIN cache /\ negative[k] <= cache[k]
  /\ \A r \in Requests : stillFound[r] /\ ~wasEvicted[r] =>
       /\ id[r] \in found \ evicted
       /\ pc[r] \in {"expire", "negative"} => ~Fresh(negative, id[r])

------------------------------------------------------------------------------
(* The maps.                                                                *)

\* A step of a request leaves the maps alone, but for these four.
LEMMA CacheSteps ==
  ASSUME NEW r \in Requests, Advance(r)
  PROVE  /\ cache' = cache \/ GetExpire(r) \/ Store(r)
         /\ negative' = negative \/ Pass(r) \/ Remember(r)
BY DEF Advance, GetHit, GetMiss, Refuse, Wait, Lead, GateRefuses, GateAdmits, Fetched,
       Return, GetExpire, Store, Pass, Remember

\* The fresh profiles that leave the cache in a step.
Displaced == {k \in DOMAIN cache \ DOMAIN cache' : cache[k] >= 0}

\* What a profile that is stored meets in the cache, and what it leaves.
LEMMA StoreFacts ==
  ASSUME Bounded, NEW r \in Requests, Store(r)
  PROVE  /\ cache' \in Maps(Ids, CacheTTL) /\ Cardinality(DOMAIN cache') <= MaxEntries
         /\ id[r] \in DOMAIN cache' /\ cache'[id[r]] = CacheTTL
         /\ \A k \in DOMAIN cache' : k # id[r] => k \in DOMAIN cache /\ cache'[k] = cache[k]
         /\ \A k \in DOMAIN cache : k \notin DOMAIN cache' /\ cache[k] >= 0 =>
              /\ id[r] \notin DOMAIN cache
              /\ \A j \in DOMAIN cache : j \in DOMAIN cache' => cache[j] >= cache[k]
         /\ found' = found \cup {id[r]} /\ stillFound' = stillFound
         /\ evicted' = (evicted \cup Displaced) \ {id[r]}
         /\ wasEvicted' = [q \in Requests |-> wasEvicted[q] \/ id[q] \in Displaced]
<1>1. /\ cache \in Maps(Ids, CacheTTL) /\ Cardinality(DOMAIN cache) <= MaxEntries
      /\ id[r] \in Ids /\ IsFiniteSet(Ids) /\ CacheTTL \in Nat /\ MaxEntries \in Nat \ {0}
  BY ServerLookupAssumption DEF Bounded, TypeOK, SizesBounded
<1>2. PICK kept \in IF NeedsRoom(cache, id[r], MaxEntries)
                    THEN EvictSoonest(cache, MaxEntries) ELSE {cache} :
        cache' = Put(kept, id[r], CacheTTL) /\ Found(id[r], kept)
  BY DEF Store
<1>3. /\ kept \in Maps(Ids, CacheTTL) /\ Cardinality(DOMAIN kept) <= MaxEntries
      /\ id[r] \in DOMAIN kept \/ Cardinality(DOMAIN kept) < MaxEntries
      /\ \A k \in DOMAIN kept : k \in DOMAIN cache /\ kept[k] = cache[k]
      /\ id[r] \in DOMAIN cache => id[r] \in DOMAIN kept
      /\ \A k \in DOMAIN cache : k \notin DOMAIN kept /\ cache[k] >= 0 =>
           /\ id[r] \notin DOMAIN cache
           /\ \A j \in DOMAIN kept : cache[k] <= kept[j]
  <2>1. CASE NeedsRoom(cache, id[r], MaxEntries)
    <3>1. kept \in EvictSoonest(cache, MaxEntries) /\ id[r] \notin DOMAIN cache
      BY <1>2, <2>1 DEF NeedsRoom
    <3>2. /\ kept \in EvictAny(cache, MaxEntries)
          /\ \A k \in DOMAIN cache : k \notin DOMAIN kept /\ cache[k] >= 0 =>
               \A j \in DOMAIN kept : cache[k] <= kept[j]
      BY <1>1, <3>1, EvictSoonestFacts
    <3>3. /\ kept \in Maps(Ids, CacheTTL) /\ Cardinality(DOMAIN kept) < MaxEntries
          /\ \A k \in DOMAIN kept : k \in DOMAIN cache /\ kept[k] = cache[k]
      BY <1>1, <3>2, EvictAnyFacts
    <3>4. Cardinality(DOMAIN kept) \in Nat
      BY <1>1, <3>3, MapFinite
    <3> QED BY <1>1, <3>1, <3>2, <3>3, <3>4
  <2>2. CASE ~NeedsRoom(cache, id[r], MaxEntries)
    <3>1. kept = cache /\ (id[r] \in DOMAIN cache \/ ~(Cardinality(DOMAIN cache) >= MaxEntries))
      BY <1>2, <2>2 DEF NeedsRoom
    <3>2. Cardinality(DOMAIN cache) \in Nat
      BY <1>1, MapFinite
    <3> QED BY <1>1, <3>1, <3>2
  <2> QED BY <2>1, <2>2
<1>4. /\ cache' \in Maps(Ids, CacheTTL)
      /\ \A k : k \in DOMAIN cache' <=> k \in DOMAIN kept \/ k = id[r]
      /\ cache'[id[r]] = CacheTTL
      /\ \A k \in DOMAIN kept \ {id[r]} : cache'[k] = kept[k]
  BY <1>1, <1>2, <1>3, PutFacts
<1>5. Cardinality(DOMAIN cache') <= MaxEntries
  BY <1>1, <1>2, <1>3, PutKeepsCap
<1>6. DOMAIN cache \ DOMAIN cache' = DOMAIN cache \ DOMAIN kept
  BY <1>3, <1>4
<1>7. /\ found' = found \cup {id[r]} /\ stillFound' = stillFound
      /\ evicted' = (evicted \cup Displaced) \ {id[r]}
      /\ wasEvicted' = [q \in Requests |-> wasEvicted[q] \/ id[q] \in Displaced]
  <2> DEFINE out == {j \in DOMAIN cache \ DOMAIN kept : cache[j] >= 0}
  <2>1. Displaced = out
    BY <1>6 DEF Displaced
  <2> QED BY <1>2, <2>1 DEF Found
<1>8. \A k \in DOMAIN cache' : k # id[r] => k \in DOMAIN cache /\ cache'[k] = cache[k]
  BY <1>3, <1>4
<1>9. \A k \in DOMAIN cache : k \notin DOMAIN cache' /\ cache[k] >= 0 =>
        /\ id[r] \notin DOMAIN cache
        /\ \A j \in DOMAIN cache : j \in DOMAIN cache' => cache[j] >= cache[k]
  <2> SUFFICES ASSUME NEW k \in DOMAIN cache, k \notin DOMAIN cache', cache[k] >= 0
               PROVE  /\ id[r] \notin DOMAIN cache
                      /\ \A j \in DOMAIN cache : j \in DOMAIN cache' => cache[j] >= cache[k]
    OBVIOUS
  <2>1. id[r] \notin DOMAIN cache /\ \A j \in DOMAIN kept : cache[k] <= kept[j]
    BY <1>3, <1>4
  <2>2. \A j \in DOMAIN cache : cache[j] \in Int
    BY <1>1, MapFacts
  <2>3. ASSUME NEW j \in DOMAIN cache, j \in DOMAIN cache' PROVE cache[j] >= cache[k]
    <3>1. j \in DOMAIN kept /\ kept[j] = cache[j]
      BY <2>1, <2>3, <1>3, <1>4
    <3> QED BY <2>1, <2>2, <3>1
  <2> QED BY <2>1, <2>3
<1> QED BY <1>4, <1>5, <1>7, <1>8, <1>9

\* A mark that is remembered, likewise.
LEMMA RememberFacts ==
  ASSUME Bounded, NEW r \in Requests, Remember(r)
  PROVE  /\ negative' \in Maps(Ids, NegativeTTL) /\ Cardinality(DOMAIN negative') <= MaxEntries
         /\ \A k \in DOMAIN negative' : k # id[r] =>
              k \in DOMAIN negative /\ negative'[k] = negative[k]
<1>1. /\ negative \in Maps(Ids, NegativeTTL) /\ Cardinality(DOMAIN negative) <= MaxEntries
      /\ id[r] \in Ids /\ IsFiniteSet(Ids) /\ NegativeTTL \in Nat /\ MaxEntries \in Nat \ {0}
  BY ServerLookupAssumption DEF Bounded, TypeOK, SizesBounded
<1>2. PICK kept \in IF NeedsRoom(negative, id[r], MaxEntries)
                    THEN EvictAny(negative, MaxEntries) ELSE {negative} :
        negative' = Put(kept, id[r], NegativeTTL)
  BY DEF Remember
<1>3. /\ kept \in Maps(Ids, NegativeTTL) /\ Cardinality(DOMAIN kept) <= MaxEntries
      /\ id[r] \in DOMAIN kept \/ Cardinality(DOMAIN kept) < MaxEntries
      /\ \A k \in DOMAIN kept : k \in DOMAIN negative /\ kept[k] = negative[k]
  <2>1. CASE NeedsRoom(negative, id[r], MaxEntries)
    <3>1. /\ kept \in Maps(Ids, NegativeTTL) /\ Cardinality(DOMAIN kept) < MaxEntries
          /\ \A k \in DOMAIN kept : k \in DOMAIN negative /\ kept[k] = negative[k]
      BY <1>1, <1>2, <2>1, EvictAnyFacts
    <3>2. Cardinality(DOMAIN kept) \in Nat
      BY <1>1, <3>1, MapFinite
    <3> QED BY <1>1, <3>1, <3>2
  <2>2. CASE ~NeedsRoom(negative, id[r], MaxEntries)
    <3>1. kept = negative
          /\ (id[r] \in DOMAIN negative \/ ~(Cardinality(DOMAIN negative) >= MaxEntries))
      BY <1>2, <2>2 DEF NeedsRoom
    <3>2. Cardinality(DOMAIN negative) \in Nat
      BY <1>1, MapFinite
    <3> QED BY <1>1, <3>1, <3>2
  <2> QED BY <2>1, <2>2
<1>4. /\ negative' \in Maps(Ids, NegativeTTL)
      /\ \A k : k \in DOMAIN negative' <=> k \in DOMAIN kept \/ k = id[r]
      /\ \A k \in DOMAIN kept \ {id[r]} : negative'[k] = kept[k]
  BY <1>1, <1>2, <1>3, PutFacts
<1>5. Cardinality(DOMAIN negative') <= MaxEntries
  BY <1>1, <1>2, <1>3, PutKeepsCap
<1>6. \A k \in DOMAIN negative' : k # id[r] => k \in DOMAIN negative /\ negative'[k] = negative[k]
  BY <1>3, <1>4
<1> QED BY <1>4, <1>5, <1>6

\* A map without some of its entries is no larger, and the clock adds none.
LEMMA SmallerMap ==
  ASSUME NEW ttl \in Nat, NEW m \in Maps(Ids, ttl), Cardinality(DOMAIN m) <= MaxEntries,
         NEW n, DOMAIN n \subseteq DOMAIN m
  PROVE  Cardinality(DOMAIN n) <= MaxEntries
<1>1. /\ DOMAIN n \in SUBSET DOMAIN m /\ Cardinality(DOMAIN m) \in Nat
      /\ MaxEntries \in Nat
      /\ \A S \in SUBSET DOMAIN m : Cardinality(S) \in Nat /\ Cardinality(S) <= Cardinality(DOMAIN m)
  BY ServerLookupAssumption, MapFinite
<1> QED BY <1>1

LEMMA MapsStayBounded ==
  ASSUME Bounded, [Next]_vars
  PROVE  /\ cache' \in Maps(Ids, CacheTTL) /\ Cardinality(DOMAIN cache') <= MaxEntries
         /\ negative' \in Maps(Ids, NegativeTTL) /\ Cardinality(DOMAIN negative') <= MaxEntries
<1>1. /\ cache \in Maps(Ids, CacheTTL) /\ Cardinality(DOMAIN cache) <= MaxEntries
      /\ negative \in Maps(Ids, NegativeTTL) /\ Cardinality(DOMAIN negative) <= MaxEntries
      /\ CacheTTL \in Nat /\ NegativeTTL \in Nat
  BY ServerLookupAssumption DEF Bounded, TypeOK, SizesBounded
<1>2. CASE UNCHANGED <<cache, negative>>
  BY <1>1, <1>2
<1>3. CASE Tick
  <2>1. cache' = Older(cache) /\ negative' = Older(negative)
    BY <1>3 DEF Tick
  <2>2. /\ cache' \in Maps(Ids, CacheTTL) /\ DOMAIN cache' = DOMAIN cache
        /\ negative' \in Maps(Ids, NegativeTTL) /\ DOMAIN negative' = DOMAIN negative
    BY <1>1, <2>1, OlderFacts
  <2> QED BY <1>1, <2>2
<1>4. ASSUME NEW r \in Requests, Advance(r)
      PROVE  cache' \in Maps(Ids, CacheTTL) /\ Cardinality(DOMAIN cache') <= MaxEntries
  <2>1. CASE GetExpire(r)
    <3>1. cache' = AfterLookup(cache, id[r])
      BY <2>1 DEF GetExpire
    <3>2. cache' \in Maps(Ids, CacheTTL) /\ DOMAIN cache' \subseteq DOMAIN cache
      BY <1>1, <3>1, AfterLookupFacts
    <3> QED BY <1>1, <3>2, SmallerMap
  <2>2. CASE Store(r)
    BY <2>2, StoreFacts
  <2> QED BY <1>1, <1>4, <2>1, <2>2, CacheSteps
<1>5. ASSUME NEW r \in Requests, Advance(r)
      PROVE  negative' \in Maps(Ids, NegativeTTL) /\ Cardinality(DOMAIN negative') <= MaxEntries
  <2>1. CASE Pass(r)
    <3>1. negative' = AfterLookup(negative, id[r])
      BY <2>1 DEF Pass
    <3>2. negative' \in Maps(Ids, NegativeTTL) /\ DOMAIN negative' \subseteq DOMAIN negative
      BY <1>1, <3>1, AfterLookupFacts
    <3> QED BY <1>1, <3>2, SmallerMap
  <2>2. CASE Remember(r)
    BY <2>2, RememberFacts
  <2> QED BY <1>1, <1>5, <2>1, <2>2, CacheSteps
<1>6. ASSUME NEW r \in Requests, NEW k \in Ids, Arrive(r, k) PROVE UNCHANGED <<cache, negative>>
  BY <1>6 DEF Arrive
<1> QED BY <1>2, <1>3, <1>4, <1>5, <1>6 DEF Next, vars

------------------------------------------------------------------------------
(* The requests.                                                            *)

\* The types of what is not a map.
Typed ==
  /\ DOMAIN flights \subseteq Ids
  /\ \A k \in DOMAIN flights : flights[k] \in Requests
  /\ pc \in [Requests -> Points]
  /\ id \in [Requests -> Ids]
  /\ answer \in [Requests -> Answers]
  /\ found \subseteq Ids /\ evicted \subseteq Ids
  /\ stillFound \in [Requests -> BOOLEAN] /\ wasEvicted \in [Requests -> BOOLEAN]

\* Another call is on record.
LEMMA LeadFacts ==
  ASSUME NEW r \in Requests, Lead(r)
  PROVE  /\ \A k : k \in DOMAIN flights' <=> k \in DOMAIN flights \/ k = id[r]
         /\ \A k \in DOMAIN flights' : flights'[k] = IF k = id[r] THEN r ELSE flights[k]
BY DEF Lead

\* The call is not on record any more.
LEMMA ReturnFacts ==
  ASSUME NEW r \in Requests, Return(r)
  PROVE  /\ \A k : k \in DOMAIN flights' <=> k \in DOMAIN flights /\ k # id[r]
         /\ \A k \in DOMAIN flights' : flights'[k] = flights[k]
<1> DEFINE S == DOMAIN flights \ {id[r]}
<1>1. flights' = [k \in S |-> flights[k]]
  BY DEF Return, Restrict
<1> HIDE DEF S
<1>2. DOMAIN flights' = S /\ \A k \in S : flights'[k] = flights[k]
  BY <1>1
<1> QED BY <1>2 DEF S

LEMMA StaysTyped ==
  ASSUME Bounded, [Next]_vars
  PROVE  Typed'
<1>0. Typed /\ DOMAIN cache \subseteq Ids
  BY ServerLookupAssumption, MapFacts DEF Bounded, TypeOK, Typed
<1> USE <1>0 DEF Typed, history
<1>1. CASE UNCHANGED vars
  BY <1>1 DEF vars
<1>2. CASE Tick
  BY <1>2 DEF Tick, history
<1>3. ASSUME NEW r \in Requests, NEW k \in Ids, Arrive(r, k) PROVE Typed'
  BY <1>3 DEF Arrive, Goto, Points, Answers
<1>4. ASSUME NEW r \in Requests, Advance(r) PROVE Typed'
  <2>1. CASE GetHit(r) \/ Refuse(r)
    BY <2>1 DEF GetHit, Refuse, Answer, Goto, Points, Answers
  <2>2. CASE GetMiss(r) \/ GetExpire(r) \/ Pass(r) \/ Wait(r)
    BY <2>2 DEF GetMiss, GetExpire, Pass, Wait, Goto, Points
  <2>3. CASE Lead(r)
    <3>1. \A k \in DOMAIN flights' : k \in Ids /\ flights'[k] \in Requests
      BY <2>3, LeadFacts
    <3> QED BY <2>3, <3>1 DEF Lead, Goto, Points
  <2>4. CASE GateRefuses(r) \/ GateAdmits(r)
    BY <2>4 DEF GateRefuses, GateAdmits, Goto, Points, Answers
  <2>5. ASSUME NEW a \in {"found", "missing", "fault"}, Fetched(r, a) PROVE Typed'
    BY <2>5 DEF Fetched, Goto, Points, Answers
  <2>6. CASE Remember(r)
    BY <2>6 DEF Remember, Missed, Goto, Points
  <2>7. CASE Store(r)
    <3>1. /\ found' \subseteq Ids /\ evicted' \subseteq Ids
          /\ stillFound' \in [Requests -> BOOLEAN] /\ wasEvicted' \in [Requests -> BOOLEAN]
      <4>1. PICK kept : Found(id[r], kept)
        BY <2>7 DEF Store
      <4> QED BY <4>1 DEF Found
    <3> QED BY <2>7, <3>1 DEF Store, Goto, Points
  <2>8. CASE Return(r)
    <3>1. \A k \in DOMAIN flights' : k \in Ids /\ flights'[k] \in Requests
      BY <2>8, ReturnFacts
    <3> QED BY <2>8, <3>1 DEF Return, Points, Answers
  <2> QED BY <1>4, <2>1, <2>2, <2>3, <2>4, <2>5, <2>6, <2>7, <2>8 DEF Advance
<1> QED BY <1>1, <1>2, <1>3, <1>4 DEF Next

LEMMA BoundedInit == Init => Bounded
<1> SUFFICES ASSUME Init PROVE Bounded
  OBVIOUS
<1>1. /\ cache \in Maps(Ids, CacheTTL) /\ Cardinality(DOMAIN cache) = 0
      /\ negative \in Maps(Ids, NegativeTTL) /\ Cardinality(DOMAIN negative) = 0
      /\ DOMAIN flights = {}
  BY ServerLookupAssumption, EmptyMap DEF Init
<1>2. Typed
  BY <1>1 DEF Typed, Init, Points, Answers
<1>3. MaxEntries \in Nat
  BY ServerLookupAssumption
<1> QED BY <1>1, <1>2, <1>3 DEF Bounded, TypeOK, SizesBounded, Typed

LEMMA BoundedStep == Bounded /\ [Next]_vars => Bounded'
<1> SUFFICES ASSUME Bounded, [Next]_vars PROVE Bounded'
  OBVIOUS
<1>1. Typed'
  BY StaysTyped
<1> QED BY <1>1, MapsStayBounded DEF Bounded, TypeOK, SizesBounded, Typed

\* The lookups and their requests are type correct.
THEOREM TypeCorrect == Spec => []TypeOK
<1>1. Bounded => TypeOK
  BY DEF Bounded
<1> QED BY <1>1, BoundedInit, BoundedStep, PTL DEF Spec

\* Neither map ever outgrows its cap (cache/ttl.go:58-86, negative.go:44-69).
THEOREM SizesAlwaysBounded == Spec => []SizesBounded
<1>1. Bounded => SizesBounded
  BY DEF Bounded
<1> QED BY <1>1, BoundedInit, BoundedStep, PTL DEF Spec

------------------------------------------------------------------------------
(* One retrieval per id.                                                    *)

\* A request that moves on alone, in or out of group.Do as it was, keeps the
\* calls on record true.
LEMMA MoveKeepsLeaders ==
  ASSUME Typed, OneLeader, NEW r \in Requests, NEW point, Goto(r, point),
         UNCHANGED <<flights, id>>,
         pc[r] \in LeadPoints <=> point \in LeadPoints,
         point = "waiting" => id[r] \in DOMAIN flights
  PROVE  OneLeader'
<1>1. \A q \in Requests : pc'[q] = IF q = r THEN point ELSE pc[q]
  BY DEF Goto, Typed
<1>2. \A q \in Requests : pc'[q] \in LeadPoints <=> pc[q] \in LeadPoints
  BY <1>1
<1>3. \A k \in DOMAIN flights : flights[k] \in Requests
  BY DEF Typed
<1> QED BY <1>1, <1>2, <1>3 DEF OneLeader

LEMMA LeadersStep ==
  ASSUME Typed, OneLeader, [Next]_vars
  PROVE  OneLeader'
<1> USE DEF LeadPoints
<1>1. CASE UNCHANGED <<flights, id, pc>>
  BY <1>1 DEF OneLeader
<1>2. ASSUME NEW r \in Requests, NEW k \in Ids, Arrive(r, k) PROVE OneLeader'
  <2>1. \A q \in Requests : /\ pc'[q] = IF q = r THEN "get" ELSE pc[q]
                            /\ id'[q] = IF q = r THEN k ELSE id[q]
    BY <1>2 DEF Arrive, Goto, Typed
  <2>2. pc[r] = "idle" /\ flights' = flights
    BY <1>2 DEF Arrive
  <2>3. \A j \in DOMAIN flights : flights[j] # r
    BY <2>2 DEF OneLeader
  <2>4. \A j \in DOMAIN flights : flights[j] \in Requests
    BY DEF Typed
  <2> QED BY <2>1, <2>2, <2>3, <2>4 DEF OneLeader
<1>3. ASSUME NEW r \in Requests, Lead(r) PROVE OneLeader'
  <2>1. \A q \in Requests : pc'[q] = IF q = r THEN "enter" ELSE pc[q]
    BY <1>3 DEF Lead, Goto, Typed
  <2>2. pc[r] = "group" /\ id[r] \notin DOMAIN flights /\ id' = id
    BY <1>3 DEF Lead
  <2>3. /\ \A k : k \in DOMAIN flights' <=> k \in DOMAIN flights \/ k = id[r]
        /\ \A k \in DOMAIN flights' : flights'[k] = IF k = id[r] THEN r ELSE flights[k]
    BY <1>3, LeadFacts
  <2>4. \A k \in DOMAIN flights : flights[k] \in Requests
    BY DEF Typed
  <2> QED BY <2>1, <2>2, <2>3, <2>4 DEF OneLeader
<1>4. ASSUME NEW r \in Requests, Return(r) PROVE OneLeader'
  <2>1. \A q \in Requests :
          pc'[q] = IF q = r \/ (pc[q] = "waiting" /\ id[q] = id[r]) THEN "idle" ELSE pc[q]
    BY <1>4 DEF Return
  <2>2. pc[r] = "return" /\ id' = id
    BY <1>4 DEF Return
  <2>3. /\ \A k : k \in DOMAIN flights' <=> k \in DOMAIN flights /\ k # id[r]
        /\ \A k \in DOMAIN flights' : flights'[k] = flights[k]
    BY <1>4, ReturnFacts
  <2>4. id[r] \in DOMAIN flights /\ flights[id[r]] = r
    BY <2>2 DEF OneLeader
  <2>5. ASSUME NEW q \in Requests, pc'[q] \in LeadPoints
        PROVE  id[q] \in DOMAIN flights' /\ flights'[id[q]] = q
    <3>1. q # r /\ pc[q] \in LeadPoints
      BY <2>1, <2>5
    <3>2. id[q] \in DOMAIN flights /\ flights[id[q]] = q
      BY <3>1 DEF OneLeader
    <3> QED BY <2>3, <2>4, <3>1, <3>2
  <2>6. ASSUME NEW k \in DOMAIN flights' PROVE pc'[flights'[k]] \in LeadPoints /\ id[flights'[k]] = k
    <3>1. /\ k \in DOMAIN flights /\ k # id[r] /\ flights'[k] = flights[k]
          /\ flights[k] \in Requests
      BY <2>3 DEF Typed
    <3>2. pc[flights[k]] \in LeadPoints /\ id[flights[k]] = k
      BY <3>1 DEF OneLeader
    <3> QED BY <2>1, <3>1, <3>2
  <2>7. \A q \in Requests : pc'[q] = "waiting" => id[q] \in DOMAIN flights'
    BY <2>1, <2>3 DEF OneLeader
  <2> QED BY <2>2, <2>5, <2>6, <2>7 DEF OneLeader
<1>5. ASSUME NEW r \in Requests, Advance(r), ~Lead(r), ~Return(r) PROVE OneLeader'
  <2>1. CASE GetHit(r) \/ Refuse(r)
    BY <2>1, MoveKeepsLeaders DEF GetHit, Refuse, Answer
  <2>2. CASE GetMiss(r)
    BY <2>2, MoveKeepsLeaders DEF GetMiss
  <2>3. CASE GetExpire(r) \/ Pass(r)
    BY <2>3, MoveKeepsLeaders DEF GetExpire, Pass
  <2>4. CASE Wait(r)
    BY <2>4, MoveKeepsLeaders DEF Wait
  <2>5. CASE GateRefuses(r) \/ GateAdmits(r)
    BY <2>5, MoveKeepsLeaders DEF GateRefuses, GateAdmits
  <2>6. ASSUME NEW a \in {"found", "missing", "fault"}, Fetched(r, a) PROVE OneLeader'
    BY <2>6, MoveKeepsLeaders DEF Fetched
  <2>7. CASE Remember(r) \/ Store(r)
    BY <2>7, MoveKeepsLeaders DEF Remember, Store
  <2> QED BY <1>5, <2>1, <2>2, <2>3, <2>4, <2>5, <2>6, <2>7 DEF Advance
<1>6. CASE Tick
  BY <1>1, <1>6 DEF Tick, history
<1> QED BY <1>1, <1>2, <1>3, <1>4, <1>5, <1>6 DEF Next, vars

\* Each id has one retrieval at most, and nobody waits for one that is over
\* (service/profile.go:164, golang.org/x/sync/singleflight).
THEOREM AlwaysOneRetrievalPerId == Spec => []OneRetrievalPerId
<1>1. Init => OneLeader
  <2> SUFFICES ASSUME Init PROVE OneLeader
    OBVIOUS
  <2>1. DOMAIN flights = {} /\ \A r \in Requests : pc[r] = "idle"
    BY DEF Init, Empty
  <2> QED BY <2>1 DEF OneLeader, LeadPoints
<1>2. Bounded => Typed
  BY DEF Bounded, TypeOK, Typed
<1>3. Bounded /\ OneLeader /\ [Next]_vars => OneLeader'
  BY <1>2, LeadersStep
<1>4. Bounded /\ OneLeader => OneRetrievalPerId
  BY <1>2 DEF Typed, OneLeader, OneRetrievalPerId
<1> QED BY <1>1, <1>3, <1>4, BoundedInit, BoundedStep, PTL DEF Spec

------------------------------------------------------------------------------
(* What the caches may forget and what they may say.                        *)

\* A fresh profile leaves the cache only to make room, and then as the soonest
\* to expire: never because of a lookup that saw its predecessor
\* (cache/ttl.go:47-53, 70-86).
THEOREM FreshProfilesAlwaysStay == Spec => FreshProfilesStay
<1> DEFINE Stay ==
      \A k \in DOMAIN cache \ DOMAIN cache' :
        cache[k] >= 0 =>
          /\ DOMAIN cache' \ DOMAIN cache # {}
          /\ \A j \in DOMAIN cache \cap DOMAIN cache' : cache[j] >= cache[k]
<1>1. Bounded /\ [Next]_vars => Stay
  <2> SUFFICES ASSUME Bounded, [Next]_vars PROVE Stay
    OBVIOUS
  <2>1. cache \in Maps(Ids, CacheTTL) /\ CacheTTL \in Nat
    BY ServerLookupAssumption DEF Bounded, TypeOK
  <2>2. CASE DOMAIN cache' = DOMAIN cache
    BY <2>2
  <2>3. ASSUME NEW r \in Requests, GetExpire(r) PROVE Stay
    <3>1. cache' = AfterLookup(cache, id[r])
      BY <2>3 DEF GetExpire
    <3>2. \A k \in DOMAIN cache : k \notin DOMAIN cache' => cache[k] < 0
      BY <2>1, <3>1, AfterLookupFacts
    <3>3. \A k \in DOMAIN cache : cache[k] \in Int
      BY <2>1, MapFacts
    <3> QED BY <3>2, <3>3
  <2>4. ASSUME NEW r \in Requests, Store(r) PROVE Stay
    <3>1. /\ id[r] \in DOMAIN cache'
          /\ \A k \in DOMAIN cache : k \notin DOMAIN cache' /\ cache[k] >= 0 =>
               /\ id[r] \notin DOMAIN cache
               /\ \A j \in DOMAIN cache : j \in DOMAIN cache' => cache[j] >= cache[k]
      BY <2>4, StoreFacts
    <3> QED BY <3>1
  <2>5. CASE Tick
    <3>1. cache' = Older(cache)
      BY <2>5 DEF Tick
    <3> QED BY <2>1, <2>2, <3>1, OlderFacts
  <2>6. ASSUME NEW r \in Requests, NEW k \in Ids, Arrive(r, k) PROVE Stay
    BY <2>2, <2>6 DEF Arrive
  <2> QED BY <2>2, <2>3, <2>4, <2>5, <2>6, CacheSteps DEF Next, vars
<1> QED BY <1>1, BoundedInit, BoundedStep, PTL DEF Spec, FreshProfilesStay

\* A request that moves on alone and leaves cache and marks as they are, keeps
\* Current, if it does not reach a point where it must not see its mark.
LEMMA MoveKeepsCurrent ==
  ASSUME Typed, Current, NEW r \in Requests, NEW point, Goto(r, point),
         UNCHANGED <<cache, negative, id, history>>,
         pc[r] \in {"expire", "negative"} \/ point \notin {"expire", "negative"}
  PROVE  Current'
<1>1. \A q \in Requests : pc'[q] = IF q = r THEN point ELSE pc[q]
  BY DEF Goto, Typed
<1> QED BY <1>1 DEF Current, Fresh, history

LEMMA CurrentStep ==
  ASSUME NegativeTTL <= CacheTTL, Bounded, Current, [Next]_vars
  PROVE  Current'
<1>1. /\ Typed /\ Typed'
      /\ cache \in Maps(Ids, CacheTTL) /\ negative \in Maps(Ids, NegativeTTL)
      /\ cache' \in Maps(Ids, CacheTTL) /\ negative' \in Maps(Ids, NegativeTTL)
      /\ CacheTTL \in Nat /\ NegativeTTL \in Nat
  BY ServerLookupAssumption, BoundedStep DEF Bounded, TypeOK, Typed
<1>2. /\ \A k \in DOMAIN cache : cache[k] \in -1..CacheTTL
      /\ \A k \in DOMAIN negative : negative[k] \in -1..NegativeTTL
  BY <1>1, MapFacts
<1>3. \A r \in Requests : id[r] \in Ids
  BY <1>1 DEF Typed
<1>4. CASE UNCHANGED vars
  BY <1>4 DEF Current, Fresh, history, vars
<1>5. CASE Tick
  <2>1. cache' = Older(cache) /\ negative' = Older(negative)
    BY <1>5 DEF Tick
  <2>2. /\ DOMAIN cache' = DOMAIN cache
        /\ \A k \in DOMAIN cache : cache'[k] = IF cache[k] >= 0 THEN cache[k] - 1 ELSE -1
        /\ DOMAIN negative' = DOMAIN negative
        /\ \A k \in DOMAIN negative :
             negative'[k] = IF negative[k] >= 0 THEN negative[k] - 1 ELSE -1
    BY <1>1, <2>1, OlderFacts
  <2>3. UNCHANGED <<pc, id, history>>
    BY <1>5 DEF Tick, history
  <2>4. ASSUME NEW k \in DOMAIN negative, negative'[k] >= 0
        PROVE  negative[k] >= 0 /\ negative'[k] = negative[k] - 1
    BY <1>2, <2>2, <2>4
  <2>5. ASSUME NEW k \in found' \ evicted', Fresh(negative, k)'
        PROVE  k \in DOMAIN cache' /\ negative'[k] <= cache'[k]
    <3>1. /\ k \in DOMAIN negative /\ negative[k] >= 0 /\ negative'[k] = negative[k] - 1
          /\ k \in found \ evicted
      BY <2>2, <2>3, <2>4, <2>5 DEF Fresh, history
    <3>2. k \in DOMAIN cache /\ negative[k] <= cache[k]
      BY <3>1 DEF Current, Fresh, history
    <3> QED BY <1>2, <2>2, <3>1, <3>2
  <2>6. ASSUME NEW r \in Requests, ~Fresh(negative, id[r]) PROVE ~Fresh(negative', id[r])
    BY <2>2, <2>4, <2>6 DEF Fresh
  <2> QED BY <2>3, <2>5, <2>6 DEF Current, Fresh, history
<1>6. ASSUME NEW r \in Requests, NEW k \in Ids, Arrive(r, k) PROVE Current'
  <2>1. \A q \in Requests :
          /\ pc'[q] = IF q = r THEN "get" ELSE pc[q]
          /\ id'[q] = IF q = r THEN k ELSE id[q]
          /\ stillFound'[q] = IF q = r THEN k \in found ELSE stillFound[q]
          /\ wasEvicted'[q] = IF q = r THEN k \in evicted ELSE wasEvicted[q]
    BY <1>1, <1>6 DEF Arrive, Goto, Typed
  <2>2. UNCHANGED <<cache, negative, found, evicted>>
    BY <1>6 DEF Arrive
  <2> QED BY <2>1, <2>2 DEF Current, Fresh, history
<1>7. ASSUME NEW r \in Requests, GetMiss(r) PROVE Current'
  <2>1. \A q \in Requests : q # r => pc'[q] = pc[q]
    BY <1>1, <1>7 DEF GetMiss, Goto, Typed
  <2>2. UNCHANGED <<cache, negative, id, history>> /\ ~Fresh(cache, id[r])
    BY <1>7 DEF GetMiss
  <2>3. ASSUME stillFound[r], ~wasEvicted[r] PROVE ~Fresh(negative, id[r])
    <3>1. Fresh(negative, id[r]) => id[r] \in DOMAIN cache /\ negative[id[r]] <= cache[id[r]]
      BY <2>3 DEF Current
    <3> QED BY <1>2, <2>2, <3>1 DEF Fresh
  <2> QED BY <2>1, <2>2, <2>3 DEF Current, Fresh, history
<1>8. ASSUME NEW r \in Requests, GetExpire(r) PROVE Current'
  <2>1. \A q \in Requests : pc'[q] = IF q = r THEN "negative" ELSE pc[q]
    BY <1>1, <1>8 DEF GetExpire, Goto, Typed
  <2>2. /\ UNCHANGED <<negative, id, history>> /\ pc[r] = "expire"
        /\ cache' = AfterLookup(cache, id[r])
    BY <1>8 DEF GetExpire
  <2>3. /\ \A j \in DOMAIN cache : j \notin DOMAIN cache' => cache[j] < 0
        /\ \A j \in DOMAIN cache' : cache'[j] = cache[j]
    BY <1>1, <2>2, AfterLookupFacts
  <2>4. ASSUME NEW k \in found \ evicted, Fresh(negative, k)
        PROVE  k \in DOMAIN cache' /\ negative[k] <= cache'[k]
    <3>1. k \in DOMAIN cache /\ negative[k] <= cache[k] /\ negative[k] >= 0
      BY <2>4 DEF Current, Fresh, history
    <3> QED BY <1>2, <2>3, <2>4, <3>1 DEF Fresh
  <2> QED BY <2>1, <2>2, <2>4 DEF Current, Fresh, history
<1>9. ASSUME NEW r \in Requests, Pass(r) PROVE Current'
  <2>1. \A q \in Requests : pc'[q] = IF q = r THEN "group" ELSE pc[q]
    BY <1>1, <1>9 DEF Pass, Goto, Typed
  <2>2. /\ UNCHANGED <<cache, id, history>>
        /\ negative' = AfterLookup(negative, id[r])
    BY <1>9 DEF Pass
  <2>3. \A j \in DOMAIN negative' : j \in DOMAIN negative /\ negative'[j] = negative[j]
    BY <1>1, <2>2, AfterLookupFacts
  <2> QED BY <2>1, <2>2, <2>3 DEF Current, Fresh, history
<1>10. ASSUME NEW r \in Requests, Remember(r) PROVE Current'
  <2>1. \A q \in Requests : pc'[q] = IF q = r THEN "return" ELSE pc[q]
    BY <1>1, <1>10 DEF Remember, Goto, Typed
  <2>2. /\ UNCHANGED <<cache, id, evicted, wasEvicted>> /\ found' = found \ {id[r]}
        /\ \A q \in Requests : stillFound'[q] = (stillFound[q] /\ id[q] # id[r])
    BY <1>10 DEF Remember, Missed
  <2>3. \A k \in DOMAIN negative' : k # id[r] =>
          k \in DOMAIN negative /\ negative'[k] = negative[k]
    BY <1>10, RememberFacts
  <2> QED BY <2>1, <2>2, <2>3 DEF Current, Fresh, history
<1>11. ASSUME NEW r \in Requests, Store(r) PROVE Current'
  <2>1. \A q \in Requests : pc'[q] = IF q = r THEN "return" ELSE pc[q]
    BY <1>1, <1>11 DEF Store, Goto, Typed
  <2>2. /\ id[r] \in DOMAIN cache' /\ cache'[id[r]] = CacheTTL
        /\ \A k \in DOMAIN cache' : k # id[r] => k \in DOMAIN cache /\ cache'[k] = cache[k]
        /\ found' = found \cup {id[r]} /\ stillFound' = stillFound
        /\ evicted' = (evicted \cup Displaced) \ {id[r]}
        /\ \A q \in Requests : wasEvicted'[q] = (wasEvicted[q] \/ id[q] \in Displaced)
    BY <1>11, StoreFacts
  <2>3. UNCHANGED <<negative, id>>
    BY <1>11 DEF Store
  <2>4. ASSUME NEW k \in found' \ evicted', Fresh(negative, k)
        PROVE  k \in DOMAIN cache' /\ negative[k] <= cache'[k]
    <3>1. CASE k = id[r]
      BY <1>1, <1>2, <2>2, <2>4, <3>1 DEF Fresh
    <3>2. CASE k # id[r]
      <4>1. k \in found \ evicted /\ k \notin Displaced
        BY <2>2, <3>2
      <4>2. k \in DOMAIN cache /\ negative[k] <= cache[k] /\ negative[k] >= 0
        BY <2>4, <4>1 DEF Current, Fresh
      <4>3. k \in DOMAIN negative /\ cache[k] >= 0
        BY <1>2, <2>4, <4>2 DEF Fresh
      <4>4. k \in DOMAIN cache'
        BY <4>1, <4>2, <4>3 DEF Displaced
      <4> QED BY <2>2, <3>2, <4>2, <4>4
    <3> QED BY <3>1, <3>2
  <2>5. ASSUME NEW q \in Requests, stillFound'[q], ~wasEvicted'[q]
        PROVE  /\ id[q] \in found' \ evicted'
               /\ pc'[q] \in {"expire", "negative"} => ~Fresh(negative, id[q])
    <3>1. stillFound[q] /\ ~wasEvicted[q] /\ id[q] \notin Displaced
      BY <2>2, <2>5
    <3>2. /\ id[q] \in found \ evicted
          /\ pc[q] \in {"expire", "negative"} => ~Fresh(negative, id[q])
      BY <3>1 DEF Current
    <3> QED BY <2>1, <2>2, <3>1, <3>2
  <2> QED BY <2>3, <2>4, <2>5 DEF Current, Fresh
<1>12. ASSUME NEW r \in Requests, Return(r) PROVE Current'
  <2>1. \A q \in Requests : pc'[q] = pc[q] \/ pc'[q] = "idle"
    BY <1>12 DEF Return
  <2>2. UNCHANGED <<cache, negative, id, history>>
    BY <1>12 DEF Return
  <2> QED BY <2>1, <2>2 DEF Current, Fresh, history
<1>13. ASSUME NEW r \in Requests,
              GetHit(r) \/ Refuse(r) \/ Wait(r) \/ Lead(r) \/ GateRefuses(r) \/ GateAdmits(r)
              \/ \E a \in {"found", "missing", "fault"} : Fetched(r, a)
       PROVE  Current'
  <2>1. CASE GetHit(r) \/ Refuse(r)
    BY <1>1, <2>1, MoveKeepsCurrent DEF GetHit, Refuse, Answer
  <2>2. CASE Wait(r) \/ Lead(r)
    BY <1>1, <2>2, MoveKeepsCurrent DEF Wait, Lead
  <2>3. CASE GateRefuses(r) \/ GateAdmits(r)
    BY <1>1, <2>3, MoveKeepsCurrent DEF GateRefuses, GateAdmits
  <2>4. ASSUME NEW a \in {"found", "missing", "fault"}, Fetched(r, a) PROVE Current'
    BY <1>1, <2>4, MoveKeepsCurrent DEF Fetched
  <2> QED BY <1>13, <2>1, <2>2, <2>3, <2>4
<1> QED BY <1>4, <1>5, <1>6, <1>7, <1>8, <1>9, <1>10, <1>11, <1>12, <1>13 DEF Next, Advance

\* A request that began after a retrieval had found the profile, with no newer
\* one that did not, is not told from an older mark that there is none, unless
\* the cache evicted that profile while it was fresh
\* (service/profile.go:151-161, 196-203, cache/ttl.go:62-86); if marks do not
\* outlive profiles.
THEOREM MissingAlwaysCurrent ==
  ASSUME NegativeTTL <= CacheTTL
  PROVE  Spec => MissingIsCurrent
<1> DEFINE Told == \A r \in Requests :
                     pc[r] = "negative" /\ pc'[r] = "idle" /\ stillFound[r] => wasEvicted[r]
<1>1. Init => Current
  BY DEF Init, Current, Empty, Fresh
<1>2. Bounded /\ Current /\ [Next]_vars => Told
  <2> SUFFICES ASSUME Bounded, Current, [Next]_vars,
                      NEW r \in Requests, pc[r] = "negative", pc'[r] = "idle"
               PROVE  stillFound[r] => wasEvicted[r]
    OBVIOUS
  <2>1. Refuse(r) /\ stillFound[r] => wasEvicted[r]
    BY DEF Refuse, Current
  <2>2. Typed
    BY DEF Bounded, TypeOK, Typed
  <2>3. ASSUME NEW q \in Requests, Advance(q) PROVE q = r /\ Refuse(r)
    <3>1. CASE q # r
      BY <2>2, <2>3, <3>1 DEF Typed, Advance, GetHit, GetMiss, GetExpire, Refuse, Pass, Wait,
         Lead, GateRefuses, GateAdmits, Fetched, Remember, Store, Return, Answer, Goto
    <3>2. CASE q = r
      BY <2>2, <2>3, <3>2 DEF Typed, Advance, GetHit, GetMiss, GetExpire, Refuse, Pass, Wait,
         Lead, GateRefuses, GateAdmits, Fetched, Remember, Store, Return, Answer, Goto
    <3> QED BY <3>1, <3>2
  <2>4. ASSUME NEW q \in Requests, NEW k \in Ids, Arrive(q, k) PROVE FALSE
    BY <2>2, <2>4 DEF Typed, Arrive, Goto
  <2>5. ~Tick /\ ~UNCHANGED vars
    BY DEF Tick, history, vars
  <2> QED BY <2>1, <2>3, <2>4, <2>5 DEF Next
<1>3. Bounded /\ Current /\ [Next]_vars => (Bounded /\ Current)'
  BY BoundedStep, CurrentStep
<1> QED BY <1>1, <1>2, <1>3, BoundedInit, PTL DEF Spec, MissingIsCurrent
================================================================================
