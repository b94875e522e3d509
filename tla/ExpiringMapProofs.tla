--------------------------- MODULE ExpiringMapProofs ---------------------------
(***************************************************************************)
(* What the operators of ExpiringMap do to a map, for all keys, all times  *)
(* to live and every cap: the lemmas that the proofs about ServerLookup    *)
(* and CallerLookup rest on.  Each one names the map it starts from, m,    *)
(* and the one that comes of it, n.                                        *)
(***************************************************************************)
EXTENDS ExpiringMap, FiniteSetTheorems, TLAPS

------------------------------------------------------------------------------
(* Maps.                                                                    *)

LEMMA MapFacts ==
  ASSUME NEW Keys, NEW ttl \in Nat, NEW m \in Maps(Keys, ttl)
  PROVE  /\ DOMAIN m \subseteq Keys
         /\ m \in [DOMAIN m -> -1..ttl]
         /\ m = [k \in DOMAIN m |-> m[k]]
         /\ \A k \in DOMAIN m : m[k] \in -1..ttl
<1> PICK K \in SUBSET Keys : m \in [K -> -1..ttl]
  BY DEF Maps
<1>1. DOMAIN m = K
  OBVIOUS
<1> QED BY <1>1

LEMMA MapIntro ==
  ASSUME NEW Keys, NEW ttl \in Nat, NEW K \in SUBSET Keys, NEW m \in [K -> -1..ttl]
  PROVE  m \in Maps(Keys, ttl)
BY DEF Maps

LEMMA EmptyMap ==
  ASSUME NEW Keys, NEW ttl \in Nat, NEW n, n = Empty
  PROVE  n \in Maps(Keys, ttl) /\ DOMAIN n = {} /\ Cardinality(DOMAIN n) = 0
<1>1. DOMAIN n = {} /\ n \in [{} -> -1..ttl]
  BY DEF Empty
<1> QED BY <1>1, MapIntro, FS_EmptySet

\* A part of a map has fewer entries, and they are the same.
LEMMA RestrictFacts ==
  ASSUME NEW Keys, NEW ttl \in Nat, NEW m \in Maps(Keys, ttl), NEW S \in SUBSET DOMAIN m,
         NEW n, n = Restrict(m, S)
  PROVE  n \in Maps(Keys, ttl) /\ DOMAIN n = S /\ \A k \in S : n[k] = m[k]
<1>1. DOMAIN n = S /\ \A k \in S : n[k] = m[k]
  BY DEF Restrict
<1>2. n \in [S -> -1..ttl]
  BY MapFacts DEF Restrict
<1>3. S \in SUBSET Keys
  BY MapFacts
<1> QED BY <1>1, <1>2, <1>3, MapIntro

\* The caps are caps on the size of finite sets.
LEMMA MapFinite ==
  ASSUME NEW Keys, IsFiniteSet(Keys), NEW ttl \in Nat, NEW m \in Maps(Keys, ttl)
  PROVE  /\ IsFiniteSet(DOMAIN m) /\ Cardinality(DOMAIN m) \in Nat
         /\ \A S \in SUBSET DOMAIN m :
              Cardinality(S) \in Nat /\ Cardinality(S) <= Cardinality(DOMAIN m)
<1>1. IsFiniteSet(DOMAIN m)
  BY MapFacts, FS_Subset
<1> QED BY <1>1, FS_Subset, FS_CardinalityType

------------------------------------------------------------------------------
(* Lookups, deletions and the clock never add an entry.                     *)

LEMMA DeleteFacts ==
  ASSUME NEW Keys, NEW ttl \in Nat, NEW m \in Maps(Keys, ttl), NEW k,
         NEW n, n = Delete(m, k)
  PROVE  /\ n \in Maps(Keys, ttl)
         /\ \A j : j \in DOMAIN n <=> j \in DOMAIN m /\ j # k
         /\ \A j \in DOMAIN n : n[j] = m[j]
<1> DEFINE S == DOMAIN m \ {k}
<1>1. n = Restrict(m, S) /\ S \in SUBSET DOMAIN m
  BY DEF Delete
<1> HIDE DEF S
<1>2. n \in Maps(Keys, ttl) /\ DOMAIN n = S /\ \A j \in S : n[j] = m[j]
  BY <1>1, RestrictFacts
<1> QED BY <1>2 DEF S

LEMMA AfterLookupFacts ==
  ASSUME NEW Keys, NEW ttl \in Nat, NEW m \in Maps(Keys, ttl), NEW k,
         NEW n, n = AfterLookup(m, k)
  PROVE  /\ n \in Maps(Keys, ttl)
         /\ DOMAIN n \subseteq DOMAIN m
         /\ \A j \in DOMAIN m : j \notin DOMAIN n => m[j] < 0
         /\ \A j \in DOMAIN n : n[j] = m[j]
<1>1. CASE Expired(m, k)
  <2>1. n = Delete(m, k) /\ m[k] < 0
    BY <1>1 DEF AfterLookup, Expired
  <2> QED BY <2>1, DeleteFacts
<1>2. CASE ~Expired(m, k)
  BY <1>2 DEF AfterLookup
<1> QED BY <1>1, <1>2

LEMMA OlderFacts ==
  ASSUME NEW Keys, NEW ttl \in Nat, NEW m \in Maps(Keys, ttl),
         NEW n, n = Older(m)
  PROVE  /\ n \in Maps(Keys, ttl)
         /\ DOMAIN n = DOMAIN m
         /\ \A k \in DOMAIN m : n[k] = IF m[k] >= 0 THEN m[k] - 1 ELSE -1
<1>1. /\ DOMAIN n = DOMAIN m
      /\ \A k \in DOMAIN m : n[k] = IF m[k] >= 0 THEN m[k] - 1 ELSE -1
  BY DEF Older
<1>2. \A k \in DOMAIN m : (IF m[k] >= 0 THEN m[k] - 1 ELSE -1) \in -1..ttl
  BY MapFacts
<1>3. n \in [DOMAIN m -> -1..ttl]
  BY <1>2 DEF Older
<1> QED BY <1>1, <1>3, MapFacts, MapIntro

LEMMA PutFacts ==
  ASSUME NEW Keys, NEW ttl \in Nat, NEW m \in Maps(Keys, ttl), NEW k \in Keys,
         NEW n, n = Put(m, k, ttl)
  PROVE  /\ n \in Maps(Keys, ttl)
         /\ \A j : j \in DOMAIN n <=> j \in DOMAIN m \/ j = k
         /\ n[k] = ttl
         /\ \A j \in DOMAIN m \ {k} : n[j] = m[j]
<1>1. n \in [DOMAIN m \cup {k} -> -1..ttl]
  BY MapFacts DEF Put
<1>2. DOMAIN m \cup {k} \in SUBSET Keys
  BY MapFacts
<1>3. n \in Maps(Keys, ttl)
  BY <1>1, <1>2, MapIntro
<1> QED BY <1>3 DEF Put

------------------------------------------------------------------------------
(* Evictions.                                                               *)

LEMMA DropExpiredFacts ==
  ASSUME NEW Keys, NEW ttl \in Nat, NEW m \in Maps(Keys, ttl),
         NEW n, n = DropExpired(m)
  PROVE  /\ n \in Maps(Keys, ttl)
         /\ \A k : k \in DOMAIN n <=> k \in DOMAIN m /\ m[k] >= 0
         /\ \A k \in DOMAIN n : n[k] = m[k]
<1> DEFINE S == {k \in DOMAIN m : m[k] >= 0}
<1>1. n = Restrict(m, S) /\ S \in SUBSET DOMAIN m
  BY DEF DropExpired
<1> HIDE DEF S
<1>2. n \in Maps(Keys, ttl) /\ DOMAIN n = S /\ \A j \in S : n[j] = m[j]
  BY <1>1, RestrictFacts
<1> QED BY <1>2 DEF S

\* Whichever is evicted, it is one at most of those that had not expired, and
\* none unless the map is full of them.
LEMMA EvictAnyFacts ==
  ASSUME NEW Keys, IsFiniteSet(Keys), NEW ttl \in Nat, NEW m \in Maps(Keys, ttl),
         NEW max \in Nat \ {0}, Cardinality(DOMAIN m) <= max,
         NEW n \in EvictAny(m, max)
  PROVE  /\ n \in Maps(Keys, ttl)
         /\ \A k \in DOMAIN n : k \in DOMAIN m /\ m[k] >= 0 /\ n[k] = m[k]
         /\ Cardinality(DOMAIN n) < max
         /\ (\E k \in DOMAIN m : k \notin DOMAIN n /\ m[k] >= 0) => Cardinality(DOMAIN m) = max
<1>1. PICK fresh : fresh = DropExpired(m)
  OBVIOUS
<1>2. /\ fresh \in Maps(Keys, ttl)
      /\ \A k : k \in DOMAIN fresh <=> k \in DOMAIN m /\ m[k] >= 0
      /\ \A k \in DOMAIN fresh : fresh[k] = m[k]
  BY <1>1, DropExpiredFacts
<1>3. /\ IsFiniteSet(DOMAIN fresh) /\ Cardinality(DOMAIN fresh) \in Nat
      /\ Cardinality(DOMAIN fresh) <= Cardinality(DOMAIN m)
      /\ Cardinality(DOMAIN m) \in Nat
  BY <1>2, MapFinite
<1>4. n \in IF Cardinality(DOMAIN fresh) >= max
            THEN {Delete(fresh, k) : k \in DOMAIN fresh} ELSE {fresh}
  BY <1>1 DEF EvictAny
<1>5. CASE Cardinality(DOMAIN fresh) >= max
  <2> PICK k \in DOMAIN fresh : n = Delete(fresh, k)
    BY <1>4, <1>5
  <2>1. /\ n \in Maps(Keys, ttl)
        /\ \A j : j \in DOMAIN n <=> j \in DOMAIN fresh /\ j # k
        /\ \A j \in DOMAIN n : n[j] = fresh[j]
    BY <1>2, DeleteFacts
  <2>2. Cardinality(DOMAIN n) = Cardinality(DOMAIN fresh) - 1
    <3>1. DOMAIN n = DOMAIN fresh \ {k}
      BY <2>1
    <3> QED BY <1>3, <3>1, FS_RemoveElement
  <2> QED BY <1>2, <1>3, <1>5, <2>1, <2>2
<1>6. CASE ~(Cardinality(DOMAIN fresh) >= max)
  <2>1. n = fresh
    BY <1>4, <1>6
  <2> QED BY <1>2, <1>3, <1>6, <2>1
<1> QED BY <1>5, <1>6

\* TTLCache's eviction is one of these, and what it takes expires no later than
\* anything it leaves.
LEMMA EvictSoonestFacts ==
  ASSUME NEW Keys, IsFiniteSet(Keys), NEW ttl \in Nat, NEW m \in Maps(Keys, ttl),
         NEW max \in Nat \ {0}, NEW n \in EvictSoonest(m, max)
  PROVE  /\ n \in EvictAny(m, max)
         /\ \A k \in DOMAIN m : k \notin DOMAIN n /\ m[k] >= 0 =>
              \A j \in DOMAIN n : m[k] <= n[j]
<1>1. PICK fresh : fresh = DropExpired(m)
  OBVIOUS
<1>2. /\ fresh \in Maps(Keys, ttl)
      /\ \A k : k \in DOMAIN fresh <=> k \in DOMAIN m /\ m[k] >= 0
      /\ \A k \in DOMAIN fresh : fresh[k] = m[k]
  BY <1>1, DropExpiredFacts
<1> DEFINE soonest == {k \in DOMAIN fresh : \A j \in DOMAIN fresh : fresh[k] <= fresh[j]}
<1>3. /\ n \in IF Cardinality(DOMAIN fresh) >= max
               THEN {Delete(fresh, k) : k \in soonest} ELSE {fresh}
      /\ EvictAny(m, max) = IF Cardinality(DOMAIN fresh) >= max
                            THEN {Delete(fresh, k) : k \in DOMAIN fresh} ELSE {fresh}
  BY <1>1 DEF EvictSoonest, EvictAny
<1>4. CASE Cardinality(DOMAIN fresh) >= max
  <2> PICK k \in soonest : n = Delete(fresh, k)
    BY <1>3, <1>4
  <2>1. /\ \A j : j \in DOMAIN n <=> j \in DOMAIN fresh /\ j # k
        /\ \A j \in DOMAIN n : n[j] = fresh[j]
    BY <1>2, DeleteFacts
  <2>2. n \in EvictAny(m, max)
    BY <1>3, <1>4
  <2> QED BY <1>2, <2>1, <2>2
<1>5. CASE ~(Cardinality(DOMAIN fresh) >= max)
  <2>1. n = fresh /\ n \in EvictAny(m, max)
    BY <1>3, <1>5
  <2> QED BY <1>2, <2>1
<1> QED BY <1>4, <1>5

\* An entry is put where it was, or where there is room for it.
LEMMA PutKeepsCap ==
  ASSUME NEW Keys, IsFiniteSet(Keys), NEW ttl \in Nat, NEW m \in Maps(Keys, ttl),
         NEW max \in Nat, NEW k \in Keys, Cardinality(DOMAIN m) <= max,
         k \in DOMAIN m \/ Cardinality(DOMAIN m) < max,
         NEW n, n = Put(m, k, ttl)
  PROVE  Cardinality(DOMAIN n) <= max
<1>1. IsFiniteSet(DOMAIN m) /\ Cardinality(DOMAIN m) \in Nat
  BY MapFinite
<1>2. Cardinality(DOMAIN m \cup {k}) =
        IF k \in DOMAIN m THEN Cardinality(DOMAIN m) ELSE Cardinality(DOMAIN m) + 1
  BY <1>1, FS_AddElement
<1>3. DOMAIN n = DOMAIN m \cup {k}
  <2>1. \A j : j \in DOMAIN n <=> j \in DOMAIN m \/ j = k
    BY PutFacts
  <2> QED BY <2>1
<1> QED BY <1>1, <1>2, <1>3
================================================================================
