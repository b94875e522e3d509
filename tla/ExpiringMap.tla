----------------------------- MODULE ExpiringMap -----------------------------
(***************************************************************************)
(* The bounded, expiring maps of the service: cache.TTLCache,              *)
(* cache.NegativeTTL and service.callerHealth keep their entries the same  *)
(* way and differ in whom they evict.                                      *)
(*                                                                         *)
(* A map m is a function from the keys that are in the Go map to the ticks *)
(* until the entry expires.  An entry is expired when the clock is AFTER   *)
(* its expiry, so one with 0 ticks left still counts; -1 is expired.       *)
(***************************************************************************)
EXTENDS Integers, FiniteSets, Functions

Empty == <<>>

Maps(Keys, ttl) == UNION {[K -> -1..ttl] : K \in SUBSET Keys}

Fresh(m, k)   == k \in DOMAIN m /\ m[k] >= 0
Expired(m, k) == k \in DOMAIN m /\ m[k] < 0

Delete(m, k) == Restrict(m, DOMAIN m \ {k})

\* What a lookup leaves behind: an expired entry is deleted on the way.
AfterLookup(m, k) == IF Expired(m, k) THEN Delete(m, k) ELSE m

\* Mutant of Put: an entry written again is extended from its old expiry.
PutExtending(m, k, ttl) ==
  [j \in DOMAIN m \cup {k} |->
     IF j # k THEN m[j] ELSE IF Fresh(m, k) THEN m[k] + ttl ELSE ttl]

Put(m, k, ttl) ==
  [j \in DOMAIN m \cup {k} |-> IF j = k THEN ttl ELSE m[j]]

DropExpired(m) == Restrict(m, {k \in DOMAIN m : m[k] >= 0})

\* The outcomes of evictLocked of NegativeTTL and callerHealth: the expired
\* entries go, then an arbitrary one if the map is still full.
EvictAny(m, max) ==
  LET kept == DropExpired(m)
  IN  IF Cardinality(DOMAIN kept) >= max
      THEN {Delete(kept, k) : k \in DOMAIN kept}
      ELSE {kept}

\* The outcomes of evictLocked of TTLCache: then one of the soonest to expire.
EvictSoonest(m, max) ==
  LET kept == DropExpired(m)
      soonest == {k \in DOMAIN kept : \A j \in DOMAIN kept : kept[k] <= kept[j]}
  IN  IF Cardinality(DOMAIN kept) >= max
      THEN {Delete(kept, k) : k \in soonest}
      ELSE {kept}

\* A new key makes room first when the map is full; a known one never does.
NeedsRoom(m, k, max) == k \notin DOMAIN m /\ Cardinality(DOMAIN m) >= max

\* The clock ticks.
Older(m) == [k \in DOMAIN m |-> IF m[k] >= 0 THEN m[k] - 1 ELSE -1]
================================================================================
