------------------------------ MODULE RateLimiter ------------------------------
(***************************************************************************)
(* The per-client rate limiter (internal/api/ratelimit.go), as operators   *)
(* on its two tables:                                                      *)
(*                                                                         *)
(*   buckets  : client -> the limiter it has, and when it was last looked  *)
(*              up                                                         *)
(*   limiters : id -> what is in a token bucket of golang.org/x/time/rate, *)
(*              in hundredths of a token                                   *)
(*                                                                         *)
(* limiterFor hands out the limiter and unlocks; Allow comes later, and by *)
(* then another client may have evicted the bucket from the map.  Time is  *)
(* in hundredths of a second; a bucket fills as time passes, which comes   *)
(* to what the package works out from the time of the last use.            *)
(***************************************************************************)
EXTENDS Integers, FiniteSets, Functions

CONSTANTS
  MaxKeys,  \* rateLimiterMaxKeys: 10000
  IdleTTL   \* rateLimiterIdleTTL: 10 minutes

ASSUME RateLimiterAssumption == MaxKeys \in Nat \ {0} /\ IdleTTL \in Nat \ {0}

Token == 100

Full(burst) == burst * Token

\* Mutant of Refilled: nothing stops a bucket from filling past the burst.
RefilledPastBurst(fill, rps, burst, elapsed) == fill + rps * elapsed

Refilled(fill, rps, burst, elapsed) ==
  LET more == fill + rps * elapsed
  IN IF more > Full(burst) THEN Full(burst) ELSE more

Allows(fill) == fill >= Token

------------------------------------------------------------------------------
Without(buckets, keys) == Restrict(buckets, DOMAIN buckets \ keys)

With(buckets, key, id, now) ==
  [k \in DOMAIN buckets \cup {key} |->
     IF k = key THEN [id |-> id, lastSeen |-> now] ELSE buckets[k]]

Idle(buckets, now) == {k \in DOMAIN buckets : buckets[k].lastSeen < now - IdleTTL}

\* What evictLocked may leave: without the idle ones and, if that is still too
\* many, without another one, whichever the map's iteration comes to first.
AfterEviction(buckets, now) ==
  LET rest == Without(buckets, Idle(buckets, now))
  IN IF Cardinality(DOMAIN rest) >= MaxKeys
     THEN {Without(rest, {k}) : k \in DOMAIN rest} ELSE {rest}

\* Mutant of Found: a bucket that is used again still counts as idle since
\* it was created.
FoundUnseen(buckets, key, now) == buckets

\* The client has a bucket, which is now seen.
Found(buckets, key, now) == [buckets EXCEPT ![key].lastSeen = now]

\* The tables limiterFor may leave: the client has a bucket in each.
LimiterFor(buckets, key, id, now) ==
  IF key \in DOMAIN buckets THEN {Found(buckets, key, now)}
  ELSE LET room == IF Cardinality(DOMAIN buckets) >= MaxKeys
                   THEN AfterEviction(buckets, now) ELSE {buckets}
       IN {With(rest, key, id, now) : rest \in room}
================================================================================
