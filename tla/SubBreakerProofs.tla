--------------------------- MODULE SubBreakerProofs ---------------------------
(***************************************************************************)
(* What the operators of SubBreaker do to a breaker, for every setting:    *)
(* the lemmas the proofs about the guard rest on.                          *)
(***************************************************************************)
EXTENDS SubBreaker, TLAPS

\* A breaker as the guard keeps it: what each state of one satisfies.
WellFormed(c, s) ==
  /\ s \in Breaker
  /\ s.probing => s.open /\ s.left = 0
  /\ s.open \/ s.left = 0
  /\ s.failures < c.threshold
  /\ IF c.grow THEN s.open <=> s.strikes > 0 ELSE s.strikes = 0

\* The doubled cooldown is never shorter than the base one (guard.go:188).
LEMMA DoubledAtLeast ==
  ASSUME NEW cooldown \in Nat, NEW strikes \in 1..4
  PROVE  Doubled(cooldown, strikes) \in Nat /\ Doubled(cooldown, strikes) >= cooldown
<1>1. CASE strikes = 1  BY <1>1 DEF Doubled
<1>2. CASE strikes = 2  BY <1>2 DEF Doubled
<1>3. CASE strikes = 3  BY <1>3 DEF Doubled
<1>4. CASE strikes = 4  BY <1>4 DEF Doubled
<1> QED BY <1>1, <1>2, <1>3, <1>4

\* A trip leaves the breaker open, with a fresh count and at least its cooldown
\* and the Retry-After ahead of it (guard.go:182-196).
LEMMA TripFacts ==
  ASSUME MaxSessionStrikes \in 1..4, NEW c \in Settings, NEW s \in Breaker,
         NEW retryAfter \in Nat
  PROVE  /\ Trip(c, s, retryAfter) \in Breaker
         /\ Trip(c, s, retryAfter).open
         /\ Trip(c, s, retryAfter).probing = s.probing
         /\ Trip(c, s, retryAfter).failures = 0
         /\ Trip(c, s, retryAfter).left >= c.cooldown
         /\ Trip(c, s, retryAfter).left >= retryAfter
         /\ c.grow => Trip(c, s, retryAfter).strikes > 0
         /\ ~c.grow => Trip(c, s, retryAfter).strikes = s.strikes
<1>1. NextStrike(s) \in 1..4 /\ NextStrike(s) \in 0..MaxSessionStrikes
  BY DEF NextStrike, Breaker
<1>2. c.cooldown \in Nat /\ c.grow \in BOOLEAN
  BY DEF Settings
<1>3. Doubled(c.cooldown, NextStrike(s)) \in Nat /\ Doubled(c.cooldown, NextStrike(s)) >= c.cooldown
  BY <1>1, <1>2, DoubledAtLeast
<1>4. CooldownAfterTrip(c, s) \in Nat /\ CooldownAfterTrip(c, s) >= c.cooldown
  BY <1>2, <1>3 DEF CooldownAfterTrip
<1>5. /\ StrikesAfterTrip(c, s) \in 0..MaxSessionStrikes
      /\ c.grow => StrikesAfterTrip(c, s) > 0
      /\ ~c.grow => StrikesAfterTrip(c, s) = s.strikes
  BY <1>1, <1>2 DEF StrikesAfterTrip, Breaker
<1>6. /\ LongerOf(CooldownAfterTrip(c, s), retryAfter) \in Nat
      /\ LongerOf(CooldownAfterTrip(c, s), retryAfter) >= c.cooldown
      /\ LongerOf(CooldownAfterTrip(c, s), retryAfter) >= retryAfter
  BY <1>2, <1>4 DEF LongerOf
<1> QED BY <1>2, <1>5, <1>6 DEF Trip, Breaker

\* close leaves a closed breaker with nothing counted (guard.go:198-203).
LEMMA CloseFacts ==
  ASSUME MaxSessionStrikes \in 1..4, NEW s \in Breaker
  PROVE  /\ Close(s) \in Breaker
         /\ ~Close(s).open
         /\ Close(s).probing = s.probing
         /\ Close(s).failures = 0 /\ Close(s).left = 0 /\ Close(s).strikes = 0
<1>1. 0 \in 0..MaxSessionStrikes
  OBVIOUS
<1> QED BY <1>1 DEF Close, Breaker

\* What a breaker r is after a result was reported to the breaker s: well-formed
\* and without a probe; only a resolved probe closes it, and its cooldown is the
\* old one or a whole new one.
Answered(c, s, r) ==
  /\ WellFormed(c, r)
  /\ ~r.probing
  /\ s.open /\ ~s.probing => r.open
  /\ r.open => (s.open /\ ~s.probing /\ r.left = s.left) \/ r.left >= c.cooldown

\* Every reported result does that (guard.go:175-214, 266-284).
LEMMA ReportFacts ==
  ASSUME MaxSessionStrikes \in 1..4, NEW c \in Settings, NEW s, WellFormed(c, s),
         NEW failed \in BOOLEAN, NEW clean \in BOOLEAN, NEW retryAfter \in Nat
  PROVE  Answered(c, s, Report(c, s, failed, clean, retryAfter))
<1> DEFINE r == Report(c, s, failed, clean, retryAfter)
           resolved == [s EXCEPT !.probing = FALSE]
<1>0. s \in Breaker /\ c.threshold \in Nat \ {0} /\ c.cooldown \in Nat \ {0} /\ c.grow \in BOOLEAN
  BY DEF WellFormed, Settings
<1>1. resolved \in Breaker /\ ~resolved.probing /\ resolved.strikes = s.strikes
  BY <1>0 DEF Breaker
<1>2. r = IF s.probing
          THEN IF failed THEN Trip(c, resolved, retryAfter) ELSE Close(resolved)
          ELSE IF failed THEN Fail(c, s, retryAfter)
          ELSE IF clean THEN [s EXCEPT !.failures = 0]
          ELSE s
  BY DEF Report, ProbeResult
<1> SUFFICES Answered(c, s, r)
  OBVIOUS
<1> HIDE DEF r, resolved
<1>3. CASE s.probing /\ failed
  <2>1. r = Trip(c, resolved, retryAfter)
    BY <1>2, <1>3
  <2>2. /\ r \in Breaker /\ r.open /\ ~r.probing /\ r.failures = 0
        /\ r.left >= c.cooldown
        /\ c.grow => r.strikes > 0
        /\ ~c.grow => r.strikes = s.strikes
    BY <2>1, <1>1, TripFacts
  <2> QED BY <1>0, <1>3, <2>2 DEF WellFormed, Answered
<1>4. CASE s.probing /\ ~failed
  <2>1. r = Close(resolved)
    BY <1>2, <1>4
  <2>2. /\ r \in Breaker /\ ~r.open /\ ~r.probing /\ r.failures = 0
        /\ r.left = 0 /\ r.strikes = 0
    BY <2>1, <1>1, CloseFacts
  <2> QED BY <1>0, <1>4, <2>2 DEF WellFormed, Answered
<1>5. CASE ~s.probing /\ failed /\ s.failures + 1 >= c.threshold
  <2>1. r = Trip(c, s, retryAfter)
    BY <1>2, <1>5 DEF Fail
  <2>2. /\ r \in Breaker /\ r.open /\ ~r.probing /\ r.failures = 0
        /\ r.left >= c.cooldown
        /\ c.grow => r.strikes > 0
        /\ ~c.grow => r.strikes = s.strikes
    <3>1. s \in Breaker /\ ~s.probing
      BY <1>0, <1>5
    <3> QED BY <2>1, <3>1, TripFacts
  <2> QED BY <1>0, <1>5, <2>2 DEF WellFormed, Answered
<1>6. CASE ~s.probing /\ failed /\ ~(s.failures + 1 >= c.threshold)
  <2>1. r = [s EXCEPT !.failures = s.failures + 1]
    BY <1>2, <1>6 DEF Fail
  <2> QED BY <1>0, <1>6, <2>1 DEF WellFormed, Answered, Breaker
<1>7. CASE ~s.probing /\ ~failed
  <2>1. r = [s EXCEPT !.failures = 0] \/ r = s
    BY <1>2, <1>7
  <2> QED BY <1>0, <1>7, <2>1 DEF WellFormed, Answered, Breaker
<1> QED BY <1>3, <1>4, <1>5, <1>6, <1>7

\* A tick keeps a breaker well-formed and only takes time off its cooldown.
LEMMA ElapseFacts ==
  ASSUME NEW c, NEW s, WellFormed(c, s)
  PROVE  /\ WellFormed(c, Elapse(s))
         /\ Elapse(s).open = s.open /\ Elapse(s).probing = s.probing
         /\ Elapse(s).left = IF s.left > 0 THEN s.left - 1 ELSE 0
BY DEF WellFormed, Elapse, Breaker
================================================================================
