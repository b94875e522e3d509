------------------------------ MODULE SubBreaker ------------------------------
(***************************************************************************)
(* The three-state circuit breaker of internal/upstream/guard.go (type     *)
(* subBreaker), as operators on records.  A breaker's settings c are the   *)
(* fields the code never assigns after New:                                *)
(*                                                                         *)
(*   threshold : consecutive failures that open it                         *)
(*   cooldown  : ticks it stays open for                                   *)
(*   grow      : whether the cooldown doubles on successive trips          *)
(*                                                                         *)
(* and its state s is                                                      *)
(*                                                                         *)
(*   failures  : consecutive failures, counted while it is not probing     *)
(*   strikes   : successive trips of a growing breaker                     *)
(*   left      : the rest of the cooldown, in ticks (openUntil - now, never*)
(*               below 0); it means something only while open              *)
(*   open      : openUntil is set                                          *)
(*   probing   : a call was let through as the probe and nothing has       *)
(*               resolved it yet                                           *)
(*                                                                         *)
(* The code sets openUntil together with open (trip) and zeroes it         *)
(* together with open (close), so openUntil.IsZero() is ~open.             *)
(***************************************************************************)
EXTENDS Integers, Sequences

CONSTANT MaxSessionStrikes  \* how often a cooldown doubles; 4 in the code

Settings == [threshold : Nat \ {0}, cooldown : Nat \ {0}, grow : BOOLEAN]

Breaker == [failures : Nat, strikes : 0..MaxSessionStrikes, left : Nat,
            open : BOOLEAN, probing : BOOLEAN]

Fresh == [failures |-> 0, strikes |-> 0, left |-> 0,
          open |-> FALSE, probing |-> FALSE]

\* Mutant of Blocking: the probe in flight is forgotten.
BlockingIgnoresProbe(s) == s.open /\ s.left > 0

\* Mutant of Blocking: only a probe blocks, the cooldown does not.
BlockingIgnoresCooldown(s) == s.open /\ s.left = 0 /\ s.probing

\* Calls are turned away during the cooldown and, after it, while the probe
\* is out.
Blocking(s) == s.open /\ (s.left > 0 \/ s.probing)

CanProbe(s) == s.open /\ s.left = 0 /\ ~s.probing

LongerOf(a, b) == IF a >= b THEN a ELSE b

\* cooldown << (strikes - 1), for the one to four strikes the code counts.
Doubled(cooldown, strikes) == cooldown * <<1, 2, 4, 8>>[strikes]

NextStrike(s) == IF s.strikes < MaxSessionStrikes THEN s.strikes + 1 ELSE s.strikes

StrikesAfterTrip(c, s) == IF c.grow THEN NextStrike(s) ELSE s.strikes

CooldownAfterTrip(c, s) ==
  IF c.grow THEN Doubled(c.cooldown, NextStrike(s)) ELSE c.cooldown

\* trip overwrites openUntil, also when the breaker is already open.
Trip(c, s, retryAfter) ==
  [s EXCEPT !.strikes = StrikesAfterTrip(c, s),
            !.left = LongerOf(CooldownAfterTrip(c, s), retryAfter),
            !.failures = 0,
            !.open = TRUE]

Fail(c, s, retryAfter) ==
  IF s.failures + 1 >= c.threshold
  THEN Trip(c, s, retryAfter)
  ELSE [s EXCEPT !.failures = @ + 1]

\* Mutant of Close: the strikes survive a recovery.
CloseKeepsStrikes(s) == [s EXCEPT !.left = 0, !.failures = 0, !.open = FALSE]

Close(s) == [s EXCEPT !.left = 0, !.failures = 0, !.strikes = 0, !.open = FALSE]

ProbeResult(c, s, failed, retryAfter) ==
  LET resolved == [s EXCEPT !.probing = FALSE]
  IN  IF failed THEN Trip(c, resolved, retryAfter) ELSE Close(resolved)

\* Mutant of Report: any clean result closes the breaker.
ReportClosesOnClean(c, s, failed, clean, retryAfter) ==
  IF s.probing THEN ProbeResult(c, s, failed, retryAfter)
  ELSE IF failed THEN Fail(c, s, retryAfter)
  ELSE IF clean THEN Close(s)
  ELSE s

\* Mutant of Report: a fault of the other breaker's kind leaves the probe open.
ReportKeepsProbe(c, s, failed, clean, retryAfter) ==
  IF s.probing /\ (failed \/ clean) THEN ProbeResult(c, s, failed, retryAfter)
  ELSE IF failed THEN Fail(c, s, retryAfter)
  ELSE IF clean THEN [s EXCEPT !.failures = 0]
  ELSE s

\* The switch of breaker.record for one sub-breaker: `failed' when the result
\* is of the kind this breaker counts, `clean' when it shows no upstream fault.
\* Whatever is reported while a probe is out resolves the probe.
Report(c, s, failed, clean, retryAfter) ==
  IF s.probing THEN ProbeResult(c, s, failed, retryAfter)
  ELSE IF failed THEN Fail(c, s, retryAfter)
  ELSE IF clean THEN [s EXCEPT !.failures = 0]
  ELSE s

\* The clock brings the end of the cooldown one tick closer.
Elapse(s) == [s EXCEPT !.left = IF @ > 0 THEN @ - 1 ELSE 0]
===============================================================================
