----------------------------- MODULE LinkedInClient -----------------------------
(***************************************************************************)
(* One call of the LinkedIn client (internal/linkedin/client.go, get and   *)
(* attempt), as operators on a record c:                                   *)
(*                                                                         *)
(*   st       : where the call is                                          *)
(*   attempt  : attempts made before this one                              *)
(*   timedOut : the call's own deadline has passed                         *)
(*   wait     : retryBackoff << attempt, as the 64-bit duration it is      *)
(*   waited   : time the call has spent in backoffs                        *)
(*   err, doc : what the last attempt came to                              *)
(*                                                                         *)
(* The one clock that matters to the call's control is its deadline, which *)
(* may pass at any time; but the backoffs alone cannot add up to more than *)
(* the deadline allows, and that is what waited is for.                    *)
(***************************************************************************)
EXTENDS ErrorCodes

CONSTANTS
  RetryBackoff,  \* HTTP_RETRY_BACKOFF
  Timeout,       \* HTTP_REQUEST_TIMEOUT: the deadline over all attempts
  MaxDuration    \* the largest duration there is, 2^63 - 1 in Go

(***************************************************************************)
(* Configuration demands a positive backoff when there are retries, and a  *)
(* positive timeout.  That their sum is no more than half the largest      *)
(* duration is 146 years of room.                                          *)
(***************************************************************************)
ASSUME ClientAssumption ==
  /\ RetryBackoff \in Nat \ {0} /\ Timeout \in Nat \ {0}
  /\ MaxDuration \in Nat
  /\ 2 * (RetryBackoff + Timeout) <= MaxDuration

\* A duration that has been doubled, with the sign bit it may have run into.
Doubled(duration) ==
  IF 2 * duration <= MaxDuration THEN 2 * duration
  ELSE 2 * duration - 2 * (MaxDuration + 1)

Durations == -(MaxDuration + 1)..MaxDuration

(***************************************************************************)
(* idle; a section waits for the enrichment semaphore, then for the gate;  *)
(* an attempt is under way; it was begun under a context that had ended,   *)
(* so that nothing is sent; the call backs off; it has returned to its     *)
(* caller; the caller has released the gate; nothing is left to do.        *)
(***************************************************************************)
CallPoints == {"idle", "semaphore", "gate", "sent", "unsent", "backoff",
               "returned", "released", "done"}

NoCall(doc) == [st |-> "idle", attempt |-> 0, timedOut |-> FALSE,
                wait |-> RetryBackoff, waited |-> 0, err |-> "none", doc |-> doc]

\* The first attempt, or the next one, under a context that is live or not.
Attempt(c, live) == [c EXCEPT !.st = IF live THEN "sent" ELSE "unsent"]

\* The call is over: its caller is left with an error or a document.
Returned(err, doc) == [NoCall(doc) EXCEPT !.st = "returned", !.err = err]

\* Mutant of Failed: one attempt more than maxRetries allows.
FailedOnceMore(c, maxRetries, err, retry) ==
  IF c.attempt > maxRetries \/ ~retry THEN Returned(err, c.doc)
  ELSE [c EXCEPT !.st = "backoff", !.err = err]

\* An attempt failed: the loop gives up, with this error, or backs off.
Failed(c, maxRetries, err, retry) ==
  IF c.attempt >= maxRetries \/ ~retry THEN Returned(err, c.doc)
  ELSE [c EXCEPT !.st = "backoff", !.err = err]

\* Mutant of TimerFirst: the sleep does not look at the context.
TimerAlone(c, jitter) == c.st = "backoff" /\ jitter \in Nat

\* The timer of a backoff, lengthened by jitter, fires before the deadline.
TimerFirst(c, jitter) ==
  /\ c.st = "backoff"
  /\ ~c.timedOut
  /\ c.waited + c.wait + jitter <= Timeout

\* The jitters rand.Int64N may return.
Jitters(c) == 0..(c.wait \div 2)

BackedOff(c, jitter) ==
  [c EXCEPT !.attempt = @ + 1, !.waited = @ + c.wait + jitter,
            !.wait = Doubled(@), !.err = "none"]
================================================================================
