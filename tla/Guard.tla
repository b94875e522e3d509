--------------------------------- MODULE Guard ---------------------------------
(***************************************************************************)
(* The upstream guard (internal/upstream/guard.go): the single choke point *)
(* every call to LinkedIn passes.  A call runs through                     *)
(*                                                                         *)
(*   Enter:    breaker.blocked -> limiter.Allow -> a slot of the semaphore *)
(*   (the call to LinkedIn)                                                *)
(*   release:  the slot is given back -> breaker.record                    *)
(*                                                                         *)
(* and each arrow is a place where other goroutines run: blocked and       *)
(* record hold the breaker's mutex, the limiter has its own, the semaphore *)
(* is a channel.  So each is an action of its own.                         *)
(*                                                                         *)
(* Time is a clock that ticks.  A breaker keeps the ticks left of its      *)
(* cooldown and a call its age since it passed the breaker.  Every call    *)
(* runs under a deadline (linkedin/client.go:111, service/profile.go:182), *)
(* so the clock does not tick past a call of age OpTimeout: it returns     *)
(* first.  Configuration does not relate that deadline to the cooldowns,   *)
(* so nothing is assumed about them here.                                  *)
(***************************************************************************)
EXTENDS SubBreaker, FiniteSets

CONSTANTS
  Procs,             \* the goroutines that call Enter
  MaxConcurrency,    \* slots of the semaphore
  RateBurst,         \* tokens of the aggregate rate limiter
  FailureThreshold, Cooldown,         \* of the general breaker
  SessionThreshold, SessionCooldown,  \* of the session breaker
  OpTimeout,         \* ticks within which a call admitted to LinkedIn returns
  RetryAfters        \* Retry-After values of LinkedIn's 429s, in ticks

ASSUME GuardAssumption ==
  /\ IsFiniteSet(Procs)
  /\ MaxConcurrency \in Nat \ {0}
  /\ RateBurst \in Nat \ {0}
  /\ FailureThreshold \in Nat \ {0} /\ Cooldown \in Nat \ {0}
  /\ SessionThreshold \in Nat \ {0} /\ SessionCooldown \in Nat \ {0}
  /\ MaxSessionStrikes \in 1..4
  /\ OpTimeout \in Nat \ {0}
  /\ RetryAfters \subseteq Nat

\* Calls come back before the cooldown of either breaker is over.  True of the
\* default configuration (10 s against 30 s and 5 min), not of every valid one.
ShortCalls == OpTimeout < Cooldown /\ OpTimeout < SessionCooldown

General == [threshold |-> FailureThreshold, cooldown |-> Cooldown, grow |-> FALSE]
Session == [threshold |-> SessionThreshold, cooldown |-> SessionCooldown, grow |-> TRUE]

Modes == {"server", "caller"}

\* Where a goroutine is: outside; past the breaker; past the limiter; holding
\* a slot, its call at LinkedIn; its slot given back, its result not recorded.
Points == {"idle", "limiter", "semaphore", "upstream", "recording"}

(***************************************************************************)
(* What classify tells apart in an operation's final error, and the        *)
(* Retry-After it carries: only a 429 has one (linkedin/errors.go:37).     *)
(***************************************************************************)
Outcomes == [cat : {"none", "auth", "general"}, retryAfter : {0}]
            \cup [cat : {"general"}, retryAfter : RetryAfters]

VARIABLES
  general, session,        \* the two sub-breakers
  circuitOpen,             \* gauge upstream_circuit_open
  sessionHealthy,          \* gauge upstream_session_healthy
  slots,                   \* filled slots of the semaphore
  tokens,                  \* tokens in the limiter's bucket
  pc, mode, age,           \* each goroutine's call
  probe                    \* history: which breaker's probe the call is

breakerVars == <<general, session, circuitOpen, sessionHealthy>>
callVars == <<pc, mode, age, probe>>
vars == <<general, session, circuitOpen, sessionHealthy, slots, tokens,
          pc, mode, age, probe>>

Active == {p \in Procs : pc[p] # "idle"}
ActiveServer == {p \in Active : mode[p] = "server"}

TypeOK ==
  /\ general \in Breaker /\ session \in Breaker
  /\ circuitOpen \in BOOLEAN /\ sessionHealthy \in BOOLEAN
  /\ slots \in 0..MaxConcurrency
  /\ tokens \in 0..RateBurst
  /\ pc \in [Procs -> Points]
  /\ mode \in [Procs -> Modes]
  /\ age \in [Procs -> 0..OpTimeout]
  /\ probe \in [Procs -> {"none", "general", "session"}]

Init ==
  /\ general = Fresh /\ session = Fresh
  /\ circuitOpen = FALSE /\ sessionHealthy = TRUE
  /\ slots = 0
  /\ tokens = RateBurst
  /\ pc = [p \in Procs |-> "idle"]
  /\ mode = [p \in Procs |-> "caller"]
  /\ age = [p \in Procs |-> 0]
  /\ probe = [p \in Procs |-> "none"]

------------------------------------------------------------------------------
(* Enter, first part: breaker.blocked, under the breaker's mutex.           *)

\* Mutant of BlockedFor: the session breaker gates nothing.
BlockedByGeneral(m) == m \in Modes /\ Blocking(general)

BlockedFor(m) == Blocking(general) \/ (m = "server" /\ Blocking(session))

\* At most one probe is admitted, and the general breaker's is preferred.
ProbeOf(m) ==
  IF CanProbe(general) THEN "general"
  ELSE IF m = "server" /\ CanProbe(session) THEN "session"
  ELSE "none"

\* circuit_open: the caller gets an error and nothing changes.
RejectCircuitOpen(p, m) ==
  /\ pc[p] = "idle"
  /\ BlockedFor(m)
  /\ UNCHANGED vars

Admit(p, m) ==
  /\ pc[p] = "idle"
  /\ ~BlockedFor(m)
  /\ general' = [general EXCEPT !.probing = @ \/ ProbeOf(m) = "general"]
  /\ session' = [session EXCEPT !.probing = @ \/ ProbeOf(m) = "session"]
  /\ pc' = [pc EXCEPT ![p] = "limiter"]
  /\ mode' = [mode EXCEPT ![p] = m]
  /\ age' = [age EXCEPT ![p] = 0]
  /\ probe' = [probe EXCEPT ![p] = ProbeOf(m)]
  /\ UNCHANGED <<circuitOpen, sessionHealthy, slots, tokens>>

\* Enter gave up, or release is done: the goroutine has no call any more.
Leave(p) ==
  /\ pc' = [pc EXCEPT ![p] = "idle"]
  /\ mode' = [mode EXCEPT ![p] = "caller"]
  /\ age' = [age EXCEPT ![p] = 0]
  /\ probe' = [probe EXCEPT ![p] = "none"]

------------------------------------------------------------------------------
(* Enter, second and third part.  A rejection here returns no release       *)
(* function, so the breaker never hears of the call it admitted.            *)

Allow(p) ==
  /\ pc[p] = "limiter"
  /\ tokens > 0
  /\ tokens' = tokens - 1
  /\ pc' = [pc EXCEPT ![p] = "semaphore"]
  /\ UNCHANGED <<breakerVars, slots, mode, age, probe>>

RejectRate(p) ==
  /\ pc[p] = "limiter"
  /\ tokens = 0
  /\ Leave(p)
  /\ UNCHANGED <<breakerVars, slots, tokens>>

\* Mutant of Acquire: the ceiling is not checked.
AcquireAnyway(p) ==
  /\ pc[p] = "semaphore"
  /\ slots' = slots + 1
  /\ pc' = [pc EXCEPT ![p] = "upstream"]
  /\ UNCHANGED <<breakerVars, tokens, mode, age, probe>>

Acquire(p) ==
  /\ pc[p] = "semaphore"
  /\ slots < MaxConcurrency
  /\ slots' = slots + 1
  /\ pc' = [pc EXCEPT ![p] = "upstream"]
  /\ UNCHANGED <<breakerVars, tokens, mode, age, probe>>

\* Mutant of RejectConcurrency: a slot is given back that was never taken.
RejectReleasingSlot(p) ==
  /\ pc[p] = "semaphore"
  /\ slots = MaxConcurrency
  /\ slots' = slots - 1
  /\ Leave(p)
  /\ UNCHANGED <<breakerVars, tokens>>

RejectConcurrency(p) ==
  /\ pc[p] = "semaphore"
  /\ slots = MaxConcurrency
  /\ Leave(p)
  /\ UNCHANGED <<breakerVars, slots, tokens>>

------------------------------------------------------------------------------
(* The release function: the slot first, then breaker.record.               *)

FreeSlot(p) ==
  /\ pc[p] = "upstream"
  /\ slots' = slots - 1
  /\ pc' = [pc EXCEPT ![p] = "recording"]
  /\ UNCHANGED <<breakerVars, tokens, mode, age, probe>>

GeneralAfter(o) ==
  Report(General, general, o.cat = "general", o.cat = "none", o.retryAfter)

\* Mutant of SessionAfter: results of caller sessions feed the session breaker.
SessionAfterAnyMode(o, m) ==
  IF m \in Modes
  THEN Report(Session, session, o.cat = "auth", o.cat = "none", o.retryAfter)
  ELSE session

SessionAfter(o, m) ==
  IF m = "server"
  THEN Report(Session, session, o.cat = "auth", o.cat = "none", o.retryAfter)
  ELSE session

\* Mutant of Sync: the previous state of the session breaker is forgotten.
SyncForgetsSession ==
  LET after == general'.open \/ session'.open
  IN  /\ circuitOpen' = IF after # general.open THEN after ELSE circuitOpen
      /\ sessionHealthy' = IF session'.open # session.open
                           THEN ~session'.open ELSE sessionHealthy

\* sync: the gauges are written only when what they show has changed.
Sync ==
  LET before == general.open \/ session.open
      after  == general'.open \/ session'.open
  IN  /\ circuitOpen' = IF after # before THEN after ELSE circuitOpen
      /\ sessionHealthy' = IF session'.open # session.open
                           THEN ~session'.open ELSE sessionHealthy

Record(p, o) ==
  /\ pc[p] = "recording"
  /\ general' = GeneralAfter(o)
  /\ session' = SessionAfter(o, mode[p])
  /\ Sync
  /\ Leave(p)
  /\ UNCHANGED <<slots, tokens>>

------------------------------------------------------------------------------
(* The limiter's bucket fills and the clock ticks.                          *)

Refill ==
  /\ tokens < RateBurst
  /\ tokens' = tokens + 1
  /\ UNCHANGED <<breakerVars, slots, callVars>>

Tick ==
  /\ \A p \in Active : age[p] < OpTimeout
  /\ general' = Elapse(general)
  /\ session' = Elapse(session)
  /\ age' = [p \in Procs |-> IF p \in Active THEN age[p] + 1 ELSE 0]
  /\ UNCHANGED <<circuitOpen, sessionHealthy, slots, tokens, pc, mode, probe>>

Enter(p) == \E m \in Modes : RejectCircuitOpen(p, m) \/ Admit(p, m)

Proceed(p) ==
  \/ Allow(p) \/ RejectRate(p)
  \/ Acquire(p) \/ RejectConcurrency(p)
  \/ FreeSlot(p)
  \/ \E o \in Outcomes : Record(p, o)

Next ==
  \/ \E p \in Procs : Enter(p) \/ Proceed(p)
  \/ Refill
  \/ Tick

Spec == Init /\ [][Next]_vars

(***************************************************************************)
(* A call that is inside moves on (its deadline sees to it), the clock     *)
(* ticks and the bucket fills.  Requests keep arriving in both modes only  *)
(* in BusySpec.                                                            *)
(***************************************************************************)
Fairness ==
  /\ \A p \in Procs : WF_vars(Proceed(p))
  /\ WF_vars(Refill)
  /\ WF_vars(Tick)

FairSpec == Spec /\ Fairness

BusySpec == FairSpec /\ \A m \in Modes : WF_vars(\E p \in Procs : Admit(p, m))
------------------------------------------------------------------------------
(* Properties.                                                              *)

\* The semaphore counts exactly the calls that are at LinkedIn: a slot is
\* neither lost on a rejection nor given back twice (guard.go:86-98).
SlotsHeld == slots = Cardinality({p \in Procs : pc[p] = "upstream"})

\* The two gauges, which sync only writes on a change, always show the
\* breakers' state (guard.go:291-314).
GaugesTruthful ==
  /\ circuitOpen = (general.open \/ session.open)
  /\ sessionHealthy = ~session.open

\* What each breaker's fields may be together: a probe is only out when its
\* cooldown is over, the failure count restarts before it reaches the
\* threshold, and strikes count exactly while the session is unhealthy.
BreakersCoherent ==
  /\ \A s \in {general, session} :
       /\ s.probing => s.open /\ s.left = 0
       /\ s.open \/ s.left = 0
  /\ general.failures < FailureThreshold /\ general.strikes = 0
  /\ session.failures < SessionThreshold
  /\ session.open <=> session.strikes > 0

\* With calls shorter than the cooldown, the general breaker's probe is alone:
\* while it is out, no other call of either mode is past the breaker
\* (guard.go:231-249).  Needs ShortCalls.
GeneralProbeAlone ==
  \A p \in Active : probe[p] = "general" => Active = {p}

\* With calls shorter than the cooldown, the session breaker's probe is the
\* only server-session call past the breaker (guard.go:238-247).
\* Needs ShortCalls.
SessionProbeAlone ==
  \A p \in Active : probe[p] = "session" => ActiveServer = {p}

ReturnedWith(which) ==
  \E p \in Procs : probe[p] = which /\ pc[p] = "recording" /\ pc'[p] = "idle"

\* Only the probe's own result closes an open breaker, never that of a call
\* admitted before it opened or in the other mode (guard.go:205-214, 266-284).
\* Needs ShortCalls.
OnlyProbeCloses ==
  [][ /\ general.open /\ ~general'.open => ReturnedWith("general")
      /\ session.open /\ ~session'.open => ReturnedWith("session") ]_vars

\* The probe of the general breaker is lost: it was turned away by the limiter
\* or the semaphore, nobody else is past the breaker, and no release function
\* is left that could resolve it (guard.go:243-247 with 82-91).
Wedged == general.probing /\ Active = {}

\* The same of the session breaker, whose probe only server-session calls resolve.
SessionWedged == session.probing /\ ActiveServer = {}

\* A lost probe never comes back: from then on Enter turns away every call the
\* breaker gates, of both modes or of the server session (guard.go:164-166).
WedgedForever ==
  [][(Wedged => Wedged') /\ (SessionWedged => SessionWedged')]_vars

\* Every cooldown ends: calls in flight when the breaker trips may prolong it,
\* but nothing new is let in to go on prolonging it (guard.go:157-168).
CooldownsEnd ==
  /\ (general.open /\ general.left > 0) ~> (general.left = 0)
  /\ (session.open /\ session.left > 0) ~> (session.left = 0)

\* A probe that reaches LinkedIn is resolved, whatever comes back and whoever
\* else reports meanwhile (guard.go:205-214, 266-284).
ProbeAnswered ==
  \A p \in Procs :
    /\ (pc[p] = "upstream" /\ probe[p] = "general") ~> ~general.probing
    /\ (pc[p] = "upstream" /\ probe[p] = "session") ~> ~session.probing

\* "the service recovers on its own once access returns"
\* (docs/security.md:67-68): with requests arriving in both modes, a session
\* probe that is out is resolved at some point.
SessionProbeResolved == session.probing ~> ~session.probing

\* "A 429's Retry-After extends the cooldown so LinkedIn's own backoff is
\* honored" (docs/security.md:49-50): as long as the breaker stays open, only
\* the passing of time shortens what is left of its cooldown.
RetryAfterHonored ==
  [][general.open /\ general'.open => general'.left >= general.left - 1]_vars

\* "cooldown that doubles on each failed probe" (docs/reverse-engineering.md:146,
\* docs/configuration.md:43): the cooldown of an open session breaker grows
\* only with the result of its probe.
DoublesOnFailedProbe ==
  [][session.open /\ session'.strikes > session.strikes => ReturnedWith("session")]_vars

------------------------------------------------------------------------------
(* What the breakers promise, as a specification of its own.                *)

CircuitState ==
  CASE ~general.open -> "closed"
    [] general.open /\ general.left > 0 -> "cooling"
    [] general.open /\ general.left = 0 /\ ~general.probing -> "ready"
    [] OTHER -> "probing"

CB == INSTANCE CircuitBreaker WITH state <- CircuitState, calls <- Active, Shared <- FALSE

\* A server-session call that is the general breaker's probe passes the session
\* breaker too once its cooldown is over, without being its probe.
SessionState ==
  CASE ~session.open -> "closed"
    [] session.open /\ session.left > 0 -> "cooling"
    [] session.open /\ session.left = 0 /\ ~session.probing /\ ActiveServer = {} -> "ready"
    [] OTHER -> "probing"

SB == INSTANCE CircuitBreaker WITH state <- SessionState, calls <- ActiveServer, Shared <- TRUE

\* The guard is two such breakers, one for all calls and one for those with the
\* server's session: in particular a cooldown is over only once every call
\* admitted before it has come back, and one call alone decides what comes next
\* (guard.go:140-214, 231-249).  Needs ShortCalls.
ImplementsCircuitBreaker == CB!Spec /\ SB!Spec
================================================================================
