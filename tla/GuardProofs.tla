------------------------------ MODULE GuardProofs ------------------------------
(***************************************************************************)
(* Theorems about the upstream guard, for every number of goroutines and   *)
(* every setting.  First the invariant that needs no assumption on time    *)
(* (Sound), then the one that makes a probe run alone when calls are       *)
(* shorter than the cooldowns (Exclusive), then what follows from them.    *)
(***************************************************************************)
EXTENDS Guard, SubBreakerProofs, FiniteSetTheorems

AtUpstream == {p \in Procs : pc[p] = "upstream"}

\* A goroutine without a call is nobody's probe, and only server-session calls
\* probe the session breaker.
ProbeMarks ==
  \A p \in Procs :
    /\ pc[p] = "idle" => probe[p] = "none"
    /\ probe[p] = "session" => mode[p] = "server"

Sound ==
  /\ TypeOK
  /\ SlotsHeld
  /\ GaugesTruthful
  /\ WellFormed(General, general)
  /\ WellFormed(Session, session)
  /\ ProbeMarks

LEMMA SettingsFacts ==
  /\ General \in Settings /\ Session \in Settings
  /\ ~General.grow /\ Session.grow
  /\ General.threshold = FailureThreshold /\ Session.threshold = SessionThreshold
  /\ General.cooldown = Cooldown /\ Session.cooldown = SessionCooldown
BY GuardAssumption DEF General, Session, Settings

LEMMA OutcomeFacts ==
  ASSUME NEW o \in Outcomes
  PROVE  o.retryAfter \in Nat
<1>1. CASE o \in [cat : {"none", "auth", "general"}, retryAfter : {0}]
  BY <1>1
<1>2. CASE o \in [cat : {"general"}, retryAfter : RetryAfters]
  BY <1>2, GuardAssumption
<1> QED BY <1>1, <1>2 DEF Outcomes

\* The sets of slot holders are finite, so that they can be counted.
LEMMA HoldersFinite ==
  ASSUME NEW S \in SUBSET Procs
  PROVE  IsFiniteSet(S) /\ Cardinality(S) \in Nat
BY GuardAssumption, FS_Subset, FS_CardinalityType

LEMMA SoundInit == Init => Sound
<1> SUFFICES ASSUME Init PROVE Sound
  OBVIOUS
<1> USE DEF Init
<1>1. Fresh \in Breaker
  BY GuardAssumption DEF Fresh, Breaker
<1>2. TypeOK
  <2>1. 0 \in 0..MaxConcurrency /\ RateBurst \in 0..RateBurst /\ 0 \in 0..OpTimeout
    BY GuardAssumption
  <2> QED BY <1>1, <2>1 DEF TypeOK, Points, Modes
<1>3. {p \in Procs : pc[p] = "upstream"} = {}
  OBVIOUS
<1>4. SlotsHeld
  BY <1>3, FS_EmptySet DEF SlotsHeld
<1>5. GaugesTruthful
  BY DEF GaugesTruthful, Fresh
<1>6. WellFormed(General, general) /\ WellFormed(Session, session)
  BY <1>1, SettingsFacts DEF WellFormed, Fresh, Settings
<1>7. ProbeMarks
  BY DEF ProbeMarks
<1> QED BY <1>2, <1>4, <1>5, <1>6, <1>7 DEF Sound

\* Going idle frees no slot and keeps everybody else's call.
LEMMA LeaveFacts ==
  ASSUME Sound, NEW p \in Procs, Leave(p)
  PROVE  /\ pc' \in [Procs -> Points] /\ mode' \in [Procs -> Modes]
         /\ age' \in [Procs -> 0..OpTimeout]
         /\ probe' \in [Procs -> {"none", "general", "session"}]
         /\ ProbeMarks'
         /\ pc'[p] = "idle" /\ probe'[p] = "none"
         /\ Active' = Active \ {p}
         /\ \A q \in Procs \ {p} : /\ pc'[q] = pc[q] /\ mode'[q] = mode[q]
                                   /\ age'[q] = age[q] /\ probe'[q] = probe[q]
         /\ pc[p] # "upstream" => AtUpstream' = AtUpstream
<1>1. TypeOK /\ ProbeMarks
  BY DEF Sound
<1>2. 0 \in 0..OpTimeout
  BY GuardAssumption
<1>3. /\ pc' \in [Procs -> Points] /\ mode' \in [Procs -> Modes]
      /\ age' \in [Procs -> 0..OpTimeout]
      /\ probe' \in [Procs -> {"none", "general", "session"}]
      /\ pc'[p] = "idle" /\ probe'[p] = "none"
      /\ \A q \in Procs \ {p} : /\ pc'[q] = pc[q] /\ mode'[q] = mode[q]
                                /\ age'[q] = age[q] /\ probe'[q] = probe[q]
  BY <1>1, <1>2 DEF TypeOK, Leave, Points, Modes
<1>4. ProbeMarks'
  BY <1>1, <1>3 DEF ProbeMarks
<1>5. Active' = Active \ {p}
  BY <1>3 DEF Active
<1>6. pc[p] # "upstream" => AtUpstream' = AtUpstream
  BY <1>3 DEF AtUpstream
<1> QED BY <1>3, <1>4, <1>5, <1>6

\* A call is admitted (guard.go:231-249).
LEMMA SoundAdmit ==
  ASSUME Sound, NEW p \in Procs, NEW m \in Modes, Admit(p, m)
  PROVE  Sound'
<1>1. TypeOK /\ SlotsHeld /\ GaugesTruthful /\ ProbeMarks
  BY DEF Sound
<1>2. WellFormed(General, general) /\ WellFormed(Session, session)
  BY DEF Sound
<1>3. general \in Breaker /\ session \in Breaker
  BY <1>2 DEF WellFormed
<1>4. /\ general' = [general EXCEPT !.probing = general.probing \/ ProbeOf(m) = "general"]
      /\ session' = [session EXCEPT !.probing = session.probing \/ ProbeOf(m) = "session"]
      /\ pc' = [pc EXCEPT ![p] = "limiter"] /\ mode' = [mode EXCEPT ![p] = m]
      /\ age' = [age EXCEPT ![p] = 0] /\ probe' = [probe EXCEPT ![p] = ProbeOf(m)]
      /\ UNCHANGED <<circuitOpen, sessionHealthy, slots, tokens>>
      /\ pc[p] = "idle"
  BY DEF Admit
<1>5. /\ ProbeOf(m) \in {"none", "general", "session"}
      /\ ProbeOf(m) = "general" => general.open /\ general.left = 0
      /\ ProbeOf(m) = "session" => session.open /\ session.left = 0 /\ m = "server"
  BY DEF ProbeOf, CanProbe
<1>6. WellFormed(General, general)'
  <2>1. /\ general' \in Breaker /\ general'.open = general.open
        /\ general'.left = general.left /\ general'.failures = general.failures
        /\ general'.strikes = general.strikes
        /\ general'.probing => general.probing \/ ProbeOf(m) = "general"
    BY <1>3, <1>4 DEF Breaker
  <2> QED BY <1>2, <1>5, <2>1 DEF WellFormed, General
<1>7. WellFormed(Session, session)'
  <2>1. /\ session' \in Breaker /\ session'.open = session.open
        /\ session'.left = session.left /\ session'.failures = session.failures
        /\ session'.strikes = session.strikes
        /\ session'.probing => session.probing \/ ProbeOf(m) = "session"
    BY <1>3, <1>4 DEF Breaker
  <2> QED BY <1>2, <1>5, <2>1 DEF WellFormed, Session
<1>8. 0 \in 0..OpTimeout /\ "limiter" \in Points
  BY GuardAssumption DEF Points
<1>9. TypeOK'
  BY <1>1, <1>4, <1>5, <1>6, <1>7, <1>8 DEF TypeOK, WellFormed
<1>10. {q \in Procs : pc'[q] = "upstream"} = {q \in Procs : pc[q] = "upstream"}
  BY <1>1, <1>4 DEF TypeOK
<1>11. SlotsHeld'
  BY <1>1, <1>4, <1>10 DEF SlotsHeld
<1>12. GaugesTruthful'
  BY <1>1, <1>3, <1>4 DEF GaugesTruthful, Breaker
<1>13. ProbeMarks'
  BY <1>1, <1>4, <1>5 DEF ProbeMarks, TypeOK
<1> QED BY <1>6, <1>7, <1>9, <1>11, <1>12, <1>13 DEF Sound

\* Enter is refused by the limiter or the semaphore (guard.go:82-91).
LEMMA SoundReject ==
  ASSUME Sound, NEW p \in Procs, RejectRate(p) \/ RejectConcurrency(p)
  PROVE  Sound'
<1>1. /\ Leave(p) /\ pc[p] # "upstream"
      /\ UNCHANGED <<breakerVars, slots, tokens>>
  BY DEF RejectRate, RejectConcurrency
<1>2. /\ TypeOK /\ SlotsHeld /\ GaugesTruthful
      /\ WellFormed(General, general) /\ WellFormed(Session, session)
  BY DEF Sound
<1>3. TypeOK' /\ ProbeMarks' /\ AtUpstream' = AtUpstream
  BY <1>1, <1>2, LeaveFacts DEF TypeOK, breakerVars
<1>4. SlotsHeld'
  BY <1>1, <1>2, <1>3 DEF SlotsHeld, AtUpstream
<1>5. GaugesTruthful' /\ WellFormed(General, general)' /\ WellFormed(Session, session)'
  BY <1>1, <1>2 DEF GaugesTruthful, WellFormed, breakerVars, General, Session
<1> QED BY <1>3, <1>4, <1>5 DEF Sound

\* A step of the call that touches neither breaker nor marks.
LEMMA SoundMove ==
  ASSUME Sound, NEW p \in Procs, NEW point \in Points \ {"idle"}, pc[p] # "idle",
         pc' = [pc EXCEPT ![p] = point],
         UNCHANGED <<breakerVars, mode, age, probe>>,
         slots' \in 0..MaxConcurrency, tokens' \in 0..RateBurst,
         slots' = Cardinality(AtUpstream')
  PROVE  Sound'
<1>1. /\ TypeOK /\ GaugesTruthful /\ ProbeMarks
      /\ WellFormed(General, general) /\ WellFormed(Session, session)
  BY DEF Sound
<1>2. TypeOK'
  BY <1>1 DEF TypeOK, breakerVars
<1>3. SlotsHeld'
  BY DEF SlotsHeld, AtUpstream
<1>4. GaugesTruthful' /\ WellFormed(General, general)' /\ WellFormed(Session, session)'
  BY <1>1 DEF GaugesTruthful, WellFormed, breakerVars, General, Session
<1>5. ProbeMarks'
  BY <1>1 DEF ProbeMarks, TypeOK
<1> QED BY <1>2, <1>3, <1>4, <1>5 DEF Sound

\* The limiter lets the call pass (guard.go:82).
LEMMA SoundAllow ==
  ASSUME Sound, NEW p \in Procs, Allow(p)
  PROVE  Sound'
<1>1. /\ pc[p] = "limiter" /\ tokens > 0 /\ tokens' = tokens - 1 /\ slots' = slots
      /\ pc' = [pc EXCEPT ![p] = "semaphore"]
      /\ UNCHANGED <<breakerVars, mode, age, probe>>
  BY DEF Allow
<1>2. TypeOK /\ SlotsHeld
  BY DEF Sound
<1>3. AtUpstream' = AtUpstream
  BY <1>1, <1>2 DEF AtUpstream, TypeOK
<1>4. slots' \in 0..MaxConcurrency /\ tokens' \in 0..RateBurst
  <2>1. slots \in 0..MaxConcurrency /\ tokens \in 0..RateBurst /\ RateBurst \in Nat
    BY <1>2, GuardAssumption DEF TypeOK
  <2> QED BY <1>1, <2>1
<1>5. slots' = Cardinality(AtUpstream')
  BY <1>1, <1>2, <1>3 DEF SlotsHeld, AtUpstream
<1> QED BY <1>1, <1>4, <1>5, SoundMove DEF Points

\* The call takes a slot (guard.go:87).
LEMMA SoundAcquire ==
  ASSUME Sound, NEW p \in Procs, Acquire(p)
  PROVE  Sound'
<1>1. /\ pc[p] = "semaphore" /\ slots < MaxConcurrency /\ slots' = slots + 1
      /\ tokens' = tokens
      /\ pc' = [pc EXCEPT ![p] = "upstream"]
      /\ UNCHANGED <<breakerVars, mode, age, probe>>
  BY DEF Acquire
<1>2. TypeOK /\ SlotsHeld
  BY DEF Sound
<1>3. AtUpstream' = AtUpstream \cup {p} /\ p \notin AtUpstream
  BY <1>1, <1>2 DEF AtUpstream, TypeOK
<1>4. slots' \in 0..MaxConcurrency /\ tokens' \in 0..RateBurst
  <2>1. slots \in 0..MaxConcurrency /\ MaxConcurrency \in Nat /\ tokens \in 0..RateBurst
    BY <1>2, GuardAssumption DEF TypeOK
  <2> QED BY <1>1, <2>1
<1>5. AtUpstream \in SUBSET Procs
  BY DEF AtUpstream
<1>6. Cardinality(AtUpstream \cup {p}) = Cardinality(AtUpstream) + 1
  BY <1>3, <1>5, HoldersFinite, FS_AddElement
<1>7. slots' = Cardinality(AtUpstream')
  BY <1>1, <1>2, <1>3, <1>6 DEF SlotsHeld, AtUpstream
<1> QED BY <1>1, <1>4, <1>7, SoundMove DEF Points

\* The release function gives the slot back (guard.go:96).
LEMMA SoundFreeSlot ==
  ASSUME Sound, NEW p \in Procs, FreeSlot(p)
  PROVE  Sound'
<1>1. /\ pc[p] = "upstream" /\ slots' = slots - 1 /\ tokens' = tokens
      /\ pc' = [pc EXCEPT ![p] = "recording"]
      /\ UNCHANGED <<breakerVars, mode, age, probe>>
  BY DEF FreeSlot
<1>2. TypeOK /\ SlotsHeld
  BY DEF Sound
<1>3. AtUpstream' = AtUpstream \ {p} /\ p \in AtUpstream
  BY <1>1, <1>2 DEF AtUpstream, TypeOK
<1>4. AtUpstream \in SUBSET Procs /\ AtUpstream \ {p} \in SUBSET Procs
  BY DEF AtUpstream
<1>5. Cardinality(AtUpstream \ {p}) = Cardinality(AtUpstream) - 1
  BY <1>3, <1>4, HoldersFinite, FS_RemoveElement
<1>6. slots' = Cardinality(AtUpstream')
  BY <1>1, <1>2, <1>3, <1>5 DEF SlotsHeld, AtUpstream
<1>7. Cardinality(AtUpstream \ {p}) \in Nat
  BY <1>4, HoldersFinite
<1>8. slots' \in 0..MaxConcurrency /\ tokens' \in 0..RateBurst
  BY <1>1, <1>2, <1>3, <1>6, <1>7, GuardAssumption DEF TypeOK
<1> QED BY <1>1, <1>6, <1>8, SoundMove DEF Points

\* record feeds the result to both breakers and sync the gauges
\* (guard.go:256-314).
LEMMA SoundRecord ==
  ASSUME Sound, NEW p \in Procs, NEW o \in Outcomes, Record(p, o)
  PROVE  /\ Sound'
         /\ Answered(General, general, general')
         /\ IF mode[p] = "server" THEN Answered(Session, session, session')
                                  ELSE session' = session
<1>1. /\ pc[p] = "recording" /\ Leave(p) /\ Sync
      /\ general' = GeneralAfter(o) /\ session' = SessionAfter(o, mode[p])
      /\ slots' = slots /\ tokens' = tokens
  BY DEF Record
<1>2. /\ TypeOK /\ SlotsHeld /\ GaugesTruthful
      /\ WellFormed(General, general) /\ WellFormed(Session, session)
  BY DEF Sound
<1>3. o.retryAfter \in Nat /\ MaxSessionStrikes \in 1..4
  BY OutcomeFacts, GuardAssumption
<1>4. Answered(General, general, general')
  BY <1>1, <1>2, <1>3, SettingsFacts, ReportFacts DEF GeneralAfter
<1>5. IF mode[p] = "server" THEN Answered(Session, session, session')
                            ELSE session' = session
  BY <1>1, <1>2, <1>3, SettingsFacts, ReportFacts DEF SessionAfter
<1>6. WellFormed(General, general') /\ WellFormed(Session, session')
  BY <1>2, <1>4, <1>5 DEF Answered
<1>7. /\ general.open \in BOOLEAN /\ session.open \in BOOLEAN
      /\ general'.open \in BOOLEAN /\ session'.open \in BOOLEAN
      /\ general' \in Breaker /\ session' \in Breaker
  BY <1>2, <1>6 DEF WellFormed, Breaker
<1>8. GaugesTruthful' /\ circuitOpen' \in BOOLEAN /\ sessionHealthy' \in BOOLEAN
  BY <1>1, <1>2, <1>7 DEF GaugesTruthful, Sync
<1>9. /\ TypeOK' /\ ProbeMarks' /\ AtUpstream' = AtUpstream
  BY <1>1, <1>2, <1>7, <1>8, LeaveFacts DEF TypeOK
<1>10. SlotsHeld'
  BY <1>1, <1>2, <1>9 DEF SlotsHeld, AtUpstream
<1>11. WellFormed(General, general)' /\ WellFormed(Session, session)'
  BY <1>6 DEF WellFormed, General, Session
<1> QED BY <1>4, <1>5, <1>8, <1>9, <1>10, <1>11 DEF Sound

LEMMA SoundRefill ==
  ASSUME Sound, Refill
  PROVE  Sound'
<1>1. /\ tokens < RateBurst /\ tokens' = tokens + 1
      /\ UNCHANGED <<breakerVars, slots, callVars>>
  BY DEF Refill
<1>2. /\ TypeOK /\ SlotsHeld /\ GaugesTruthful /\ ProbeMarks
      /\ WellFormed(General, general) /\ WellFormed(Session, session)
  BY DEF Sound
<1>3. TypeOK'
  BY <1>1, <1>2, GuardAssumption DEF TypeOK, breakerVars, callVars
<1>4. SlotsHeld' /\ GaugesTruthful' /\ ProbeMarks'
  BY <1>1, <1>2 DEF SlotsHeld, GaugesTruthful, ProbeMarks, breakerVars, callVars
<1>5. WellFormed(General, general)' /\ WellFormed(Session, session)'
  BY <1>1, <1>2 DEF WellFormed, breakerVars, General, Session
<1> QED BY <1>3, <1>4, <1>5 DEF Sound

LEMMA SoundTick ==
  ASSUME Sound, Tick
  PROVE  Sound'
<1>1. /\ \A p \in Active : age[p] < OpTimeout
      /\ general' = Elapse(general) /\ session' = Elapse(session)
      /\ age' = [p \in Procs |-> IF p \in Active THEN age[p] + 1 ELSE 0]
      /\ UNCHANGED <<circuitOpen, sessionHealthy, slots, tokens, pc, mode, probe>>
  BY DEF Tick
<1>2. /\ TypeOK /\ SlotsHeld /\ GaugesTruthful /\ ProbeMarks
      /\ WellFormed(General, general) /\ WellFormed(Session, session)
  BY DEF Sound
<1>3. /\ WellFormed(General, general') /\ WellFormed(Session, session')
      /\ general'.open = general.open /\ session'.open = session.open
  BY <1>1, <1>2, ElapseFacts
<1>4. \A p \in Procs : (IF p \in Active THEN age[p] + 1 ELSE 0) \in 0..OpTimeout
  BY <1>1, <1>2, GuardAssumption DEF TypeOK
<1>5. age' \in [Procs -> 0..OpTimeout]
  BY <1>1, <1>4
<1>6. TypeOK'
  BY <1>1, <1>2, <1>3, <1>5 DEF TypeOK, WellFormed
<1>7. SlotsHeld' /\ GaugesTruthful' /\ ProbeMarks'
  BY <1>1, <1>2, <1>3 DEF SlotsHeld, GaugesTruthful, ProbeMarks
<1>8. WellFormed(General, general)' /\ WellFormed(Session, session)'
  BY <1>3 DEF WellFormed, General, Session
<1> QED BY <1>6, <1>7, <1>8 DEF Sound

LEMMA SoundStep == Sound /\ [Next]_vars => Sound'
<1> SUFFICES ASSUME Sound, [Next]_vars PROVE Sound'
  OBVIOUS
<1>1. ASSUME NEW p \in Procs, Enter(p) PROVE Sound'
  <2>1. ASSUME NEW m \in Modes, RejectCircuitOpen(p, m) PROVE Sound'
    BY <2>1 DEF RejectCircuitOpen, vars, Sound, TypeOK, SlotsHeld,
         GaugesTruthful, ProbeMarks, WellFormed, General, Session
  <2>2. ASSUME NEW m \in Modes, Admit(p, m) PROVE Sound'
    BY <2>2, SoundAdmit
  <2> QED BY <1>1, <2>1, <2>2 DEF Enter
<1>2. ASSUME NEW p \in Procs, Proceed(p) PROVE Sound'
  BY <1>2, SoundAllow, SoundReject, SoundAcquire, SoundFreeSlot, SoundRecord
     DEF Proceed
<1>3. CASE Refill
  BY <1>3, SoundRefill
<1>4. CASE Tick
  BY <1>4, SoundTick
<1>5. CASE UNCHANGED vars
  BY <1>5 DEF vars, Sound, TypeOK, SlotsHeld, GaugesTruthful, ProbeMarks,
       WellFormed, General, Session
<1> QED BY <1>1, <1>2, <1>3, <1>4, <1>5 DEF Next

\* The guard is type correct, its semaphore counts exactly the calls at
\* LinkedIn, its gauges show its breakers and both breakers are well-formed,
\* for any number of goroutines, any settings and any timing.
THEOREM SoundAlways == Spec => []Sound
BY SoundInit, SoundStep, PTL DEF Spec

\* Type correctness of the guard.
THEOREM TypeCorrect == Spec => []TypeOK
<1>1. Sound => TypeOK
  BY DEF Sound
<1> QED BY <1>1, SoundAlways, PTL

\* A slot is never lost nor given back twice, whatever way Enter ends.
THEOREM SlotsAlwaysHeld == Spec => []SlotsHeld
<1>1. Sound => SlotsHeld
  BY DEF Sound
<1> QED BY <1>1, SoundAlways, PTL

\* The gauges always show the breakers, though sync writes them only on a change.
THEOREM GaugesAlwaysTruthful == Spec => []GaugesTruthful
<1>1. Sound => GaugesTruthful
  BY DEF Sound
<1> QED BY <1>1, SoundAlways, PTL

\* No sequence of results leaves a breaker in a state the code does not mean.
THEOREM BreakersAlwaysCoherent == Spec => []BreakersCoherent
<1>1. Sound => BreakersCoherent
  BY SettingsFacts DEF Sound, WellFormed, Breaker, BreakersCoherent
<1> QED BY <1>1, SoundAlways, PTL
------------------------------------------------------------------------------
(* With calls shorter than the cooldowns.                                   *)

\* Every call that is not the probe comes back before the cooldown is over.
BackInTime ==
  /\ general.open =>
       \A p \in Active : probe[p] = "general" \/ OpTimeout - age[p] < general.left
  /\ session.open =>
       \A p \in ActiveServer : probe[p] # "none" \/ OpTimeout - age[p] < session.left

\* A call marked as a probe is one the breaker still waits for, and while the
\* session breaker waits, server-session calls are its probe.
ProbesOut ==
  /\ \A p \in Procs : /\ probe[p] = "general" => general.probing
                      /\ probe[p] = "session" => session.probing
  /\ session.probing => \A p \in ActiveServer : probe[p] = "session"

Exclusive == BackInTime /\ ProbesOut /\ GeneralProbeAlone /\ SessionProbeAlone

LEMMA ExclusiveInit == Init => Exclusive
BY DEF Init, Exclusive, BackInTime, ProbesOut, GeneralProbeAlone,
       SessionProbeAlone, Active, ActiveServer, Fresh

\* A step that only moves calls on, or lets some end, keeps the others in time.
LEMMA ExclusiveShrink ==
  ASSUME Sound, Exclusive, UNCHANGED <<general, session>>, Active' \subseteq Active,
         \A q \in Active' : mode'[q] = mode[q] /\ age'[q] = age[q] /\ probe'[q] = probe[q],
         \A q \in Procs : probe'[q] = probe[q] \/ probe'[q] = "none"
  PROVE  Exclusive'
<1>1. ActiveServer' \subseteq ActiveServer
  BY DEF ActiveServer
<1>2. BackInTime'
  BY <1>1 DEF Exclusive, BackInTime, ActiveServer
<1>3. ProbesOut'
  BY <1>1 DEF Exclusive, ProbesOut, ActiveServer
<1>4. GeneralProbeAlone'
  BY DEF Exclusive, GeneralProbeAlone
<1>5. SessionProbeAlone'
  BY <1>1 DEF Exclusive, SessionProbeAlone, ActiveServer
<1> QED BY <1>2, <1>3, <1>4, <1>5 DEF Exclusive

\* A call of age at most OpTimeout is not one the cooldown has outlasted.
LEMMA AgeFacts ==
  ASSUME Sound, NEW p \in Procs
  PROVE  age[p] \in Nat /\ age[p] <= OpTimeout /\ OpTimeout \in Nat
         /\ general.left \in Nat /\ session.left \in Nat
<1>1. age \in [Procs -> 0..OpTimeout] /\ general \in Breaker /\ session \in Breaker
  BY DEF Sound, TypeOK
<1> QED BY <1>1, GuardAssumption DEF Breaker

\* When the general breaker waits for its probe or is ready for one, no other
\* call is out (guard.go:157-173).
LEMMA NobodyElseOut ==
  ASSUME Sound, Exclusive, general.open, general.left = 0, NEW p \in Active
  PROVE  probe[p] = "general" /\ general.probing /\ Active = {p}
<1>1. p \in Procs
  BY DEF Active
<1>2. ~(OpTimeout - age[p] < general.left)
  BY <1>1, AgeFacts
<1>3. probe[p] = "general"
  BY <1>2 DEF Exclusive, BackInTime
<1> QED BY <1>1, <1>3 DEF Exclusive, ProbesOut, GeneralProbeAlone

\* The same of the session breaker and server-session calls.
LEMMA NoServerCallOut ==
  ASSUME Sound, Exclusive, session.open, session.left = 0, NEW p \in ActiveServer
  PROVE  probe[p] = "general" \/ (probe[p] = "session" /\ session.probing)
<1>1. p \in Procs /\ p \in Active
  BY DEF ActiveServer, Active
<1>2. ~(OpTimeout - age[p] < session.left)
  BY <1>1, AgeFacts
<1>3. probe[p] # "none" /\ probe[p] \in {"none", "general", "session"}
  BY <1>1, <1>2 DEF Exclusive, BackInTime, Sound, TypeOK
<1> QED BY <1>1, <1>3 DEF Exclusive, ProbesOut

\* Admission: a call is let in as a probe only when no other one is out, and
\* as an ordinary call only when the breaker is closed.
LEMMA ExclusiveAdmit ==
  ASSUME Sound, Exclusive, NEW p \in Procs, NEW m \in Modes, Admit(p, m)
  PROVE  Exclusive'
<1>1. TypeOK /\ WellFormed(General, general) /\ WellFormed(Session, session)
  BY DEF Sound
<1>2. /\ general \in Breaker /\ session \in Breaker
      /\ general.left \in Nat /\ session.left \in Nat
      /\ general.probing => general.open /\ general.left = 0
      /\ session.probing => session.open /\ session.left = 0
  BY <1>1 DEF WellFormed, Breaker
<1>3. pc[p] = "idle" /\ ~BlockedFor(m)
  BY DEF Admit
<1>4. /\ ~general.probing /\ (general.open => general.left = 0)
      /\ m = "server" => ~session.probing /\ (session.open => session.left = 0)
  BY <1>2, <1>3 DEF BlockedFor, Blocking
<1>5. /\ general'.open = general.open /\ general'.left = general.left
      /\ general'.probing = (ProbeOf(m) = "general")
      /\ session'.open = session.open /\ session'.left = session.left
      /\ session'.probing = (session.probing \/ ProbeOf(m) = "session")
  BY <1>2, <1>4 DEF Admit, Breaker
<1>6. /\ Active' = Active \cup {p} /\ p \notin Active
      /\ pc'[p] # "idle" /\ mode'[p] = m /\ probe'[p] = ProbeOf(m)
      /\ \A q \in Procs \ {p} : /\ mode'[q] = mode[q] /\ age'[q] = age[q]
                                /\ probe'[q] = probe[q]
  BY <1>1, <1>3 DEF Admit, Active, TypeOK
<1>7. Active \subseteq Procs \ {p}
  BY <1>6 DEF Active
<1>8. CASE ProbeOf(m) = "none"
  <2>1. ~general.open /\ (m = "server" => ~session.open)
    BY <1>4, <1>8 DEF ProbeOf, CanProbe
  <2>2. ActiveServer' = IF m = "server" THEN ActiveServer \cup {p} ELSE ActiveServer
    BY <1>6, <1>7 DEF ActiveServer
  <2>3. BackInTime'
    BY <1>5, <1>6, <1>7, <2>1, <2>2 DEF Exclusive, BackInTime, ActiveServer
  <2>4. ProbesOut'
    BY <1>2, <1>4, <1>5, <1>6, <1>7, <1>8, <2>1, <2>2 DEF Exclusive, ProbesOut, ActiveServer
  <2>5. GeneralProbeAlone'
    BY <1>4, <1>6, <1>7, <1>8 DEF Exclusive, ProbesOut, GeneralProbeAlone
  <2>6. SessionProbeAlone'
    BY <1>2, <1>4, <1>6, <1>7, <1>8, <2>1, <2>2
       DEF Exclusive, ProbesOut, SessionProbeAlone, ActiveServer
  <2> QED BY <2>3, <2>4, <2>5, <2>6 DEF Exclusive
<1>9. CASE ProbeOf(m) = "general"
  <2>1. general.open /\ general.left = 0
    BY <1>9 DEF ProbeOf, CanProbe
  <2>2. Active = {}
    BY <1>4, <2>1, NobodyElseOut
  <2>3. Active' = {p} /\ ActiveServer' = IF m = "server" THEN {p} ELSE {}
    BY <1>6, <2>2 DEF ActiveServer
  <2>4. BackInTime'
    BY <1>6, <1>9, <2>3 DEF BackInTime
  <2>5. ProbesOut'
    BY <1>2, <1>4, <1>5, <1>6, <1>9, <2>3 DEF Exclusive, ProbesOut
  <2>6. GeneralProbeAlone' /\ SessionProbeAlone'
    BY <1>6, <1>9, <2>3 DEF GeneralProbeAlone, SessionProbeAlone
  <2> QED BY <2>4, <2>5, <2>6 DEF Exclusive
<1>10. CASE ProbeOf(m) = "session"
  <2>1. ~general.open /\ m = "server" /\ session.open /\ session.left = 0
    BY <1>4, <1>10 DEF ProbeOf, CanProbe
  <2>2. ActiveServer = {}
    <3>1. SUFFICES ASSUME NEW q \in ActiveServer PROVE FALSE
      OBVIOUS
    <3>2. probe[q] = "general"
      BY <1>4, <2>1, NoServerCallOut
    <3> QED BY <1>2, <2>1, <3>2 DEF Exclusive, ProbesOut, ActiveServer, Active
  <2>3. ActiveServer' = {p}
    BY <1>6, <1>7, <2>1, <2>2 DEF ActiveServer
  <2>4. BackInTime'
    BY <1>5, <1>6, <1>10, <2>1, <2>3 DEF BackInTime
  <2>5. ProbesOut'
    BY <1>2, <1>4, <1>5, <1>6, <1>10, <2>1, <2>3 DEF Exclusive, ProbesOut
  <2>6. GeneralProbeAlone'
    BY <1>4, <1>6, <1>7, <1>10 DEF Exclusive, ProbesOut, GeneralProbeAlone
  <2>7. SessionProbeAlone'
    BY <1>6, <1>7, <1>10, <2>2, <2>3 DEF Exclusive, SessionProbeAlone, ActiveServer
  <2> QED BY <2>4, <2>5, <2>6, <2>7 DEF Exclusive
<1>11. ProbeOf(m) \in {"none", "general", "session"}
  BY DEF ProbeOf
<1> QED BY <1>8, <1>9, <1>10, <1>11

\* What a result does to the general breaker and the calls that are out: either
\* it is its probe's and nobody is out, or it sets no deadline a call misses.
LEMMA ExclusiveRecord ==
  ASSUME ShortCalls, Sound, Exclusive, NEW p \in Procs, NEW o \in Outcomes, Record(p, o)
  PROVE  /\ Exclusive'
         /\ general.open /\ ~general'.open => ReturnedWith("general")
         /\ session.open /\ ~session'.open => ReturnedWith("session")
<1>1. /\ Sound' /\ Answered(General, general, general')
      /\ IF mode[p] = "server" THEN Answered(Session, session, session')
                               ELSE session' = session
  BY SoundRecord
<1>2. pc[p] = "recording" /\ Leave(p)
  BY DEF Record
<1>3. /\ pc'[p] = "idle" /\ probe'[p] = "none" /\ Active' = Active \ {p} /\ p \in Active
      /\ \A q \in Procs \ {p} : /\ pc'[q] = pc[q] /\ mode'[q] = mode[q]
                                /\ age'[q] = age[q] /\ probe'[q] = probe[q]
  BY <1>2, LeaveFacts DEF Active
<1>4. Active \subseteq Procs /\ ActiveServer' = ActiveServer \ {p}
  BY <1>3 DEF Active, ActiveServer
<1>5. /\ general.probing => general.open /\ general.left = 0
      /\ session.probing => session.open /\ session.left = 0
  BY DEF Sound, WellFormed
<1>6. \A q \in Procs : q \notin Active => probe[q] = "none"
  BY DEF Sound, ProbeMarks, Active
<1>7. \A q \in Procs : q \notin Active' => probe'[q] = "none"
  BY <1>1 DEF Sound, ProbeMarks, Active
<1>8. \A q \in Procs : probe[q] = "session" => q \in ActiveServer
  BY <1>6 DEF Sound, ProbeMarks, ActiveServer, Active
<1>9. CASE general.probing
  <2>1. Active = {p} /\ probe[p] = "general"
    BY <1>3, <1>5, <1>9, NobodyElseOut
  <2>2. Active' = {} /\ ActiveServer' = {}
    BY <1>3, <2>1 DEF ActiveServer
  <2>3. Exclusive'
    BY <1>7, <2>2 DEF Exclusive, BackInTime, ProbesOut, GeneralProbeAlone,
         SessionProbeAlone
  <2>4. ReturnedWith("general")
    BY <1>2, <1>3, <2>1 DEF ReturnedWith
  <2>5. session.open /\ ~session'.open => ReturnedWith("session")
    <3>1. SUFFICES ASSUME session.open, ~session'.open PROVE FALSE
      OBVIOUS
    <3>2. mode[p] = "server" /\ session.probing
      BY <1>1, <3>1 DEF Answered
    <3> QED BY <1>3, <2>1, <3>2 DEF Exclusive, ProbesOut, ActiveServer
  <2> QED BY <2>3, <2>4, <2>5
<1>10. CASE ~general.probing
  <2>1. \A q \in Procs : probe[q] # "general"
    BY <1>10 DEF Exclusive, ProbesOut
  <2>2. general.open => general'.open
    BY <1>1, <1>10 DEF Answered
  <2>3. /\ \A q \in Active' : OpTimeout - age'[q] <= OpTimeout
        /\ OpTimeout < Cooldown /\ OpTimeout < SessionCooldown
        /\ OpTimeout \in Nat /\ Cooldown \in Nat /\ SessionCooldown \in Nat
    BY <1>3, <1>4, AgeFacts, GuardAssumption DEF ShortCalls
  <2>4. general'.open =>
          (general.open /\ general'.left = general.left) \/ general'.left >= Cooldown
    BY <1>1, SettingsFacts DEF Answered
  <2>5. general'.left \in Nat /\ session'.left \in Nat
    BY <1>1 DEF Sound, TypeOK, Breaker
  <2>6. general'.open => \A q \in Active' : OpTimeout - age'[q] < general'.left
    <3>1. SUFFICES ASSUME general'.open, NEW q \in Active'
                   PROVE  OpTimeout - age'[q] < general'.left
      OBVIOUS
    <3>2. q \in Procs /\ q \in Active /\ age'[q] = age[q] /\ age[q] \in Nat
      BY <1>3, <1>4, AgeFacts
    <3>3. CASE general.open /\ general'.left = general.left
      BY <2>1, <3>2, <3>3 DEF Exclusive, BackInTime
    <3>4. CASE general'.left >= Cooldown
      BY <2>3, <2>5, <3>2, <3>4
    <3> QED BY <2>4, <3>1, <3>3, <3>4
  <2>7. GeneralProbeAlone' /\ \A q \in Procs : probe'[q] # "general"
    BY <1>3, <2>1 DEF GeneralProbeAlone, Active
  <2>8. CASE mode[p] # "server"
    <3>1. session' = session /\ ActiveServer' = ActiveServer
      BY <1>1, <1>4, <2>8 DEF ActiveServer
    <3>2. BackInTime'
      BY <1>3, <2>6, <3>1 DEF Exclusive, BackInTime, ActiveServer, Active
    <3>3. ProbesOut'
      BY <1>3, <2>7, <3>1 DEF Exclusive, ProbesOut, ActiveServer, Active
    <3>4. SessionProbeAlone'
      BY <1>3, <3>1 DEF Exclusive, SessionProbeAlone, Active
    <3> QED BY <2>2, <2>7, <3>1, <3>2, <3>3, <3>4 DEF Exclusive
  <2>9. CASE mode[p] = "server" /\ session.probing
    <3>1. p \in ActiveServer
      BY <1>3, <2>9 DEF ActiveServer
    <3>2. probe[p] = "session"
      BY <2>9, <3>1 DEF Exclusive, ProbesOut
    <3>3. ActiveServer = {p}
      BY <1>3, <3>2 DEF Exclusive, SessionProbeAlone
    <3>4. ActiveServer' = {}
      BY <1>4, <3>3
    <3>5. \A q \in Procs : probe'[q] # "session"
      BY <1>3, <1>8, <3>3
    <3>6. BackInTime' /\ ProbesOut' /\ SessionProbeAlone'
      BY <1>4, <2>6, <2>7, <3>4, <3>5 DEF BackInTime, ProbesOut, SessionProbeAlone, Active
    <3>7. ReturnedWith("session")
      BY <1>2, <1>3, <3>2 DEF ReturnedWith
    <3> QED BY <2>2, <2>7, <3>6, <3>7 DEF Exclusive
  <2>10. CASE mode[p] = "server" /\ ~session.probing
    <3>1. \A q \in Procs : probe[q] # "session"
      BY <2>10 DEF Exclusive, ProbesOut
    <3>2. /\ session.open => session'.open
          /\ ~session'.probing
          /\ session'.open =>
               (session.open /\ session'.left = session.left)
               \/ session'.left >= SessionCooldown
      BY <1>1, <2>10, SettingsFacts DEF Answered
    <3>3. \A q \in Procs : probe'[q] # "session"
      BY <1>3, <3>1
    <3>4. session'.open => \A q \in ActiveServer' : OpTimeout - age'[q] < session'.left
      <4>1. SUFFICES ASSUME session'.open, NEW q \in ActiveServer'
                     PROVE  OpTimeout - age'[q] < session'.left
        OBVIOUS
      <4>2. /\ q \in Procs /\ q \in ActiveServer /\ age'[q] = age[q] /\ age[q] \in Nat
            /\ probe[q] = "none"
        <5>1. q \in ActiveServer /\ q # p
          BY <1>4
        <5>2. q \in Procs
          BY <5>1 DEF ActiveServer, Active
        <5>3. probe[q] \in {"none", "general", "session"}
          BY <5>2 DEF Sound, TypeOK
        <5> QED BY <1>3, <2>1, <3>1, <5>1, <5>2, <5>3, AgeFacts
      <4>3. CASE session.open /\ session'.left = session.left
        BY <4>2, <4>3 DEF Exclusive, BackInTime
      <4>4. CASE session'.left >= SessionCooldown
        BY <2>3, <2>5, <4>2, <4>4
      <4> QED BY <3>2, <4>1, <4>3, <4>4
    <3>5. BackInTime' /\ ProbesOut' /\ SessionProbeAlone'
      BY <1>4, <2>6, <2>7, <3>2, <3>3, <3>4 DEF BackInTime, ProbesOut, SessionProbeAlone, Active
    <3> QED BY <2>2, <2>7, <3>2, <3>5 DEF Exclusive
  <2> QED BY <2>8, <2>9, <2>10
<1> QED BY <1>9, <1>10

\* The clock: the calls that are out get older as the cooldowns get shorter.
LEMMA ExclusiveTick ==
  ASSUME Sound, Exclusive, Tick
  PROVE  Exclusive'
<1>1. /\ \A p \in Active : age[p] < OpTimeout
      /\ general' = Elapse(general) /\ session' = Elapse(session)
      /\ age' = [p \in Procs |-> IF p \in Active THEN age[p] + 1 ELSE 0]
      /\ pc' = pc /\ mode' = mode /\ probe' = probe
  BY DEF Tick
<1>2. /\ general'.open = general.open /\ general'.probing = general.probing
      /\ general'.left = IF general.left > 0 THEN general.left - 1 ELSE 0
      /\ session'.open = session.open /\ session'.probing = session.probing
      /\ session'.left = IF session.left > 0 THEN session.left - 1 ELSE 0
  BY <1>1, ElapseFacts DEF Sound
<1>3. Active' = Active /\ ActiveServer' = ActiveServer
  BY <1>1 DEF Active, ActiveServer
<1>4. Active \subseteq Procs /\ ActiveServer \subseteq Active
  BY DEF Active, ActiveServer
<1>5. general.open =>
        \A p \in Active : probe[p] = "general" \/ OpTimeout - age'[p] < general'.left
  <2>1. SUFFICES ASSUME general.open, NEW p \in Active, probe[p] # "general"
                 PROVE  OpTimeout - age'[p] < general'.left
    OBVIOUS
  <2>2. OpTimeout - age[p] < general.left /\ age[p] < OpTimeout /\ age'[p] = age[p] + 1
    BY <1>1, <1>4, <2>1 DEF Exclusive, BackInTime
  <2>3. age[p] \in Nat /\ OpTimeout \in Nat /\ general.left \in Nat
    BY <1>4, AgeFacts
  <2> QED BY <1>2, <2>2, <2>3
<1>6. session.open =>
        \A p \in ActiveServer : probe[p] # "none" \/ OpTimeout - age'[p] < session'.left
  <2>1. SUFFICES ASSUME session.open, NEW p \in ActiveServer, probe[p] = "none"
                 PROVE  OpTimeout - age'[p] < session'.left
    OBVIOUS
  <2>2. OpTimeout - age[p] < session.left /\ age[p] < OpTimeout /\ age'[p] = age[p] + 1
    BY <1>1, <1>4, <2>1 DEF Exclusive, BackInTime
  <2>3. age[p] \in Nat /\ OpTimeout \in Nat /\ session.left \in Nat
    BY <1>4, AgeFacts
  <2> QED BY <1>2, <2>2, <2>3
<1>7. BackInTime'
  BY <1>1, <1>2, <1>3, <1>5, <1>6 DEF BackInTime
<1>8. ProbesOut' /\ GeneralProbeAlone' /\ SessionProbeAlone'
  BY <1>1, <1>2, <1>3 DEF Exclusive, ProbesOut, GeneralProbeAlone, SessionProbeAlone
<1> QED BY <1>7, <1>8 DEF Exclusive

LEMMA OnlyMovesFacts ==
  ASSUME NEW p \in Procs, Sound,
         Allow(p) \/ Acquire(p) \/ FreeSlot(p)
  PROVE  /\ UNCHANGED <<general, session, mode, age, probe>>
         /\ Active' = Active
BY DEF Allow, Acquire, FreeSlot, breakerVars, Active, Sound, TypeOK

LEMMA RejectFacts ==
  ASSUME NEW p \in Procs, Sound, RejectRate(p) \/ RejectConcurrency(p)
  PROVE  /\ UNCHANGED <<general, session>>
         /\ Active' = Active \ {p} /\ p \in Active
         /\ probe'[p] = "none"
         /\ \A q \in Procs \ {p} : mode'[q] = mode[q] /\ age'[q] = age[q] /\ probe'[q] = probe[q]
<1>1. Leave(p) /\ pc[p] # "idle" /\ UNCHANGED <<general, session>>
  BY DEF RejectRate, RejectConcurrency, breakerVars
<1> QED BY <1>1, LeaveFacts DEF Active

\* One step of the guard: the invariant, and what may close a breaker.
LEMMA ExclusiveStep ==
  ASSUME ShortCalls, Sound, Exclusive, [Next]_vars
  PROVE  /\ Exclusive'
         /\ general.open /\ ~general'.open => ReturnedWith("general")
         /\ session.open /\ ~session'.open => ReturnedWith("session")
<1> DEFINE Goal == /\ Exclusive'
                   /\ general.open /\ ~general'.open => ReturnedWith("general")
                   /\ session.open /\ ~session'.open => ReturnedWith("session")
<1>1. ASSUME NEW p \in Procs, NEW m \in Modes, RejectCircuitOpen(p, m) PROVE Goal
  BY <1>1, ExclusiveShrink DEF RejectCircuitOpen, vars, Active
<1>2. ASSUME NEW p \in Procs, NEW m \in Modes, Admit(p, m) PROVE Goal
  <2>1. general'.open = general.open /\ session'.open = session.open
    BY <1>2 DEF Admit, Sound, TypeOK, Breaker
  <2> QED BY <1>2, <2>1, ExclusiveAdmit
<1>3. ASSUME NEW p \in Procs, Allow(p) \/ Acquire(p) \/ FreeSlot(p) PROVE Goal
  BY <1>3, OnlyMovesFacts, ExclusiveShrink
<1>4. ASSUME NEW p \in Procs, RejectRate(p) \/ RejectConcurrency(p) PROVE Goal
  <2>1. Active \subseteq Procs
    BY DEF Active
  <2> QED BY <1>4, <2>1, RejectFacts, ExclusiveShrink
<1>5. ASSUME NEW p \in Procs, NEW o \in Outcomes, Record(p, o) PROVE Goal
  BY <1>5, ExclusiveRecord
<1>6. ASSUME Refill PROVE Goal
  BY <1>6, ExclusiveShrink DEF Refill, breakerVars, callVars, Active
<1>7. ASSUME Tick PROVE Goal
  <2>1. general'.open = general.open /\ session'.open = session.open
    BY <1>7, ElapseFacts DEF Tick, Sound
  <2> QED BY <1>7, <2>1, ExclusiveTick
<1>8. ASSUME UNCHANGED vars PROVE Goal
  BY <1>8, ExclusiveShrink DEF vars, Active
<1> HIDE DEF Goal
<1>9. ASSUME NEW p \in Procs, Enter(p) PROVE Goal
  BY <1>1, <1>2, <1>9 DEF Enter
<1>10. ASSUME NEW p \in Procs, Proceed(p) PROVE Goal
  BY <1>3, <1>4, <1>5, <1>10 DEF Proceed
<1>11. Goal
  BY <1>6, <1>7, <1>8, <1>9, <1>10 DEF Next
<1> QED BY <1>11 DEF Goal

\* With calls shorter than the cooldowns, probes are always alone.
THEOREM ExclusiveAlways ==
  ASSUME ShortCalls
  PROVE  Spec => [](Sound /\ Exclusive)
<1>1. Init => Sound /\ Exclusive
  BY SoundInit, ExclusiveInit
<1>2. Sound /\ Exclusive /\ [Next]_vars => (Sound /\ Exclusive)'
  BY SoundStep, ExclusiveStep
<1> QED BY <1>1, <1>2, PTL DEF Spec

\* While the general breaker's probe is out no other call is past the breaker.
THEOREM GeneralProbeAlwaysAlone ==
  ASSUME ShortCalls
  PROVE  Spec => []GeneralProbeAlone
<1>1. Exclusive => GeneralProbeAlone
  BY DEF Exclusive
<1> QED BY <1>1, ExclusiveAlways, PTL

\* While the session breaker's probe is out no other server-session call is.
THEOREM SessionProbeAlwaysAlone ==
  ASSUME ShortCalls
  PROVE  Spec => []SessionProbeAlone
<1>1. Exclusive => SessionProbeAlone
  BY DEF Exclusive
<1> QED BY <1>1, ExclusiveAlways, PTL

\* Only the result of a breaker's own probe closes it.
THEOREM ProbeAlwaysDecides ==
  ASSUME ShortCalls
  PROVE  Spec => OnlyProbeCloses
<1>1. Sound /\ Exclusive /\ [Next]_vars =>
        [ /\ general.open /\ ~general'.open => ReturnedWith("general")
          /\ session.open /\ ~session'.open => ReturnedWith("session") ]_vars
  BY ExclusiveStep
<1> QED BY <1>1, ExclusiveAlways, PTL DEF Spec, OnlyProbeCloses

------------------------------------------------------------------------------
(* A probe that was turned away by another limit.                           *)

LEMMA WedgedStep ==
  ASSUME Sound, [Next]_vars
  PROVE  (Wedged => Wedged') /\ (SessionWedged => SessionWedged')
<1> DEFINE Goal == (Wedged => Wedged') /\ (SessionWedged => SessionWedged')
<1>1. /\ general \in Breaker /\ session \in Breaker
      /\ general.probing => general.open
      /\ session.probing => session.open
  BY DEF Sound, WellFormed
<1>2. \A p \in Procs : pc[p] # "idle" <=> p \in Active
  BY DEF Active
<1>3. ASSUME NEW p \in Procs, NEW m \in Modes, RejectCircuitOpen(p, m) PROVE Goal
  BY <1>3 DEF RejectCircuitOpen, vars, Wedged, SessionWedged, Active, ActiveServer
<1>4. ASSUME NEW p \in Procs, NEW m \in Modes, Admit(p, m) PROVE Goal
  <2>1. ~general.probing /\ (m = "server" => ~session.probing)
    BY <1>1, <1>4 DEF Admit, BlockedFor, Blocking
  <2>2. SessionWedged => SessionWedged'
    <3>1. SUFFICES ASSUME SessionWedged PROVE SessionWedged'
      OBVIOUS
    <3>2. m = "caller" /\ session.probing
      BY <2>1, <3>1 DEF SessionWedged, Modes
    <3>3. session'.probing
      BY <1>1, <1>4, <3>2 DEF Admit, Breaker
    <3>4. \A q \in Procs : pc'[q] # "idle" /\ mode'[q] = "server" => q \in ActiveServer
      BY <1>4, <3>2 DEF Admit, ActiveServer, Active, Sound, TypeOK
    <3> QED BY <3>1, <3>3, <3>4 DEF SessionWedged, ActiveServer, Active
  <2> QED BY <2>1, <2>2 DEF Wedged
<1>5. ASSUME NEW p \in Procs, Allow(p) \/ Acquire(p) \/ FreeSlot(p) PROVE Goal
  BY <1>5, OnlyMovesFacts DEF Wedged, SessionWedged, ActiveServer
<1>6. ASSUME NEW p \in Procs, RejectRate(p) \/ RejectConcurrency(p) PROVE Goal
  <2>1. Active \subseteq Procs
    BY DEF Active
  <2> QED BY <1>6, <2>1, RejectFacts DEF Wedged, SessionWedged, ActiveServer
<1>7. ASSUME NEW p \in Procs, NEW o \in Outcomes, Record(p, o) PROVE Goal
  <2>1. /\ Active' = Active \ {p} /\ p \in Active
        /\ \A q \in Procs \ {p} : mode'[q] = mode[q]
    BY <1>2, <1>7, LeaveFacts DEF Record
  <2>2. SessionWedged => mode[p] # "server"
    BY <2>1 DEF SessionWedged, ActiveServer
  <2>3. SessionWedged => session' = session
    BY <1>7, <2>2, SoundRecord
  <2>4. ActiveServer' \subseteq ActiveServer
    BY <2>1 DEF ActiveServer, Active
  <2> QED BY <2>1, <2>3, <2>4 DEF Wedged, SessionWedged
<1>8. ASSUME Refill PROVE Goal
  BY <1>8 DEF Refill, breakerVars, callVars, Wedged, SessionWedged, Active, ActiveServer
<1>9. ASSUME Tick PROVE Goal
  <2>1. /\ general'.probing = general.probing /\ session'.probing = session.probing
        /\ pc' = pc /\ mode' = mode
    BY <1>9, ElapseFacts DEF Tick, Sound
  <2> QED BY <2>1 DEF Wedged, SessionWedged, Active, ActiveServer
<1>10. ASSUME UNCHANGED vars PROVE Goal
  BY <1>10 DEF vars, Wedged, SessionWedged, Active, ActiveServer
<1> HIDE DEF Goal
<1>11. ASSUME NEW p \in Procs, Enter(p) PROVE Goal
  BY <1>3, <1>4, <1>11 DEF Enter
<1>12. ASSUME NEW p \in Procs, Proceed(p) PROVE Goal
  BY <1>5, <1>6, <1>7, <1>12 DEF Proceed
<1>13. Goal
  BY <1>8, <1>9, <1>10, <1>11, <1>12 DEF Next
<1> QED BY <1>13 DEF Goal

\* A lost probe is lost for good, for every setting and every timing: nothing
\* the guard ever does again lets a call of that kind through.
THEOREM WedgedIsForever == Spec => WedgedForever
<1>1. Sound /\ [Next]_vars =>
        [(Wedged => Wedged') /\ (SessionWedged => SessionWedged')]_vars
  BY WedgedStep
<1> QED BY <1>1, SoundAlways, PTL DEF Spec, WedgedForever

------------------------------------------------------------------------------
(* The general breaker implements CircuitBreaker.                           *)

LEMMA CircuitInit == Init => CB!Init
BY DEF Init, CB!Init, CircuitState, Active, Fresh

\* Nobody is out when the cooldown ends, and one call alone when it is over.
LEMMA CircuitStep ==
  ASSUME ShortCalls, Sound, Exclusive, [Next]_vars
  PROVE  [CB!Next]_<<CircuitState, Active>>
<1> DEFINE Goal == [CB!Next]_<<CircuitState, Active>>
<1>1. /\ general \in Breaker /\ general.left \in Nat /\ general.open \in BOOLEAN
      /\ general.probing \in BOOLEAN
      /\ general.probing => general.open /\ general.left = 0
  BY DEF Sound, WellFormed, Breaker
<1>2. Active \subseteq Procs /\ \A p \in Procs : pc[p] # "idle" <=> p \in Active
  BY DEF Active
<1>3. /\ ~general.open => CircuitState = "closed"
      /\ general.open /\ general.left > 0 => CircuitState = "cooling"
      /\ general.open /\ general.left = 0 /\ ~general.probing => CircuitState = "ready"
      /\ general.probing => CircuitState = "probing"
  BY <1>1 DEF CircuitState
<1>4. Sound'
  BY SoundStep
<1>5. /\ general'.left \in Nat /\ general'.open \in BOOLEAN
      /\ general'.probing => general'.open /\ general'.left = 0
  BY <1>4 DEF Sound, WellFormed, Breaker
<1>6. /\ ~general'.open => CircuitState' = "closed"
      /\ general'.open /\ general'.left > 0 => CircuitState' = "cooling"
      /\ general'.open /\ general'.left = 0 /\ ~general'.probing => CircuitState' = "ready"
      /\ general'.probing => CircuitState' = "probing"
  BY <1>5 DEF CircuitState
<1>7. ASSUME UNCHANGED <<general, pc>> PROVE Goal
  BY <1>7 DEF CircuitState, Active
<1>8. ASSUME NEW p \in Procs, NEW m \in Modes, Admit(p, m) PROVE Goal
  <2>1. /\ p \notin Active /\ Active' = Active \cup {p}
        /\ general'.open = general.open /\ general'.left = general.left
        /\ general'.probing = (general.probing \/ ProbeOf(m) = "general")
    BY <1>1, <1>2, <1>8 DEF Admit, Active, Sound, TypeOK, Breaker
  <2>2. ~general.probing /\ (general.open => general.left = 0)
    BY <1>1, <1>8 DEF Admit, BlockedFor, Blocking
  <2>3. CASE general.open
    <3>1. CircuitState = "ready" /\ ProbeOf(m) = "general"
      BY <1>3, <2>2, <2>3 DEF ProbeOf, CanProbe
    <3>2. Active = {}
      BY <2>2, <2>3, NobodyElseOut
    <3>3. CircuitState' = "probing" /\ Active' = {p}
      BY <1>6, <2>1, <3>1, <3>2
    <3> QED BY <3>1, <3>3 DEF CB!Next, CB!Probe
  <2>4. CASE ~general.open
    <3>1. CircuitState = "closed" /\ CircuitState' = "closed"
      BY <1>3, <1>6, <2>1, <2>4
    <3> QED BY <2>1, <3>1 DEF CB!Next, CB!Admit
  <2> QED BY <2>3, <2>4
<1>9. ASSUME NEW p \in Procs, Allow(p) \/ Acquire(p) \/ FreeSlot(p) PROVE Goal
  BY <1>9, OnlyMovesFacts DEF CircuitState
<1>10. ASSUME NEW p \in Procs, RejectRate(p) \/ RejectConcurrency(p) PROVE Goal
  <2>1. general' = general /\ Active' = Active \ {p} /\ p \in Active
    BY <1>10, RejectFacts
  <2>2. CircuitState' = CircuitState
    BY <2>1 DEF CircuitState
  <2>3. CASE general.open /\ general.left = 0
    <3>1. general.probing /\ Active = {p}
      BY <2>1, <2>3, NobodyElseOut
    <3> QED BY <1>3, <2>1, <2>2, <3>1 DEF CB!Next, CB!Lose
  <2>4. CASE ~(general.open /\ general.left = 0)
    <3>1. CircuitState \in {"closed", "cooling"}
      BY <1>1, <1>3, <2>4
    <3> QED BY <2>1, <2>2, <3>1 DEF CB!Next, CB!Return
  <2> QED BY <2>3, <2>4
<1>11. ASSUME NEW p \in Procs, NEW o \in Outcomes, Record(p, o) PROVE Goal
  <2>1. Active' = Active \ {p} /\ p \in Active
    BY <1>2, <1>11, LeaveFacts DEF Record
  <2>2. /\ ~general'.probing
        /\ general.open /\ ~general.probing => general'.open
        /\ general'.open =>
             \/ general.open /\ ~general.probing /\ general'.left = general.left
             \/ general'.left >= Cooldown
    BY <1>11, SoundRecord, SettingsFacts DEF Answered
  <2>3. Cooldown \in Nat \ {0}
    BY GuardAssumption
  <2>4. CASE general.open /\ general.left = 0
    <3>1. general.probing /\ Active = {p}
      BY <2>1, <2>4, NobodyElseOut
    <3>2. CircuitState = "probing" /\ CircuitState' \in {"closed", "cooling"}
      BY <1>3, <1>5, <1>6, <2>2, <2>3, <3>1
    <3> QED BY <2>1, <3>1, <3>2 DEF CB!Next, CB!Verdict
  <2>5. CASE ~(general.open /\ general.left = 0)
    <3>1. ~general.probing
      BY <1>1, <2>5
    <3>2. general'.open => general'.left > 0
      BY <1>1, <1>5, <2>2, <2>3, <2>5
    <3>3. /\ CircuitState \in {"closed", "cooling"}
          /\ CircuitState' \in {CircuitState, "cooling"}
      BY <1>1, <1>3, <1>5, <1>6, <2>2, <2>5, <3>1, <3>2
    <3> QED BY <2>1, <3>3 DEF CB!Next, CB!Return
  <2> QED BY <2>4, <2>5
<1>12. ASSUME Tick PROVE Goal
  <2>1. /\ general'.open = general.open /\ general'.probing = general.probing
        /\ general'.left = IF general.left > 0 THEN general.left - 1 ELSE 0
    BY <1>12, ElapseFacts DEF Tick, Sound
  <2>2. Active' = Active /\ \A p \in Active : age[p] < OpTimeout
    BY <1>12 DEF Tick, Active
  <2>3. CASE general.open /\ general.left = 1
    <3>1. CircuitState = "cooling" /\ CircuitState' = "ready"
      BY <1>1, <1>3, <1>6, <2>1, <2>3
    <3>2. Active = {}
      <4>1. SUFFICES ASSUME NEW p \in Active PROVE FALSE
        OBVIOUS
      <4>2. probe[p] # "general"
        BY <1>1, <1>2, <2>3 DEF Exclusive, ProbesOut
      <4>3. OpTimeout - age[p] < 1
        BY <2>3, <4>2 DEF Exclusive, BackInTime
      <4> QED BY <1>2, <2>2, <4>3, AgeFacts
    <3> QED BY <2>2, <3>1, <3>2 DEF CB!Next, CB!CoolDown
  <2>4. CASE ~(general.open /\ general.left = 1)
    <3>1. CircuitState' = CircuitState
      BY <1>1, <1>3, <1>5, <1>6, <2>1, <2>4
    <3> QED BY <2>2, <3>1
  <2> QED BY <2>3, <2>4
<1>13. ASSUME NEW p \in Procs, NEW m \in Modes, RejectCircuitOpen(p, m) PROVE Goal
  BY <1>7, <1>13 DEF RejectCircuitOpen, vars
<1>14. ASSUME Refill PROVE Goal
  BY <1>7, <1>14 DEF Refill, breakerVars, callVars
<1>15. ASSUME UNCHANGED vars PROVE Goal
  BY <1>7, <1>15 DEF vars
<1> HIDE DEF Goal
<1>16. ASSUME NEW p \in Procs, Enter(p) PROVE Goal
  BY <1>8, <1>13, <1>16 DEF Enter
<1>17. ASSUME NEW p \in Procs, Proceed(p) PROVE Goal
  BY <1>9, <1>10, <1>11, <1>17 DEF Proceed
<1>18. Goal
  BY <1>12, <1>14, <1>15, <1>16, <1>17 DEF Next
<1> QED BY <1>18 DEF Goal

------------------------------------------------------------------------------
(* The session breaker implements it too, for server-session calls.         *)

\* While the session breaker cools down, the general breaker's probe is none of
\* the server-session calls: it was not let in, or its result came back.
CoolsAlone ==
  session.open /\ session.left > 0 => \A p \in ActiveServer : probe[p] # "general"

\* What an admission does to the server-session calls.
LEMMA ServerAdmitted ==
  ASSUME Sound, NEW p \in Procs, NEW m \in Modes, Admit(p, m)
  PROVE  /\ p \notin Active
         /\ ActiveServer' = IF m = "server" THEN ActiveServer \cup {p} ELSE ActiveServer
         /\ probe'[p] = ProbeOf(m) /\ \A q \in Active : probe'[q] = probe[q]
         /\ session'.open = session.open /\ session'.left = session.left
         /\ session'.probing = (session.probing \/ ProbeOf(m) = "session")
         /\ m = "server" => ~session.probing /\ (session.open => session.left = 0)
         /\ ~general.probing
<1>1. /\ pc \in [Procs -> Points] /\ mode \in [Procs -> Modes]
      /\ probe \in [Procs -> {"none", "general", "session"}]
      /\ session \in Breaker /\ session.left \in Nat
      /\ general.probing => general.open
  BY DEF Sound, TypeOK, Breaker, WellFormed
<1>2. pc[p] = "idle" /\ ~BlockedFor(m)
  BY DEF Admit
<1>3. /\ p \notin Active /\ Active \subseteq Procs \ {p}
      /\ Active' = Active \cup {p} /\ mode'[p] = m /\ probe'[p] = ProbeOf(m)
      /\ \A q \in Procs \ {p} : mode'[q] = mode[q] /\ probe'[q] = probe[q]
  BY <1>1, <1>2 DEF Admit, Active
<1>4. ActiveServer' = IF m = "server" THEN ActiveServer \cup {p} ELSE ActiveServer
  BY <1>3 DEF ActiveServer
<1>5. /\ session'.open = session.open /\ session'.left = session.left
      /\ session'.probing = (session.probing \/ ProbeOf(m) = "session")
  BY <1>1 DEF Admit, Breaker
<1>6. session.probing => session.open
  BY DEF Sound, WellFormed
<1>7. /\ m = "server" => ~session.probing /\ (session.open => session.left = 0)
      /\ ~general.probing
  BY <1>1, <1>2, <1>6 DEF BlockedFor, Blocking
<1> QED BY <1>3, <1>4, <1>5, <1>7

\* What the end of a call does to them.
LEMMA ServerLeft ==
  ASSUME Sound, NEW p \in Procs, Leave(p), pc[p] # "idle"
  PROVE  /\ p \in Active
         /\ ActiveServer' = ActiveServer \ {p}
         /\ p \in ActiveServer <=> mode[p] = "server"
         /\ \A q \in ActiveServer' : q \in ActiveServer /\ probe'[q] = probe[q]
<1>1. /\ Active' = Active \ {p}
      /\ \A q \in Procs \ {p} : mode'[q] = mode[q] /\ probe'[q] = probe[q]
  BY LeaveFacts
<1>2. p \in Active /\ Active \subseteq Procs
  BY DEF Active
<1> QED BY <1>1, <1>2 DEF ActiveServer

LEMMA CoolsAloneStep == Sound /\ Exclusive /\ CoolsAlone /\ [Next]_vars => CoolsAlone'
<1> SUFFICES ASSUME Sound, Exclusive, CoolsAlone, [Next]_vars PROVE CoolsAlone'
  OBVIOUS
<1>1. ASSUME UNCHANGED <<session, pc, mode, probe>> PROVE CoolsAlone'
  BY <1>1 DEF CoolsAlone, ActiveServer, Active
<1>2. ASSUME NEW p \in Procs, NEW m \in Modes, Admit(p, m) PROVE CoolsAlone'
  <2>1. ActiveServer \subseteq Active
    BY DEF ActiveServer
  <2>2. session.left \in Nat
    BY DEF Sound, TypeOK, Breaker
  <2>3. CASE m = "server"
    <3>1. /\ session'.open = session.open /\ session'.left = session.left
          /\ session.open => session.left = 0
      BY <1>2, <2>3, ServerAdmitted
    <3> QED BY <2>2, <3>1 DEF CoolsAlone
  <2>4. CASE m # "server"
    BY <1>2, <2>1, <2>4, ServerAdmitted DEF CoolsAlone
  <2> QED BY <2>3, <2>4
<1>3. ASSUME NEW p \in Procs, Allow(p) \/ Acquire(p) \/ FreeSlot(p) PROVE CoolsAlone'
  BY <1>3, OnlyMovesFacts DEF CoolsAlone, ActiveServer
<1>4. ASSUME NEW p \in Procs, RejectRate(p) \/ RejectConcurrency(p) PROVE CoolsAlone'
  <2>1. Leave(p) /\ pc[p] # "idle" /\ session' = session
    BY <1>4 DEF RejectRate, RejectConcurrency, breakerVars
  <2> QED BY <2>1, ServerLeft DEF CoolsAlone
<1>5. ASSUME NEW p \in Procs, NEW o \in Outcomes, Record(p, o) PROVE CoolsAlone'
  <2>1. Leave(p) /\ pc[p] # "idle"
    BY <1>5 DEF Record
  <2>2. SUFFICES ASSUME NEW q \in ActiveServer', probe'[q] = "general" PROVE FALSE
    BY DEF CoolsAlone
  <2>3. q \in ActiveServer /\ probe[q] = "general" /\ q # p /\ p \in Active
    BY <2>1, <2>2, ServerLeft
  <2> QED BY <2>3 DEF Exclusive, GeneralProbeAlone, ActiveServer
<1>6. ASSUME Tick PROVE CoolsAlone'
  <2>1. /\ session'.open = session.open
        /\ session'.left = IF session.left > 0 THEN session.left - 1 ELSE 0
        /\ session.left \in Nat
    BY <1>6, ElapseFacts DEF Tick, Sound, TypeOK, Breaker
  <2>2. ActiveServer' = ActiveServer /\ probe' = probe
    BY <1>6 DEF Tick, ActiveServer, Active
  <2> QED BY <2>1, <2>2 DEF CoolsAlone
<1>7. ASSUME Refill \/ UNCHANGED vars PROVE CoolsAlone'
  BY <1>1, <1>7 DEF Refill, breakerVars, callVars, vars
<1>8. ASSUME NEW p \in Procs, Enter(p) PROVE CoolsAlone'
  BY <1>1, <1>2, <1>8 DEF Enter, RejectCircuitOpen, vars
<1>9. ASSUME NEW p \in Procs, Proceed(p) PROVE CoolsAlone'
  BY <1>3, <1>4, <1>5, <1>9 DEF Proceed
<1> QED BY <1>6, <1>7, <1>8, <1>9 DEF Next

LEMMA SessionInit == Init => SB!Init /\ CoolsAlone
BY DEF Init, SB!Init, SessionState, ActiveServer, Active, Fresh, CoolsAlone

\* Once the cooldown is over, one server-session call at most is out.
LEMMA OneServerCallOut ==
  ASSUME Sound, Exclusive, session.open, session.left = 0, NEW p \in ActiveServer
  PROVE  ActiveServer = {p} /\ (~session.probing => general.probing)
<1>1. p \in Procs /\ p \in Active /\ ActiveServer \subseteq Active
  BY DEF ActiveServer, Active
<1>2. probe[p] = "general" \/ (probe[p] = "session" /\ session.probing)
  BY NoServerCallOut
<1>3. CASE probe[p] = "general"
  BY <1>1, <1>3 DEF Exclusive, GeneralProbeAlone, ProbesOut
<1>4. CASE probe[p] = "session" /\ session.probing
  BY <1>1, <1>4 DEF Exclusive, SessionProbeAlone
<1> QED BY <1>2, <1>3, <1>4

LEMMA SessionStep ==
  ASSUME ShortCalls, Sound, Exclusive, CoolsAlone, [Next]_vars
  PROVE  [SB!Next]_<<SessionState, ActiveServer>>
<1> DEFINE Goal == [SB!Next]_<<SessionState, ActiveServer>>
           CooledDown == session.open /\ session.left = 0
<1>1. /\ session \in Breaker /\ session.left \in Nat /\ session.open \in BOOLEAN
      /\ session.probing \in BOOLEAN
      /\ session.probing => session.open /\ session.left = 0
  BY DEF Sound, WellFormed, Breaker
<1>2. Active \subseteq Procs /\ ActiveServer \subseteq Procs
  BY DEF Active, ActiveServer
<1>3. /\ ~session.open => SessionState = "closed"
      /\ session.open /\ session.left > 0 => SessionState = "cooling"
      /\ CooledDown /\ ~session.probing /\ ActiveServer = {} => SessionState = "ready"
      /\ CooledDown /\ (session.probing \/ ActiveServer # {}) => SessionState = "probing"
  BY <1>1 DEF SessionState
<1>4. Sound'
  BY SoundStep
<1>5. /\ session'.left \in Nat /\ session'.open \in BOOLEAN
      /\ session'.probing => session'.open /\ session'.left = 0
  BY <1>4 DEF Sound, WellFormed, Breaker
<1>6. /\ ~session'.open => SessionState' = "closed"
      /\ session'.open /\ session'.left > 0 => SessionState' = "cooling"
      /\ CooledDown' /\ ~session'.probing /\ ActiveServer' = {} => SessionState' = "ready"
      /\ CooledDown' /\ (session'.probing \/ ActiveServer' # {}) => SessionState' = "probing"
  BY <1>5 DEF SessionState
<1>7. ASSUME session'.open = session.open, session'.left = session.left,
             session'.probing = session.probing, ActiveServer' = ActiveServer
      PROVE  Goal
  <2>1. SessionState' = SessionState
    BY <1>7 DEF SessionState
  <2> QED BY <1>7, <2>1
<1>8. ASSUME NEW p \in Procs, NEW m \in Modes, Admit(p, m) PROVE Goal
  <2>1. CASE m # "server"
    <3>1. ProbeOf(m) # "session"
      BY <2>1 DEF ProbeOf
    <3> QED BY <1>1, <1>7, <1>8, <2>1, <3>1, ServerAdmitted
  <2>2. CASE m = "server" /\ ~session.open
    <3>1. SessionState = "closed" /\ SessionState' = "closed"
      BY <1>3, <1>6, <1>8, <2>2, ServerAdmitted
    <3>2. p \notin ActiveServer /\ ActiveServer' = ActiveServer \cup {p}
      BY <1>8, <2>2, ServerAdmitted DEF ActiveServer
    <3> QED BY <3>1, <3>2 DEF SB!Next, SB!Admit
  <2>3. CASE m = "server" /\ session.open
    <3>1. CooledDown /\ ~session.probing /\ ~general.probing
      BY <1>8, <2>3, ServerAdmitted
    <3>2. ActiveServer = {}
      BY <3>1, OneServerCallOut
    <3>3. ActiveServer' = {p} /\ CooledDown'
      BY <1>8, <2>3, <3>1, <3>2, ServerAdmitted
    <3>4. SessionState = "ready" /\ SessionState' = "probing"
      BY <1>3, <1>6, <3>1, <3>2, <3>3
    <3> QED BY <3>3, <3>4 DEF SB!Next, SB!Probe
  <2> QED BY <2>1, <2>2, <2>3
<1>9. ASSUME NEW p \in Procs, Allow(p) \/ Acquire(p) \/ FreeSlot(p) PROVE Goal
  BY <1>7, <1>9, OnlyMovesFacts DEF ActiveServer
<1>10. ASSUME NEW p \in Procs, RejectRate(p) \/ RejectConcurrency(p) PROVE Goal
  <2>1. Leave(p) /\ pc[p] # "idle" /\ session' = session
    BY <1>10 DEF RejectRate, RejectConcurrency, breakerVars
  <2>2. ActiveServer' = ActiveServer \ {p}
    BY <2>1, ServerLeft
  <2>3. CASE p \notin ActiveServer
    BY <1>7, <2>1, <2>2, <2>3
  <2>4. CASE p \in ActiveServer /\ CooledDown
    <3>1. ActiveServer = {p} /\ ActiveServer' = {} /\ SessionState = "probing"
      BY <1>3, <2>2, <2>4, OneServerCallOut
    <3>2. SessionState' = IF session.probing THEN "probing" ELSE "ready"
      BY <1>1, <1>6, <2>1, <2>4, <3>1
    <3> QED BY <3>1, <3>2 DEF SB!Next, SB!Lose, SB!Decline
  <2>5. CASE p \in ActiveServer /\ ~CooledDown
    <3>1. SessionState \in {"closed", "cooling"} /\ SessionState' = SessionState
      BY <1>1, <1>3, <1>6, <2>1, <2>5
    <3> QED BY <2>2, <2>5, <3>1 DEF SB!Next, SB!Return
  <2> QED BY <2>3, <2>4, <2>5
<1>11. ASSUME NEW p \in Procs, NEW o \in Outcomes, Record(p, o) PROVE Goal
  <2>1. Leave(p) /\ pc[p] # "idle"
    BY <1>11 DEF Record
  <2>2. ActiveServer' = ActiveServer \ {p} /\ (p \in ActiveServer <=> mode[p] = "server")
    BY <2>1, ServerLeft
  <2>3. CASE p \notin ActiveServer
    <3>1. session' = session
      BY <1>11, <2>2, <2>3, SoundRecord
    <3> QED BY <1>7, <2>2, <2>3, <3>1
  <2>4. CASE p \in ActiveServer
    <3>1. /\ ~session'.probing
          /\ session.open /\ ~session.probing => session'.open
          /\ session'.open =>
               \/ session.open /\ ~session.probing /\ session'.left = session.left
               \/ session'.left >= SessionCooldown
      BY <1>11, <2>2, <2>4, SoundRecord, SettingsFacts DEF Answered
    <3>2. SessionCooldown \in Nat \ {0}
      BY GuardAssumption
    <3>3. CASE CooledDown
      <4>1. ActiveServer = {p} /\ ActiveServer' = {} /\ SessionState = "probing"
        BY <1>3, <2>2, <2>4, <3>3, OneServerCallOut
      <4>2. SessionState' \in {"closed", "cooling", "ready"}
        BY <1>5, <1>6, <3>1, <4>1
      <4> QED BY <2>4, <4>1, <4>2 DEF SB!Next, SB!Verdict, SB!Decline
    <3>4. CASE ~CooledDown
      <4>1. ~session.probing
        BY <1>1, <3>4
      <4>2. session'.open => session'.left > 0
        BY <1>1, <1>5, <3>1, <3>2, <3>4
      <4>3. /\ SessionState \in {"closed", "cooling"}
            /\ SessionState' \in {SessionState, "cooling"}
        BY <1>1, <1>3, <1>5, <1>6, <3>1, <3>4, <4>1, <4>2
      <4> QED BY <2>2, <2>4, <4>3 DEF SB!Next, SB!Return
    <3> QED BY <3>3, <3>4
  <2> QED BY <2>3, <2>4
<1>12. ASSUME Tick PROVE Goal
  <2>1. /\ session'.open = session.open /\ session'.probing = session.probing
        /\ session'.left = IF session.left > 0 THEN session.left - 1 ELSE 0
    BY <1>12, ElapseFacts DEF Tick, Sound
  <2>2. ActiveServer' = ActiveServer /\ \A p \in Active : age[p] < OpTimeout
    BY <1>12 DEF Tick, ActiveServer, Active
  <2>3. CASE session.open /\ session.left = 1
    <3>1. ActiveServer = {}
      <4>1. SUFFICES ASSUME NEW p \in ActiveServer PROVE FALSE
        OBVIOUS
      <4>2. p \in Procs /\ p \in Active /\ probe[p] \in {"none", "general", "session"}
        BY <4>1 DEF ActiveServer, Active, Sound, TypeOK
      <4>3. probe[p] = "none"
        BY <1>1, <2>3, <4>2 DEF CoolsAlone, Exclusive, ProbesOut
      <4>4. OpTimeout - age[p] < 1
        BY <2>3, <4>3 DEF Exclusive, BackInTime
      <4> QED BY <2>2, <4>2, <4>4, AgeFacts
    <3>2. SessionState = "cooling" /\ SessionState' = "ready"
      BY <1>1, <1>3, <1>6, <2>1, <2>2, <2>3, <3>1
    <3> QED BY <2>2, <3>1, <3>2 DEF SB!Next, SB!CoolDown
  <2>4. CASE ~(session.open /\ session.left = 1)
    <3>1. SessionState' = SessionState
      BY <1>1, <1>3, <1>5, <1>6, <2>1, <2>2, <2>4
    <3> QED BY <2>2, <3>1
  <2> QED BY <2>3, <2>4
<1>13. ASSUME UNCHANGED <<session, pc, mode>> PROVE Goal
  BY <1>7, <1>13 DEF ActiveServer, Active
<1> HIDE DEF Goal
<1>14. ASSUME NEW p \in Procs, Enter(p) PROVE Goal
  BY <1>8, <1>13, <1>14 DEF Enter, RejectCircuitOpen, vars
<1>15. ASSUME NEW p \in Procs, Proceed(p) PROVE Goal
  BY <1>9, <1>10, <1>11, <1>15 DEF Proceed
<1>16. ASSUME Refill \/ UNCHANGED vars PROVE Goal
  BY <1>13, <1>16 DEF Refill, breakerVars, callVars, vars
<1>17. Goal
  BY <1>12, <1>14, <1>15, <1>16 DEF Next
<1> QED BY <1>17 DEF Goal

\* With calls shorter than the cooldowns each of the guard's breakers is a
\* half-open circuit breaker, the general one of all calls, the session breaker
\* of those with the server's session: a cooldown ends only once every earlier
\* call has come back, and then one call alone decides.
THEOREM BreakersImplementCircuitBreaker ==
  ASSUME ShortCalls
  PROVE  Spec => ImplementsCircuitBreaker
<1>1. Sound /\ Exclusive /\ [Next]_vars => [CB!Next]_<<CircuitState, Active>>
  BY CircuitStep
<1>2. Sound /\ Exclusive /\ CoolsAlone /\ [Next]_vars
        => [SB!Next]_<<SessionState, ActiveServer>> /\ CoolsAlone'
  BY SessionStep, CoolsAloneStep
<1> QED BY <1>1, <1>2, CircuitInit, SessionInit, ExclusiveAlways, PTL
        DEF Spec, ImplementsCircuitBreaker, CB!Spec, SB!Spec
================================================================================
