--------------------------- MODULE CallerLookupProofs ---------------------------
(***************************************************************************)
(* Theorems about the lookups with callers' own sessions, for any number   *)
(* of requests and sessions, every time to live of a mark and every cap.   *)
(***************************************************************************)
EXTENDS CallerLookup, ExpiringMapProofs

\* Only rejected sessions are marked, about to be marked, or told invalid.
Blameless ==
  /\ DOMAIN marks \subseteq rejected
  /\ \A r \in Requests :
       pc[r] = "mark" \/ answer[r] = "invalid" => session[r] \in rejected

\* A request that has passed the check and whose session is marked passed it
\* before the mark.
PassedBefore ==
  \A r \in Requests : pc[r] = "enter" /\ Marked(session[r]) => r \in stragglers

LEMMA ConstantFacts ==
  /\ IsFiniteSet(Sessions) /\ MarkTTL \in Nat
  /\ MaxMarks \in Nat /\ MaxMarks \in Nat \ {0} /\ 0 \in 0..MaxMarks
BY CallerLookupAssumption

------------------------------------------------------------------------------
(* The marks.                                                               *)

\* A step of a request leaves the marks alone, but for these.
LEMMA MarkSteps ==
  ASSUME NEW r \in Requests, Advance(r)
  PROVE  marks' = marks \/ Pass(r) \/ MarkUnhealthy(r) \/ Clear(r)
BY DEF Advance, FastFail, Pass, GateRefuses, GateAdmits, Fetched, MarkUnhealthy, Clear,
       CountTracked, SetGauge

\* What a rejected session meets in the memory, and what it leaves.
LEMMA MarkFacts ==
  ASSUME TypeOK, NEW r \in Requests, MarkUnhealthy(r)
  PROVE  /\ marks' \in Maps(Sessions, MarkTTL) /\ Cardinality(DOMAIN marks') <= MaxMarks
         /\ session[r] \in DOMAIN marks'
         /\ \A s \in DOMAIN marks' : s # session[r] =>
              s \in DOMAIN marks /\ marks'[s] = marks[s]
         /\ \A s \in DOMAIN marks : s \notin DOMAIN marks' /\ marks[s] >= 0 =>
              /\ session[r] \notin DOMAIN marks
              /\ Cardinality(DOMAIN marks) = MaxMarks
              /\ \A t \in DOMAIN marks : t \in DOMAIN marks' => marks[t] >= 0
<1>1. /\ marks \in Maps(Sessions, MarkTTL) /\ Cardinality(DOMAIN marks) <= MaxMarks
      /\ session[r] \in Sessions
  BY DEF TypeOK
<1>2. PICK kept \in IF NeedsRoom(marks, session[r], MaxMarks)
                    THEN EvictAny(marks, MaxMarks) ELSE {marks} :
        marks' = Put(kept, session[r], MarkTTL)
  BY DEF MarkUnhealthy
<1>3. /\ kept \in Maps(Sessions, MarkTTL) /\ Cardinality(DOMAIN kept) <= MaxMarks
      /\ session[r] \in DOMAIN kept \/ Cardinality(DOMAIN kept) < MaxMarks
      /\ \A s \in DOMAIN kept : s \in DOMAIN marks /\ kept[s] = marks[s]
      /\ session[r] \in DOMAIN marks => session[r] \in DOMAIN kept
      /\ \A s \in DOMAIN marks : s \notin DOMAIN kept /\ marks[s] >= 0 =>
           /\ session[r] \notin DOMAIN marks
           /\ Cardinality(DOMAIN marks) = MaxMarks
           /\ \A t \in DOMAIN kept : marks[t] >= 0
  <2>1. CASE NeedsRoom(marks, session[r], MaxMarks)
    <3>1. kept \in EvictAny(marks, MaxMarks) /\ session[r] \notin DOMAIN marks
      BY <1>2, <2>1 DEF NeedsRoom
    <3>2. /\ kept \in Maps(Sessions, MarkTTL) /\ Cardinality(DOMAIN kept) < MaxMarks
          /\ \A s \in DOMAIN kept : s \in DOMAIN marks /\ marks[s] >= 0 /\ kept[s] = marks[s]
          /\ (\E s \in DOMAIN marks : s \notin DOMAIN kept /\ marks[s] >= 0) =>
               Cardinality(DOMAIN marks) = MaxMarks
      BY <1>1, <3>1, ConstantFacts, EvictAnyFacts
    <3>3. Cardinality(DOMAIN kept) \in Nat
      BY <3>2, ConstantFacts, MapFinite
    <3> QED BY <3>1, <3>2, <3>3, ConstantFacts
  <2>2. CASE ~NeedsRoom(marks, session[r], MaxMarks)
    <3>1. kept = marks
          /\ (session[r] \in DOMAIN marks \/ ~(Cardinality(DOMAIN marks) >= MaxMarks))
      BY <1>2, <2>2 DEF NeedsRoom
    <3>2. Cardinality(DOMAIN marks) \in Nat
      BY <1>1, ConstantFacts, MapFinite
    <3> QED BY <1>1, <3>1, <3>2, ConstantFacts
  <2> QED BY <2>1, <2>2
<1>4. /\ marks' \in Maps(Sessions, MarkTTL)
      /\ \A s : s \in DOMAIN marks' <=> s \in DOMAIN kept \/ s = session[r]
      /\ \A s \in DOMAIN kept \ {session[r]} : marks'[s] = kept[s]
  BY <1>1, <1>2, <1>3, ConstantFacts, PutFacts
<1>5. Cardinality(DOMAIN marks') <= MaxMarks
  BY <1>1, <1>2, <1>3, ConstantFacts, PutKeepsCap
<1>6. \A s \in DOMAIN marks' : s # session[r] => s \in DOMAIN marks /\ marks'[s] = marks[s]
  BY <1>3, <1>4
<1>7. ASSUME NEW s \in DOMAIN marks, s \notin DOMAIN marks', marks[s] >= 0
      PROVE  /\ session[r] \notin DOMAIN marks
             /\ Cardinality(DOMAIN marks) = MaxMarks
             /\ \A t \in DOMAIN marks : t \in DOMAIN marks' => marks[t] >= 0
  <2>1. /\ session[r] \notin DOMAIN marks
        /\ Cardinality(DOMAIN marks) = MaxMarks
        /\ \A t \in DOMAIN kept : marks[t] >= 0
    BY <1>3, <1>4, <1>7
  <2> QED BY <1>4, <2>1
<1> QED BY <1>4, <1>5, <1>6, <1>7

\* A lookup, a success and the clock: no mark is new, and none counts again.
LEMMA ShrinkFacts ==
  ASSUME TypeOK, Tick \/ \E r \in Requests : Pass(r) \/ Clear(r)
  PROVE  /\ marks' \in Maps(Sessions, MarkTTL) /\ Cardinality(DOMAIN marks') <= MaxMarks
         /\ \A s \in DOMAIN marks' : s \in DOMAIN marks
         /\ \A s \in DOMAIN marks' : marks'[s] >= 0 => marks[s] >= 0
<1>1. marks \in Maps(Sessions, MarkTTL) /\ Cardinality(DOMAIN marks) <= MaxMarks
  BY DEF TypeOK
<1>2. /\ marks' \in Maps(Sessions, MarkTTL)
      /\ \A s \in DOMAIN marks' : s \in DOMAIN marks
      /\ \A s \in DOMAIN marks' : marks'[s] >= 0 => marks[s] >= 0
  <2>1. ASSUME NEW r \in Requests, Pass(r)
        PROVE  /\ marks' \in Maps(Sessions, MarkTTL)
               /\ \A s \in DOMAIN marks' : s \in DOMAIN marks
               /\ \A s \in DOMAIN marks' : marks'[s] >= 0 => marks[s] >= 0
    <3>1. marks' = AfterLookup(marks, session[r])
      BY <2>1 DEF Pass
    <3>2. /\ marks' \in Maps(Sessions, MarkTTL)
          /\ DOMAIN marks' \subseteq DOMAIN marks
          /\ \A s \in DOMAIN marks' : marks'[s] = marks[s]
      BY <1>1, <3>1, ConstantFacts, AfterLookupFacts
    <3> QED BY <3>2
  <2>2. ASSUME NEW r \in Requests, Clear(r)
        PROVE  /\ marks' \in Maps(Sessions, MarkTTL)
               /\ \A s \in DOMAIN marks' : s \in DOMAIN marks
               /\ \A s \in DOMAIN marks' : marks'[s] >= 0 => marks[s] >= 0
    <3>1. marks' = Delete(marks, session[r])
      BY <2>2 DEF Clear
    <3>2. /\ marks' \in Maps(Sessions, MarkTTL)
          /\ \A s : s \in DOMAIN marks' <=> s \in DOMAIN marks /\ s # session[r]
          /\ \A s \in DOMAIN marks' : marks'[s] = marks[s]
      BY <1>1, <3>1, ConstantFacts, DeleteFacts
    <3> QED BY <3>2
  <2>3. CASE Tick
    <3>1. marks' = Older(marks)
      BY <2>3 DEF Tick
    <3>2. /\ marks' \in Maps(Sessions, MarkTTL)
          /\ DOMAIN marks' = DOMAIN marks
          /\ \A s \in DOMAIN marks : marks'[s] = IF marks[s] >= 0 THEN marks[s] - 1 ELSE -1
      BY <1>1, <3>1, ConstantFacts, OlderFacts
    <3> QED BY <3>2
  <2> QED BY <2>1, <2>2, <2>3
<1>3. Cardinality(DOMAIN marks') <= MaxMarks
  <2>1. /\ Cardinality(DOMAIN marks) \in Nat
        /\ \A S \in SUBSET DOMAIN marks :
             Cardinality(S) \in Nat /\ Cardinality(S) <= Cardinality(DOMAIN marks)
    BY <1>1, ConstantFacts, MapFinite
  <2>2. DOMAIN marks' \in SUBSET DOMAIN marks
    BY <1>2
  <2> QED BY <1>1, <2>1, <2>2, ConstantFacts
<1> QED BY <1>2, <1>3

------------------------------------------------------------------------------
(* Types and bounds.                                                        *)

LEMMA TypeInit == Init => TypeOK
<1> SUFFICES ASSUME Init PROVE TypeOK
  OBVIOUS
<1>1. marks \in Maps(Sessions, MarkTTL) /\ Cardinality(DOMAIN marks) = 0
  BY ConstantFacts, EmptyMap DEF Init
<1> QED BY <1>1, ConstantFacts DEF TypeOK, Init, Points, Answers

LEMMA TypeStep == TypeOK /\ [Next]_vars => TypeOK'
<1> SUFFICES ASSUME TypeOK, [Next]_vars PROVE TypeOK'
  OBVIOUS
<1> USE DEF TypeOK
<1>1. CASE UNCHANGED vars
  BY <1>1 DEF vars
<1>2. CASE Tick
  BY <1>2, ShrinkFacts DEF Tick
<1>3. ASSUME NEW r \in Requests, NEW s \in Sessions, Arrive(r, s) PROVE TypeOK'
  BY <1>3 DEF Arrive, Goto, Say, Points, Answers
<1>4. ASSUME NEW r \in Requests, Advance(r) PROVE TypeOK'
  <2>1. CASE FastFail(r)
    BY <2>1 DEF FastFail, Goto, Say, Points, Answers
  <2>2. CASE Pass(r)
    BY <2>2, ShrinkFacts DEF Pass, Goto, Points
  <2>3. CASE GateRefuses(r) \/ GateAdmits(r)
    BY <2>3 DEF GateRefuses, GateAdmits, Goto, Say, Points, Answers
  <2>4. ASSUME NEW a \in {"found", "invalid", "fault"}, Fetched(r, a) PROVE TypeOK'
    BY <2>4 DEF Fetched, Goto, Say, Points, Answers
  <2>5. CASE MarkUnhealthy(r)
    BY <2>5, MarkFacts DEF MarkUnhealthy, Goto, Points
  <2>6. CASE Clear(r)
    BY <2>6, ShrinkFacts DEF Clear, Goto, Points
  <2>7. CASE CountTracked(r)
    <3>1. Cardinality(DOMAIN marks) \in 0..MaxMarks
      BY ConstantFacts, MapFinite
    <3> QED BY <2>7, <3>1 DEF CountTracked, Goto, Points
  <2>8. CASE SetGauge(r)
    BY <2>8, ConstantFacts DEF SetGauge, Goto, Points
  <2> QED BY <1>4, <2>1, <2>2, <2>3, <2>4, <2>5, <2>6, <2>7, <2>8 DEF Advance
<1> QED BY <1>1, <1>2, <1>3, <1>4 DEF Next

\* The lookups with callers' sessions are type correct: the memory of rejected
\* sessions never outgrows its cap, and the gauge never shows more
\* (service/callerhealth.go:59-69, 90-103).
THEOREM TypeCorrect == Spec => []TypeOK
BY TypeInit, TypeStep, PTL DEF Spec

------------------------------------------------------------------------------
(* Whose fault it is.                                                       *)

LEMMA BlamelessStep ==
  ASSUME TypeOK, Blameless, [Next]_vars
  PROVE  Blameless'
<1>1. /\ pc \in [Requests -> Points] /\ session \in [Requests -> Sessions]
      /\ answer \in [Requests -> Answers]
  BY DEF TypeOK
<1>2. \A s \in DOMAIN marks' : s \in DOMAIN marks \/ \E r \in Requests :
        MarkUnhealthy(r) /\ s = session[r]
  <2>1. ASSUME NEW r \in Requests, MarkUnhealthy(r)
        PROVE  \A s \in DOMAIN marks' : s = session[r] \/ s \in DOMAIN marks
    BY <2>1, MarkFacts
  <2>2. ASSUME Tick \/ \E r \in Requests : Pass(r) \/ Clear(r)
        PROVE  \A s \in DOMAIN marks' : s \in DOMAIN marks
    BY <2>2, ShrinkFacts
  <2>3. CASE marks' = marks
    BY <2>3
  <2>4. ASSUME NEW r \in Requests, NEW s \in Sessions, Arrive(r, s) PROVE marks' = marks
    BY <2>4 DEF Arrive
  <2> QED BY <2>1, <2>2, <2>3, <2>4, MarkSteps DEF Next, vars
<1>3. rejected \subseteq rejected'
  <2>1. ASSUME NEW r \in Requests, Advance(r) PROVE rejected \subseteq rejected'
    BY <2>1 DEF Advance, FastFail, Pass, GateRefuses, GateAdmits, Fetched, MarkUnhealthy,
       Clear, CountTracked, SetGauge
  <2> QED BY <2>1 DEF Next, vars, Tick, Arrive
<1>4. DOMAIN marks' \subseteq rejected'
  <2>1. \A r \in Requests : MarkUnhealthy(r) => session[r] \in rejected
    BY DEF Blameless, MarkUnhealthy
  <2> QED BY <1>2, <1>3, <2>1 DEF Blameless
<1>5. ASSUME NEW q \in Requests, pc'[q] = "mark" \/ answer'[q] = "invalid"
      PROVE  session'[q] \in rejected'
  <2>1. CASE UNCHANGED <<pc, session, answer>>
    BY <1>3, <1>5, <2>1 DEF Blameless
  <2>2. ASSUME NEW r \in Requests, NEW s \in Sessions, Arrive(r, s)
        PROVE  session'[q] \in rejected'
    <3>1. q # r /\ pc'[q] = pc[q] /\ answer'[q] = answer[q] /\ session'[q] = session[q]
      BY <1>1, <1>5, <2>2 DEF Arrive, Goto, Say
    <3> QED BY <1>3, <1>5, <3>1 DEF Blameless
  <2>3. ASSUME NEW r \in Requests, Advance(r) PROVE session'[q] \in rejected'
    <3>1. session' = session
      BY <2>3 DEF Advance, FastFail, Pass, GateRefuses, GateAdmits, Fetched, MarkUnhealthy,
         Clear, CountTracked, SetGauge
    <3>2. CASE q # r \/ FastFail(r) \/ \E a \in {"found", "invalid", "fault"} : Fetched(r, a)
      <4>1. CASE q # r
        <5>1. pc'[q] = pc[q] /\ answer'[q] = answer[q]
          BY <1>1, <2>3, <4>1 DEF Advance, FastFail, Pass, GateRefuses, GateAdmits, Fetched,
             MarkUnhealthy, Clear, CountTracked, SetGauge, Goto, Say
        <5> QED BY <1>3, <1>5, <3>1, <5>1 DEF Blameless
      <4>2. CASE q = r /\ FastFail(r)
        <5>1. session[q] \in DOMAIN marks
          BY <4>2 DEF FastFail, Marked, Fresh
        <5> QED BY <1>3, <3>1, <5>1 DEF Blameless
      <4>3. ASSUME NEW a \in {"found", "invalid", "fault"}, Fetched(r, a), q = r
            PROVE  session'[q] \in rejected'
        <5>1. a = "invalid"
          BY <1>1, <1>5, <4>3 DEF Fetched, Goto, Say
        <5> QED BY <3>1, <4>3, <5>1 DEF Fetched
      <4> QED BY <3>2, <4>1, <4>2, <4>3
    <3>3. CASE q = r /\ ~FastFail(r) /\ ~\E a \in {"found", "invalid", "fault"} : Fetched(r, a)
      <4>1. pc'[q] # "mark" /\ (answer'[q] = answer[q] \/ answer'[q] = "fault")
        BY <1>1, <2>3, <3>3 DEF Advance, Pass, GateRefuses, GateAdmits,
           MarkUnhealthy, Clear, CountTracked, SetGauge, Goto, Say
      <4> QED BY <1>3, <1>5, <3>1, <4>1 DEF Blameless
    <3> QED BY <3>2, <3>3
  <2> QED BY <2>1, <2>2, <2>3 DEF Next, vars, Tick
<1> QED BY <1>4, <1>5 DEF Blameless

\* A request with a caller's session fails as invalid only if LinkedIn rejected
\* that very session (service/profile.go:214-219, 234-240).
THEOREM InvalidAlwaysRejected == Spec => []InvalidOnlyIfRejected
<1>1. Init => Blameless
  <2> SUFFICES ASSUME Init PROVE Blameless
    OBVIOUS
  <2>1. DOMAIN marks = {}
    BY DEF Init, Empty
  <2> QED BY <2>1 DEF Init, Blameless
<1>2. (TypeOK /\ Blameless) /\ [Next]_vars => (TypeOK /\ Blameless)'
  BY TypeStep, BlamelessStep
<1>3. Blameless => InvalidOnlyIfRejected
  BY DEF Blameless, InvalidOnlyIfRejected
<1> QED BY <1>1, <1>2, <1>3, TypeInit, PTL DEF Spec

------------------------------------------------------------------------------
(* What a mark is good for.                                                 *)

LEMMA PassedBeforeStep ==
  ASSUME TypeOK, PassedBefore, [Next]_vars
  PROVE  PassedBefore'
<1>1. /\ pc \in [Requests -> Points] /\ session \in [Requests -> Sessions]
      /\ stragglers \subseteq Requests
  BY DEF TypeOK
<1> SUFFICES ASSUME NEW q \in Requests, pc'[q] = "enter", Fresh(marks', session'[q])
             PROVE  q \in stragglers'
  BY DEF PassedBefore, Marked
<1>2. CASE UNCHANGED <<pc, session, marks, stragglers>>
  BY <1>2 DEF PassedBefore, Marked
<1>3. CASE Tick
  <2>1. Fresh(marks, session[q])
    BY <1>3, ShrinkFacts DEF Tick, Fresh
  <2> QED BY <1>3, <2>1 DEF Tick, PassedBefore, Marked
<1>4. ASSUME NEW r \in Requests, NEW s \in Sessions, Arrive(r, s) PROVE q \in stragglers'
  <2>1. q # r /\ pc[q] = "enter" /\ session'[q] = session[q]
    BY <1>1, <1>4 DEF Arrive, Goto
  <2> QED BY <1>4, <2>1 DEF Arrive, PassedBefore, Marked
<1>5. ASSUME NEW r \in Requests, MarkUnhealthy(r) PROVE q \in stragglers'
  <2>1. q # r /\ pc[q] = "enter"
    BY <1>1, <1>5 DEF MarkUnhealthy, Goto
  <2>2. session' = session
    BY <1>5 DEF MarkUnhealthy
  <2>3. CASE session[q] = session[r]
    BY <1>5, <2>1, <2>3 DEF MarkUnhealthy
  <2>4. CASE session[q] # session[r]
    <3>1. session[q] \in DOMAIN marks /\ marks'[session[q]] = marks[session[q]]
      BY <1>5, <2>2, <2>4, MarkFacts DEF Fresh
    <3>2. q \in stragglers
      BY <2>1, <2>2, <3>1 DEF PassedBefore, Marked, Fresh
    <3> QED BY <1>5, <3>2 DEF MarkUnhealthy
  <2> QED BY <2>3, <2>4
<1>6. ASSUME NEW r \in Requests, Pass(r) \/ Clear(r) PROVE q \in stragglers'
  <2>1. session' = session /\ stragglers' = stragglers
    BY <1>6 DEF Pass, Clear
  <2>2. Fresh(marks, session[q])
    BY <1>6, <2>1, ShrinkFacts DEF Fresh
  <2>3. pc[q] = "enter" \/ (q = r /\ Pass(r))
    BY <1>1, <1>6 DEF Pass, Clear, Goto
  <2>4. ~(q = r /\ Pass(r))
    BY <2>2 DEF Pass, Marked
  <2> QED BY <2>1, <2>2, <2>3, <2>4 DEF PassedBefore, Marked
<1>7. ASSUME NEW r \in Requests, Advance(r), ~MarkUnhealthy(r), ~Pass(r), ~Clear(r)
      PROVE  q \in stragglers'
  <2>1. UNCHANGED <<marks, session>> /\ q # r /\ pc[q] = "enter"
    BY <1>1, <1>7 DEF Advance, FastFail, GateRefuses, GateAdmits, Fetched, CountTracked,
       SetGauge, Goto
  <2>2. q \in stragglers
    BY <2>1 DEF PassedBefore, Marked
  <2>3. stragglers' = stragglers \/ stragglers' = stragglers \ {r}
    BY <1>7 DEF Advance, FastFail, GateRefuses, GateAdmits, Fetched, CountTracked, SetGauge
  <2> QED BY <2>1, <2>2, <2>3
<1> QED BY <1>2, <1>3, <1>4, <1>5, <1>6, <1>7 DEF Next, vars

\* While a session is marked, only requests that had passed the check before it
\* was marked reach LinkedIn with it (service/profile.go:214, 225-232).
THEOREM OnlyStragglersAlways == Spec => OnlyStragglersReachLinkedIn
<1> DEFINE Stragglers ==
      \A r \in Requests :
        pc[r] = "enter" /\ pc'[r] = "fetch" /\ Marked(session[r]) => r \in stragglers
<1>1. Init => PassedBefore
  BY DEF Init, PassedBefore
<1>2. (TypeOK /\ PassedBefore) /\ [Next]_vars => (TypeOK /\ PassedBefore)'
  BY TypeStep, PassedBeforeStep
<1>3. PassedBefore => Stragglers
  BY DEF PassedBefore
<1> QED BY <1>1, <1>2, <1>3, TypeInit, PTL DEF Spec, OnlyStragglersReachLinkedIn

\* A mark that counts is lost only by a success of its session, or when the
\* memory is full of marks that count and another session is marked
\* (service/callerhealth.go:41-79, 90-103).
THEOREM MarksAlwaysLast == Spec => MarksLast
<1> DEFINE Lost(s) ==
      Marked(s) /\ s \notin DOMAIN marks' =>
         \/ \E r \in Requests : pc[r] = "clear" /\ pc'[r] # "clear" /\ session[r] = s
         \/ /\ DOMAIN marks' \ DOMAIN marks # {}
            /\ Cardinality(DOMAIN marks) = MaxMarks
            /\ \A t \in DOMAIN marks : t \in DOMAIN marks' => Marked(t)
<1>1. TypeOK /\ [Next]_vars => \A s \in Sessions : Lost(s)
  <2> SUFFICES ASSUME TypeOK, [Next]_vars, NEW s \in Sessions, Marked(s), s \notin DOMAIN marks'
               PROVE  Lost(s)
    OBVIOUS
  <2>1. /\ marks \in Maps(Sessions, MarkTTL) /\ pc \in [Requests -> Points]
        /\ s \in DOMAIN marks /\ marks[s] >= 0
    BY DEF TypeOK, Marked, Fresh
  <2>2. ASSUME NEW r \in Requests, MarkUnhealthy(r) PROVE Lost(s)
    <3>1. /\ session[r] \in DOMAIN marks' /\ session[r] \notin DOMAIN marks
          /\ Cardinality(DOMAIN marks) = MaxMarks
          /\ \A t \in DOMAIN marks : t \in DOMAIN marks' => marks[t] >= 0
      BY <2>1, <2>2, MarkFacts
    <3> QED BY <3>1 DEF Marked, Fresh
  <2>3. ASSUME NEW r \in Requests, Clear(r) PROVE Lost(s)
    <3>1. marks' = Delete(marks, session[r])
      BY <2>3 DEF Clear
    <3>2. s = session[r]
      BY <2>1, <3>1, ConstantFacts, DeleteFacts
    <3> QED BY <2>1, <2>3, <3>2 DEF Clear, Goto
  <2>4. ASSUME NEW r \in Requests, Pass(r) PROVE FALSE
    <3>1. marks' = AfterLookup(marks, session[r])
      BY <2>4 DEF Pass
    <3>2. marks[s] < 0
      BY <2>1, <3>1, ConstantFacts, AfterLookupFacts
    <3>3. marks[s] \in Int
      BY <2>1, ConstantFacts, MapFacts
    <3> QED BY <2>1, <3>2, <3>3
  <2>5. CASE Tick
    <3>1. marks' = Older(marks)
      BY <2>5 DEF Tick
    <3>2. DOMAIN marks' = DOMAIN marks
      BY <2>1, <3>1, ConstantFacts, OlderFacts
    <3> QED BY <2>1, <3>2
  <2>6. CASE marks' = marks
    BY <2>1, <2>6
  <2>7. ASSUME NEW r \in Requests, NEW t \in Sessions, Arrive(r, t) PROVE marks' = marks
    BY <2>7 DEF Arrive
  <2> QED BY <2>2, <2>3, <2>4, <2>5, <2>6, <2>7, MarkSteps DEF Next, vars
<1> QED BY <1>1, TypeInit, TypeStep, PTL DEF Spec, MarksLast
================================================================================
