----------------------------- MODULE CallerLookup -----------------------------
(***************************************************************************)
(* How the profile service answers a request that brings a LinkedIn        *)
(* session of its own (service/profile.go, getCaller), and the memory of   *)
(* the sessions LinkedIn rejected (service/callerhealth.go).               *)
(*                                                                         *)
(* Nothing is coalesced: requests with the same session run side by side,  *)
(* so a mark made by one may be cleared by another that started earlier.   *)
(* The gauge of marked sessions is read under the map's lock and set       *)
(* outside it, which is two steps.                                         *)
(*                                                                         *)
(* The gate and LinkedIn are as in ServerLookup.  A session is named by    *)
(* its fingerprint, which is never empty for a caller's.                   *)
(***************************************************************************)
EXTENDS ExpiringMap

CONSTANTS
  Requests,   \* the request handlers
  Sessions,   \* fingerprints of caller sessions
  MarkTTL,    \* ticks a rejected session is fast-failed
  MaxMarks    \* size cap of the map (callerHealthMaxEntries)

ASSUME CallerLookupAssumption ==
  /\ IsFiniteSet(Requests) /\ IsFiniteSet(Sessions)
  /\ MarkTTL \in Nat /\ MaxMarks \in Nat \ {0}

Points == {"idle", "check", "enter", "fetch", "mark", "clear", "count", "report"}

Answers == {"none", "found", "invalid", "fault"}

VARIABLES
  marks,        \* the rejected sessions, with the ticks they stay marked
  gauge,        \* caller_sessions_unhealthy
  pc, session,  \* each request: where it is and with which session,
  counted,      \* the number of marks it read for the gauge,
  answer,       \* and what it answers
  rejected,     \* history: the sessions LinkedIn ever rejected
  stragglers    \* history: the requests that passed the check before their
                \* session was last marked

vars == <<marks, gauge, pc, session, counted, answer, rejected, stragglers>>

Marked(s) == Fresh(marks, s)

\* Types and bounds: the memory of rejected sessions never outgrows its cap, in
\* whatever order marks, lookups and evictions meet, and the gauge never shows
\* more (callerhealth.go:59-69, 90-103).
TypeOK ==
  /\ marks \in Maps(Sessions, MarkTTL) /\ Cardinality(DOMAIN marks) <= MaxMarks
  /\ gauge \in 0..MaxMarks
  /\ pc \in [Requests -> Points]
  /\ session \in [Requests -> Sessions]
  /\ counted \in [Requests -> 0..MaxMarks]
  /\ answer \in [Requests -> Answers]
  /\ rejected \subseteq Sessions
  /\ stragglers \subseteq Requests

Init ==
  /\ marks = Empty /\ gauge = 0
  /\ pc = [r \in Requests |-> "idle"]
  /\ \E s \in Sessions : session = [r \in Requests |-> s]
  /\ counted = [r \in Requests |-> 0]
  /\ answer = [r \in Requests |-> "none"]
  /\ rejected = {} /\ stragglers = {}

Goto(r, point) == pc' = [pc EXCEPT ![r] = point]

Say(r, a) == answer' = [answer EXCEPT ![r] = a]

------------------------------------------------------------------------------

Arrive(r, s) ==
  /\ pc[r] = "idle"
  /\ Goto(r, "check")
  /\ session' = [session EXCEPT ![r] = s]
  /\ Say(r, "none")
  /\ UNCHANGED <<marks, gauge, counted, rejected, stragglers>>

\* callerHealth.unhealthy says yes: no upstream traffic.
FastFail(r) ==
  /\ pc[r] = "check" /\ Marked(session[r])
  /\ Goto(r, "idle")
  /\ Say(r, "invalid")
  /\ UNCHANGED <<marks, gauge, session, counted, rejected, stragglers>>

\* Mutant of Pass: the check is not made.
PassUnchecked(r) ==
  /\ pc[r] = "check"
  /\ marks' = AfterLookup(marks, session[r])
  /\ Goto(r, "enter")
  /\ UNCHANGED <<gauge, session, counted, answer, rejected, stragglers>>

\* It says no; an expired mark is deleted, and the gauge is not told.
Pass(r) ==
  /\ pc[r] = "check" /\ ~Marked(session[r])
  /\ marks' = AfterLookup(marks, session[r])
  /\ Goto(r, "enter")
  /\ UNCHANGED <<gauge, session, counted, answer, rejected, stragglers>>

GateRefuses(r) ==
  /\ pc[r] = "enter"
  /\ Goto(r, "idle")
  /\ Say(r, "fault")
  /\ stragglers' = stragglers \ {r}
  /\ UNCHANGED <<marks, gauge, session, counted, rejected>>

GateAdmits(r) ==
  /\ pc[r] = "enter"
  /\ Goto(r, "fetch")
  /\ UNCHANGED <<marks, gauge, session, counted, answer, rejected, stragglers>>

\* Mutant of Fetched: any failure counts as a rejection of the session.
FetchedBlamingSession(r, a) ==
  /\ pc[r] = "fetch"
  /\ Goto(r, CASE a = "found" -> "clear" [] OTHER -> "mark")
  /\ Say(r, IF a = "found" THEN a ELSE "invalid")
  /\ rejected' = IF a = "invalid" THEN rejected \cup {session[r]} ELSE rejected
  /\ stragglers' = stragglers \ {r}
  /\ UNCHANGED <<marks, gauge, session, counted>>

\* fetchCore came back and the gate was released: the profile (enriched before
\* the mark is cleared), LinkedIn's rejection of the session, or any other error.
Fetched(r, a) ==
  /\ pc[r] = "fetch"
  /\ Goto(r, CASE a = "found" -> "clear" [] a = "invalid" -> "mark" [] a = "fault" -> "idle")
  /\ Say(r, a)
  /\ rejected' = IF a = "invalid" THEN rejected \cup {session[r]} ELSE rejected
  /\ stragglers' = stragglers \ {r}
  /\ UNCHANGED <<marks, gauge, session, counted>>

\* Mutant of MarkUnhealthy: room is made for a session that is marked already.
MarkMakingRoom(r) ==
  /\ pc[r] = "mark"
  /\ \E kept \in IF Cardinality(DOMAIN marks) >= MaxMarks
                 THEN EvictAny(marks, MaxMarks) ELSE {marks} :
       marks' = Put(kept, session[r], MarkTTL)
  /\ stragglers' = stragglers \cup
       {q \in Requests : pc[q] \in {"enter", "fetch"} /\ session[q] = session[r]}
  /\ Goto(r, "count")
  /\ UNCHANGED <<gauge, session, counted, answer, rejected>>

\* Mutant of MarkUnhealthy: the map is not bounded.
MarkWithoutRoom(r) ==
  /\ pc[r] = "mark"
  /\ marks' = Put(marks, session[r], MarkTTL)
  /\ stragglers' = stragglers \cup
       {q \in Requests : pc[q] \in {"enter", "fetch"} /\ session[q] = session[r]}
  /\ Goto(r, "count")
  /\ UNCHANGED <<gauge, session, counted, answer, rejected>>

MarkUnhealthy(r) ==
  /\ pc[r] = "mark"
  /\ \E kept \in IF NeedsRoom(marks, session[r], MaxMarks)
                 THEN EvictAny(marks, MaxMarks) ELSE {marks} :
       marks' = Put(kept, session[r], MarkTTL)
  /\ stragglers' = stragglers \cup
       {q \in Requests : pc[q] \in {"enter", "fetch"} /\ session[q] = session[r]}
  /\ Goto(r, "count")
  /\ UNCHANGED <<gauge, session, counted, answer, rejected>>

Clear(r) ==
  /\ pc[r] = "clear"
  /\ marks' = Delete(marks, session[r])
  /\ Goto(r, "count")
  /\ UNCHANGED <<gauge, session, counted, answer, rejected, stragglers>>

\* updateCallerGauge: tracked under the lock, then Set.
CountTracked(r) ==
  /\ pc[r] = "count"
  /\ counted' = [counted EXCEPT ![r] = Cardinality(DOMAIN marks)]
  /\ Goto(r, "report")
  /\ UNCHANGED <<marks, gauge, session, answer, rejected, stragglers>>

SetGauge(r) ==
  /\ pc[r] = "report"
  /\ gauge' = counted[r]
  /\ counted' = [counted EXCEPT ![r] = 0]  \* the local is gone
  /\ Goto(r, "idle")
  /\ UNCHANGED <<marks, session, answer, rejected, stragglers>>

Tick ==
  /\ marks' = Older(marks)
  /\ UNCHANGED <<gauge, pc, session, counted, answer, rejected, stragglers>>

Advance(r) ==
  \/ FastFail(r) \/ Pass(r)
  \/ GateRefuses(r) \/ GateAdmits(r)
  \/ \E a \in {"found", "invalid", "fault"} : Fetched(r, a)
  \/ MarkUnhealthy(r) \/ Clear(r)
  \/ CountTracked(r) \/ SetGauge(r)

Next ==
  \/ \E r \in Requests : Advance(r) \/ \E s \in Sessions : Arrive(r, s)
  \/ Tick

Spec == Init /\ [][Next]_vars

------------------------------------------------------------------------------
(* Properties.                                                              *)

\* Only LinkedIn's own rejection of a session makes a request with it fail as
\* invalid: no caller suffers for another one's session, for the shared
\* breakers or for a failing profile (profile.go:214-219, 234-240).
InvalidOnlyIfRejected ==
  \A r \in Requests : answer[r] = "invalid" => session[r] \in rejected

\* A mark that still counts is lost only by a success of the same session, or to
\* make room for a session that was not marked, when the map is full
\* (callerhealth.go:41-79, 90-103).
MarksLast ==
  [][\A s \in Sessions : Marked(s) /\ s \notin DOMAIN marks' =>
       \/ \E r \in Requests : pc[r] = "clear" /\ pc'[r] # "clear" /\ session[r] = s
       \/ /\ DOMAIN marks' \ DOMAIN marks # {}
          /\ Cardinality(DOMAIN marks) = MaxMarks
          /\ \A t \in DOMAIN marks : t \in DOMAIN marks' => Marked(t)]_vars

\* While a session is marked, only requests that had passed the check before the
\* mark was made still reach LinkedIn with it (profile.go:214, 225-232).
OnlyStragglersReachLinkedIn ==
  [][\A r \in Requests :
       pc[r] = "enter" /\ pc'[r] = "fetch" /\ Marked(session[r]) => r \in stragglers]_vars

\* What the documentation says of caller_sessions_unhealthy: with no request
\* under way it is the number of sessions being fast-failed.  (It does not hold:
\* a mark that expires leaves the gauge as it was.)
GaugeCountsFastFailed ==
  (\A r \in Requests : pc[r] = "idle") => gauge = Cardinality({s \in Sessions : Marked(s)})
================================================================================
