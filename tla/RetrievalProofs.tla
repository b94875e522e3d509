---------------------------- MODULE RetrievalProofs ----------------------------
(***************************************************************************)
(* Theorems about retrievals, for every number of requests, every          *)
(* configuration and every length of the deadline and the backoff.         *)
(***************************************************************************)
EXTENDS Retrieval, FiniteSetTheorems, WellFoundedInduction, TLAPS

Docs == CoreDocs \cup SectionDocs \cup {NoDocument}

Calls ==
  [st : CallPoints, attempt : Nat, timedOut : BOOLEAN, wait : Int, waited : Nat,
   err : Codes \cup {"none"}, doc : Docs]

(***************************************************************************)
(* The next backoff is never longer than what the call has waited so far   *)
(* and one first backoff more.  With the time waited inside the deadline,  *)
(* no doubling can overflow.                                               *)
(***************************************************************************)
InTime(c) ==
  /\ c \in Calls
  /\ 0 < c.wait /\ c.wait <= c.waited + RetryBackoff
  /\ c.waited <= Timeout

CallsInTime ==
  /\ config \in Configs
  /\ call \in [Ops -> Calls]
  /\ \A o \in Ops : InTime(call[o])

------------------------------------------------------------------------------
(* The operators of LinkedInClient keep a call in time.                     *)

LEMMA NoCallInTime ==
  ASSUME NEW doc \in Docs
  PROVE  InTime(NoCall(doc))
BY ClientAssumption DEF InTime, NoCall, Calls, CallPoints

\* Only a call's point changes.
LEMMA MovedInTime ==
  ASSUME NEW c, InTime(c), NEW st \in CallPoints
  PROVE  InTime([c EXCEPT !.st = st])
BY DEF InTime, Calls

LEMMA FinishedInTime ==
  ASSUME NEW c, InTime(c)
  PROVE  InTime(Finished(c))
<1>1. c.doc \in Docs
  BY DEF InTime, Calls
<1> QED BY <1>1, NoCallInTime, MovedInTime DEF Finished, CallPoints

LEMMA ReturnedInTime ==
  ASSUME NEW err \in Codes \cup {"none"}, NEW doc \in Docs
  PROVE  InTime(Returned(err, doc))
<1>1. InTime([NoCall(doc) EXCEPT !.st = "returned"])
  BY NoCallInTime, MovedInTime DEF CallPoints
<1>2. Returned(err, doc) = [[NoCall(doc) EXCEPT !.st = "returned"] EXCEPT !.err = err]
  BY DEF Returned, NoCall
<1>3. ASSUME NEW d, InTime(d) PROVE InTime([d EXCEPT !.err = err])
  BY <1>3 DEF InTime, Calls
<1> QED BY <1>1, <1>2, <1>3

LEMMA AttemptInTime ==
  ASSUME NEW c, InTime(c), NEW live \in BOOLEAN
  PROVE  InTime(Attempt(c, live))
BY DEF InTime, Attempt, Calls, CallPoints

LEMMA FailedInTime ==
  ASSUME NEW c, InTime(c), NEW retries \in Nat, NEW err \in Codes, NEW retry \in BOOLEAN
  PROVE  InTime(Failed(c, retries, err, retry))
<1>1. c.doc \in Docs
  BY DEF InTime, Calls
<1>2. InTime([c EXCEPT !.st = "backoff", !.err = err])
  BY DEF InTime, Calls, CallPoints
<1> QED BY <1>1, <1>2, ReturnedInTime DEF Failed

\* The heart of the matter: a backoff that fits into the deadline can be doubled.
LEMMA BackedOffInTime ==
  ASSUME NEW c, InTime(c), NEW jitter \in Nat, TimerFirst(c, jitter)
  PROVE  InTime(BackedOff(c, jitter))
<1>1. /\ c.wait \in Int /\ c.waited \in Nat /\ c.attempt \in Nat
      /\ 0 < c.wait /\ c.wait <= c.waited + RetryBackoff
      /\ c.waited + c.wait + jitter <= Timeout
  BY DEF InTime, Calls, TimerFirst
<1>2. 2 * c.wait <= MaxDuration
  BY <1>1, ClientAssumption
<1>3. Doubled(c.wait) = 2 * c.wait
  BY <1>2 DEF Doubled
<1>4. /\ 2 * c.wait \in Int /\ 0 < 2 * c.wait
      /\ c.waited + c.wait + jitter \in Nat
      /\ 2 * c.wait <= c.waited + c.wait + jitter + RetryBackoff
  BY <1>1, ClientAssumption
<1> DEFINE b == BackedOff(c, jitter)
<1>5. b = [c EXCEPT !.attempt = c.attempt + 1, !.waited = c.waited + c.wait + jitter,
                    !.wait = 2 * c.wait, !.err = "none"]
  BY <1>3 DEF BackedOff
<1>6. c \in Calls
  BY DEF InTime
<1>7. b.wait = 2 * c.wait /\ b.waited = c.waited + c.wait + jitter
  BY <1>5, <1>6 DEF Calls
<1>8. b \in Calls
  <2>1. c.attempt + 1 \in Nat
    BY <1>1
  <2> QED BY <1>4, <1>5, <1>6, <2>1 DEF Calls
<1> HIDE DEF b
<1>9. InTime(b)
  BY <1>1, <1>4, <1>7, <1>8 DEF InTime
<1> QED BY <1>9 DEF b
------------------------------------------------------------------------------
(* So does every step of a retrieval.                                       *)

LEMMA SetCallInTime ==
  ASSUME CallsInTime, NEW o \in Ops, NEW c, InTime(c), SetCall(o, c),
         UNCHANGED config
  PROVE  CallsInTime'
<1>1. c \in Calls
  BY DEF InTime
<1>2. call' \in [Ops -> Calls]
  BY <1>1 DEF CallsInTime, SetCall
<1>3. ASSUME NEW q \in Ops PROVE InTime(call'[q])
  <2>1. call'[q] = IF q = o THEN c ELSE call[q]
    BY DEF CallsInTime, SetCall
  <2> QED BY <2>1 DEF CallsInTime
<1> QED BY <1>2, <1>3 DEF CallsInTime

LEMMA MaxRetriesNat ==
  ASSUME CallsInTime
  PROVE  config.maxRetries \in Nat
BY RetrievalAssumption DEF CallsInTime

\* The codes an attempt may fail with.
LEMMA ClassifiedCodes ==
  ASSUME NEW x
  PROVE  ClassifyStatus(x) \in Codes /\ ClassifyTransport(x) \in Codes
BY DEF ClassifyStatus, ClassifyTransport, Codes

LEMMA AttemptFailsInTime ==
  ASSUME CallsInTime, NEW o \in Ops, NEW err \in Codes, NEW retry \in BOOLEAN,
         AttemptFails(o, err, retry), UNCHANGED config
  PROVE  CallsInTime'
<1>1. InTime(Failed(call[o], config.maxRetries, err, retry))
  BY MaxRetriesNat, FailedInTime DEF CallsInTime
<1> QED BY <1>1, SetCallInTime DEF AttemptFails

LEMMA CallReturnsInTime ==
  ASSUME CallsInTime, NEW o \in Ops, CallReturns(o)
  PROVE  CallsInTime'
<1> UNCHANGED config
  BY DEF CallReturns, StatusArrives, BodyArrives, BodyUnreadable, TransportFails,
         BackoffElapses, BackoffCut, callOnly
<1>c. InTime(call[o]) /\ call[o] \in Calls
  BY DEF CallsInTime
<1>1. ASSUME NEW status \in Statuses, StatusArrives(o, status) PROVE CallsInTime'
  <2>1. RetryableStatus(status) \in BOOLEAN
    BY DEF RetryableStatus
  <2> QED BY <1>1, <2>1, ClassifiedCodes, AttemptFailsInTime DEF StatusArrives
<1>2. ASSUME NEW doc \in CoreDocs \cup SectionDocs, BodyArrives(o, doc) PROVE CallsInTime'
  <2>1. InTime(Returned("none", doc))
    BY ReturnedInTime DEF Docs, Codes
  <2> QED BY <1>2, <2>1, SetCallInTime DEF BodyArrives
<1>3. ASSUME BodyUnreadable(o) PROVE CallsInTime'
  <2>1. InTime(Returned("upstream_parse_error", NoDocument))
    BY ReturnedInTime DEF Docs, Codes
  <2> QED BY <1>3, <2>1, SetCallInTime DEF BodyUnreadable
<1>4. ASSUME NEW error, TransportFails(o, error) PROVE CallsInTime'
  <2>1. (RetryableCode(ClassifyTransport(error)) /\ Live(o)) \in BOOLEAN
    OBVIOUS
  <2> QED BY <1>4, <2>1, ClassifiedCodes, AttemptFailsInTime DEF TransportFails
<1>5. ASSUME NEW jitter \in Jitters(call[o]), BackoffElapses(o, jitter) PROVE CallsInTime'
  <2>1. jitter \in Nat /\ TimerFirst(call[o], jitter)
    BY <1>5, <1>c DEF BackoffElapses, Jitters, Calls
  <2>2. InTime(Attempt(BackedOff(call[o], jitter), TRUE))
    BY <2>1, <1>c, BackedOffInTime, AttemptInTime
  <2> QED BY <1>5, <2>2, SetCallInTime DEF BackoffElapses
<1>6. ASSUME BackoffCut(o) PROVE CallsInTime'
  <2>1. InTime(Returned(call[o].err, NoDocument))
    <3>1. call[o].err \in Codes \cup {"none"} /\ NoDocument \in Docs
      BY <1>c DEF Calls, Docs
    <3>2. "upstream_timeout" \in Codes
      BY DEF Codes
    <3> QED BY <3>1, <3>2, ReturnedInTime
  <2> QED BY <1>6, <2>1, SetCallInTime DEF BackoffCut
<1> QED BY <1>1, <1>2, <1>3, <1>4, <1>5, <1>6 DEF CallReturns

LEMMA CoreReturnsInTime ==
  ASSUME CallsInTime, NEW r \in Requests, CoreReturns(r)
  PROVE  CallsInTime'
<1> DEFINE o == <<r, "core">>
<1>o. o \in Ops
  BY DEF Ops, Targets
<1>1. CASE CoreFails(r)
  <2>1. InTime(Finished(call[o]))
    BY <1>o, FinishedInTime DEF CallsInTime
  <2> QED BY <1>1, <1>o, <2>1, SetCallInTime DEF CoreFails
<1>2. CASE CoreFetched(r)
  <2> DEFINE enrich == ProfileURN(call[o].doc) # "" /\ Wanted # {}
             next(q) == IF q[1] # r THEN call[q]
                        ELSE IF q[2] = "core" THEN Finished(call[q])
                        ELSE IF enrich /\ q[2] \in Wanted
                             THEN [call[q] EXCEPT !.st = "semaphore"]
                        ELSE call[q]
  <2>1. call' = [q \in Ops |-> next(q)] /\ UNCHANGED config
    BY <1>2 DEF CoreFetched
  <2>2. ASSUME NEW q \in Ops PROVE InTime(next(q))
    <3>1. InTime(call[q])
      BY DEF CallsInTime
    <3>2. InTime(Finished(call[q])) /\ InTime([call[q] EXCEPT !.st = "semaphore"])
      BY <3>1, FinishedInTime, MovedInTime DEF CallPoints
    <3> QED BY <3>1, <3>2
  <2> HIDE DEF next
  <2>3. \A q \in Ops : call'[q] = next(q) /\ next(q) \in Calls
    BY <2>1, <2>2 DEF InTime
  <2> QED BY <2>1, <2>2, <2>3 DEF CallsInTime
<1> QED BY <1>1, <1>2 DEF CoreReturns

LEMMA SectionStepsInTime ==
  ASSUME CallsInTime, NEW r \in Requests, NEW s \in SectionNames, SectionSteps(r, s)
  PROVE  CallsInTime'
<1> DEFINE o == <<r, s>>
<1>o. o \in Ops /\ InTime(call[o])
  BY DEF Ops, Targets, CallsInTime
<1>1. CASE SemaphoreTaken(r, s)
  BY <1>1, <1>o, MovedInTime, SetCallInTime DEF SemaphoreTaken, CallPoints
<1>2. CASE SectionAdmitted(r, s)
  <2>1. InTime(Attempt(call[o], Live(o)))
    <3>1. Live(o) \in BOOLEAN
      BY DEF Live
    <3> QED BY <1>o, <3>1, AttemptInTime
  <2> QED BY <1>2, <1>o, <2>1, SetCallInTime DEF SectionAdmitted
<1>3. CASE SectionFetched(r, s)
  BY <1>3, <1>o, MovedInTime, SetCallInTime DEF SectionFetched, CallPoints
<1>4. CASE SectionAbandoned(r, s) \/ SectionRefused(r, s) \/ SectionFails(r, s)
           \/ SectionApplied(r, s)
  <2>1. SetCall(o, Finished(call[o])) /\ UNCHANGED config
    BY <1>4 DEF SectionAbandoned, SectionRefused, SectionFails, SectionApplied, SectionDone
  <2> QED BY <2>1, <1>o, FinishedInTime, SetCallInTime
<1> QED BY <1>1, <1>2, <1>3, <1>4 DEF SectionSteps

LEMMA CallsStayInTime == CallsInTime /\ [Next]_vars => CallsInTime'
<1> SUFFICES ASSUME CallsInTime, [Next]_vars PROVE CallsInTime'
  OBVIOUS
<1>1. ASSUME UNCHANGED <<config, call>> PROVE CallsInTime'
  BY <1>1 DEF CallsInTime
<1>2. ASSUME NEW r \in Requests, NEW how, ContextEnds(r, how) PROVE CallsInTime'
  BY <1>1, <1>2 DEF ContextEnds
<1>3. ASSUME NEW o \in Ops, CallTimesOut(o) PROVE CallsInTime'
  <2>1. InTime([call[o] EXCEPT !.timedOut = TRUE])
    BY DEF CallsInTime, InTime, Calls
  <2> QED BY <1>3, <2>1, SetCallInTime DEF CallTimesOut
<1>4. ASSUME NEW r \in Requests, EnterGate(r) PROVE CallsInTime'
  <2>1. CASE EnterAdmitted(r)
    <3> DEFINE o == <<r, "core">>
    <3>1. o \in Ops /\ InTime(call[o])
      BY DEF Ops, Targets, CallsInTime
    <3>2. Live(o) \in BOOLEAN
      BY DEF Live
    <3> QED BY <2>1, <3>1, <3>2, AttemptInTime, SetCallInTime DEF EnterAdmitted
  <2> QED BY <1>4, <1>1, <2>1 DEF EnterGate, EnterRefused
<1>5. ASSUME NEW r \in Requests, Enriched(r) PROVE CallsInTime'
  BY <1>1, <1>5 DEF Enriched
<1> QED BY <1>1, <1>2, <1>3, <1>4, <1>5, CallReturnsInTime, CoreReturnsInTime,
           SectionStepsInTime DEF Next, vars

------------------------------------------------------------------------------
\* A backoff is never zero or negative, whatever number of retries is
\* configured (linkedin/client.go:228-239): the doubling does not overflow
\* before the deadline ends the call, so rand.Int64N does not panic.
THEOREM BackoffAlwaysPositive == Spec => []BackoffPositive
<1>1. Init => CallsInTime
  <2> SUFFICES ASSUME Init PROVE CallsInTime
    OBVIOUS
  <2>1. InTime(NoCall(NoDocument))
    BY NoCallInTime DEF Docs
  <2>2. config \in Configs /\ call = [o \in Ops |-> NoCall(NoDocument)]
    BY DEF Init
  <2> QED BY <2>1, <2>2 DEF CallsInTime, InTime
<1>2. CallsInTime => BackoffPositive
  BY DEF CallsInTime, InTime, BackoffPositive
<1> QED BY <1>1, <1>2, CallsStayInTime, PTL DEF Spec

------------------------------------------------------------------------------
(* The course of a request.                                                 *)

\* Where a call holds a slot of the gate, and where one of the semaphore.
GatePoints == {"sent", "unsent", "backoff", "returned"}
SemPoints == GatePoints \cup {"gate", "released"}

\* The core call belongs to the phase "core"; sections are only called after it,
\* and only those that are configured.
Phases ==
  /\ pc \in [Requests -> {"idle", "enter", "core", "enrich", "done"}]
  /\ \A r \in Requests :
       /\ pc[r] \in {"idle", "enter"} => call[<<r, "core">>].st = "idle"
       /\ pc[r] = "core" => call[<<r, "core">>].st \in GatePoints
       /\ pc[r] \in {"enrich", "done"} => call[<<r, "core">>].st \in {"idle", "done"}
       /\ \A s \in SectionNames : call[<<r, s>>].st # "idle" =>
            pc[r] \in {"enrich", "done"} /\ s \in Wanted

\* A call backs off only when it has an attempt left, and after an error that may
\* pass.
Passing == {"upstream_timeout", "upstream_unavailable"}

Counted ==
  \A o \in Ops :
    /\ call[o].attempt <= config.maxRetries
    /\ call[o].st = "backoff" =>
         call[o].attempt < config.maxRetries /\ call[o].err \in Passing

Sane ==
  /\ CallsInTime /\ Phases /\ Counted
  /\ heard \in [Requests -> Statuses \cup {0}]

LEMMA OpsFacts ==
  /\ \A r \in Requests : <<r, "core">> \in Ops
  /\ \A r \in Requests : \A s \in SectionNames : <<r, s>> \in Ops /\ s # "core"
  /\ \A o \in Ops : \E r \in Requests : \E t \in Targets : o = <<r, t>>
  /\ \A t \in Targets : t = "core" \/ t \in SectionNames
BY DEF Ops, Targets, SectionNames

\* A call that is under way takes a step: it stays at LinkedIn.
CallMoves(o, c) ==
  /\ SetCall(o, c) /\ UNCHANGED callOnly
  /\ call[o].st \in {"sent", "unsent", "backoff"}
  /\ c.st \in GatePoints
  /\ c.attempt <= config.maxRetries
  /\ c.st = "backoff" => c.attempt < config.maxRetries /\ c.err \in Passing

\* What a step of the core call tells about LinkedIn's verdict.
CoreHears(r, c) ==
  /\ \/ heard' = heard
     \/ \E status \in Statuses :
          /\ heard' = [heard EXCEPT ![r] = status]
          /\ c.st = "returned" /\ c.err = ClassifyStatus(status)
  /\ heard[r] = 0 =>
       /\ c.err = "upstream_auth_failed" => heard'[r] \in {401, 403} \cup 300..399
       /\ c.err = "profile_not_found" => heard'[r] = 404
  /\ c.st = "returned" /\ c.err = "none" => c.doc \in CoreDocs

Moves(o) ==
  \E c \in Calls :
    /\ CallMoves(o, c)
    /\ IF o[2] = "core" THEN CoreHears(o[1], c) ELSE heard' = heard

\* A failed attempt, as a step of its call.
LEMMA FailedFacts ==
  ASSUME CallsInTime, Counted, NEW o \in Ops, NEW err \in Codes, NEW retry \in BOOLEAN,
         NEW c, c = Failed(call[o], config.maxRetries, err, retry)
  PROVE  /\ c.st \in {"backoff", "returned"} /\ c.err = err
         /\ c.attempt <= config.maxRetries
         /\ c.st = "backoff" => c.attempt < config.maxRetries
         /\ ~retry => c.st = "returned"
<1>1. /\ call[o] \in Calls /\ call[o].attempt \in Nat /\ config.maxRetries \in Nat
      /\ call[o].attempt <= config.maxRetries
  BY MaxRetriesNat DEF CallsInTime, Calls, Counted
<1>2. CASE call[o].attempt >= config.maxRetries \/ ~retry
  <2>1. c = [NoCall(call[o].doc) EXCEPT !.st = "returned", !.err = err]
    BY <1>2 DEF Failed, Returned
  <2>2. c.st = "returned" /\ c.err = err /\ c.attempt = 0
    BY <2>1 DEF NoCall
  <2> QED BY <1>1, <2>2
<1>3. CASE ~(call[o].attempt >= config.maxRetries \/ ~retry)
  <2>1. c = [call[o] EXCEPT !.st = "backoff", !.err = err] /\ retry
    BY <1>3 DEF Failed
  <2>2. c.st = "backoff" /\ c.err = err /\ c.attempt = call[o].attempt
    BY <1>1, <2>1 DEF Calls
  <2>3. call[o].attempt < config.maxRetries
    BY <1>1, <1>3
  <2> QED BY <1>1, <2>1, <2>2, <2>3
<1> QED BY <1>2, <1>3

\* Returned leaves an error and a document, and no attempts.
LEMMA ReturnedFacts ==
  ASSUME NEW err, NEW doc, NEW c, c = Returned(err, doc)
  PROVE  c.st = "returned" /\ c.err = err /\ c.doc = doc /\ c.attempt = 0
BY DEF Returned, NoCall

LEMMA CodeFacts ==
  /\ "none" \notin Codes /\ Passing \subseteq Codes
  /\ \A x : ClassifyStatus(x) = "upstream_auth_failed" => x \in {401, 403} \cup 300..399
  /\ \A x : ClassifyStatus(x) = "profile_not_found" => x = 404
  /\ \A x : RetryableStatus(x) => ClassifyStatus(x) = "upstream_unavailable"
  /\ \A x : ClassifyTransport(x) \in Passing
<1>1. "none" \notin Codes /\ Passing \subseteq Codes
  BY DEF Codes, Passing
<1>2. \A x : ClassifyStatus(x) = "upstream_auth_failed" => x \in {401, 403} \cup 300..399
  BY DEF ClassifyStatus
<1>3. \A x : ClassifyStatus(x) = "profile_not_found" => x = 404
  BY DEF ClassifyStatus
<1>4. \A x : RetryableStatus(x) => ClassifyStatus(x) = "upstream_unavailable"
  BY DEF ClassifyStatus, RetryableStatus
<1>5. \A x : ClassifyTransport(x) \in Passing
  BY DEF ClassifyTransport, Passing
<1> QED BY <1>1, <1>2, <1>3, <1>4, <1>5

\* Every step of a call under way: a reply, a body, a failure or the timer.
LEMMA CallReturnsMoves ==
  ASSUME Sane, NEW o \in Ops, CallReturns(o)
  PROVE  Moves(o)
<1>1. /\ CallsInTime /\ Counted /\ call[o] \in Calls
      /\ heard \in [Requests -> Statuses \cup {0}]
      /\ o[1] \in Requests /\ o[2] \in Targets
      /\ config.maxRetries \in Nat
  BY MaxRetriesNat DEF Sane, CallsInTime, Ops
<1>2. CallsInTime'
  BY <1>1, CallReturnsInTime
<1>3. ASSUME NEW c, SetCall(o, c) PROVE c \in Calls
  <2>1. call'[o] = c /\ call'[o] \in Calls
    BY <1>1, <1>2, <1>3 DEF SetCall, CallsInTime
  <2> QED BY <2>1
<1>4. ASSUME NEW status \in Statuses, StatusArrives(o, status) PROVE Moves(o)
  <2> DEFINE c == Failed(call[o], config.maxRetries, ClassifyStatus(status), RetryableStatus(status))
  <2>1. SetCall(o, c) /\ UNCHANGED callOnly /\ call[o].st = "sent"
    BY <1>4 DEF StatusArrives, AttemptFails
  <2>2. heard' = IF o[2] = "core" /\ heard[o[1]] = 0 /\ status \notin 500..599
                 THEN [heard EXCEPT ![o[1]] = status] ELSE heard
    BY <1>4 DEF StatusArrives
  <2>3. ClassifyStatus(status) \in Codes /\ RetryableStatus(status) \in BOOLEAN
    BY ClassifiedCodes DEF RetryableStatus
  <2>4. /\ c.st \in {"backoff", "returned"} /\ c.err = ClassifyStatus(status)
        /\ c.attempt <= config.maxRetries
        /\ c.st = "backoff" => c.attempt < config.maxRetries
        /\ ~RetryableStatus(status) => c.st = "returned"
    BY <1>1, <2>3, FailedFacts
  <2>5. c \in Calls
    BY <1>3, <2>1
  <2> HIDE DEF c
  <2>6. c.err # "none" /\ (c.st = "backoff" => c.err \in Passing)
    BY <2>3, <2>4, CodeFacts DEF Passing
  <2>7. CallMoves(o, c)
    BY <2>1, <2>4, <2>6 DEF CallMoves, GatePoints
  <2>8. ASSUME o[2] = "core" PROVE CoreHears(o[1], c)
    <3>1. CASE status \in 500..599
      <4>1. c.err = "upstream_unavailable" /\ heard' = heard
        BY <2>2, <2>4, <3>1, CodeFacts DEF RetryableStatus
      <4> QED BY <4>1 DEF CoreHears
    <3>2. CASE status \notin 500..599 /\ heard[o[1]] = 0
      <4>1. heard' = [heard EXCEPT ![o[1]] = status] /\ c.st = "returned"
        BY <2>2, <2>4, <2>8, <3>2 DEF RetryableStatus
      <4>2. heard'[o[1]] = status
        BY <1>1, <4>1
      <4>3. /\ c.err = "upstream_auth_failed" => status \in {401, 403} \cup 300..399
            /\ c.err = "profile_not_found" => status = 404
        BY <2>4, CodeFacts
      <4> QED BY <2>4, <2>6, <4>1, <4>2, <4>3 DEF CoreHears
    <3>3. CASE heard[o[1]] # 0
      BY <2>2, <2>6, <3>3 DEF CoreHears
    <3> QED BY <3>1, <3>2, <3>3
  <2> QED BY <2>2, <2>5, <2>7, <2>8 DEF Moves
<1>5. ASSUME NEW c, SetCall(o, c), UNCHANGED <<callOnly, heard>>,
             call[o].st \in {"sent", "unsent", "backoff"},
             c.st \in GatePoints, c.attempt <= config.maxRetries,
             c.st = "backoff" => c.attempt < config.maxRetries /\ c.err \in Passing,
             c.st = "returned" /\ c.err = "none" /\ o[2] = "core" => c.doc \in CoreDocs,
             c.err \notin {"upstream_auth_failed", "profile_not_found"}
      PROVE  Moves(o)
  <2>1. c \in Calls
    BY <1>3, <1>5
  <2>2. CallMoves(o, c)
    BY <1>5 DEF CallMoves
  <2>3. o[2] = "core" => CoreHears(o[1], c)
    BY <1>5 DEF CoreHears
  <2> QED BY <1>5, <2>1, <2>2, <2>3 DEF Moves
<1>6. ASSUME NEW doc \in CoreDocs \cup SectionDocs, BodyArrives(o, doc) PROVE Moves(o)
  <2> DEFINE c == Returned("none", doc)
  <2>1. /\ SetCall(o, c) /\ UNCHANGED <<callOnly, heard>> /\ call[o].st = "sent"
        /\ o[2] = "core" => doc \in CoreDocs
    BY <1>6 DEF BodyArrives
  <2>2. c.st = "returned" /\ c.err = "none" /\ c.doc = doc /\ c.attempt = 0
    BY ReturnedFacts
  <2> HIDE DEF c
  <2> QED BY <1>1, <1>5, <2>1, <2>2 DEF GatePoints
<1>7. ASSUME BodyUnreadable(o) PROVE Moves(o)
  <2> DEFINE c == Returned("upstream_parse_error", NoDocument)
  <2>1. SetCall(o, c) /\ UNCHANGED <<callOnly, heard>> /\ call[o].st = "sent"
    BY <1>7 DEF BodyUnreadable
  <2>2. c.st = "returned" /\ c.err = "upstream_parse_error" /\ c.attempt = 0
    BY ReturnedFacts
  <2> HIDE DEF c
  <2> QED BY <1>1, <1>5, <2>1, <2>2 DEF GatePoints
<1>8. ASSUME NEW error, TransportFails(o, error) PROVE Moves(o)
  <2> DEFINE retry == RetryableCode(ClassifyTransport(error)) /\ Live(o)
             c == Failed(call[o], config.maxRetries, ClassifyTransport(error), retry)
  <2>1. /\ SetCall(o, c) /\ UNCHANGED <<callOnly, heard>>
        /\ call[o].st \in {"sent", "unsent"}
    BY <1>8 DEF TransportFails, AttemptFails
  <2>2. ClassifyTransport(error) \in Passing /\ ClassifyTransport(error) \in Codes
    BY CodeFacts
  <2>3. retry \in BOOLEAN
    OBVIOUS
  <2>4. /\ c.st \in {"backoff", "returned"} /\ c.err = ClassifyTransport(error)
        /\ c.attempt <= config.maxRetries
        /\ c.st = "backoff" => c.attempt < config.maxRetries
    BY <1>1, <2>2, <2>3, FailedFacts
  <2> HIDE DEF c
  <2> QED BY <1>5, <2>1, <2>2, <2>4 DEF GatePoints, Passing
<1>9. ASSUME NEW jitter, BackoffElapses(o, jitter) PROVE Moves(o)
  <2> DEFINE c == Attempt(BackedOff(call[o], jitter), TRUE)
  <2>1. SetCall(o, c) /\ UNCHANGED <<callOnly, heard>> /\ call[o].st = "backoff"
    BY <1>9 DEF BackoffElapses, TimerFirst
  <2>2. c.st = "sent" /\ c.err = "none" /\ c.attempt = call[o].attempt + 1
    BY <1>1 DEF Attempt, BackedOff, Calls
  <2>3. call[o].attempt \in Nat /\ call[o].attempt < config.maxRetries
    BY <1>1, <2>1 DEF Calls, Counted
  <2> HIDE DEF c
  <2>4. c.attempt <= config.maxRetries
    BY <1>1, <2>2, <2>3
  <2> QED BY <1>5, <2>1, <2>2, <2>4 DEF GatePoints
<1>10. ASSUME BackoffCut(o) PROVE Moves(o)
  <2> DEFINE c == Returned(call[o].err, NoDocument)
  <2>1. SetCall(o, c) /\ UNCHANGED <<callOnly, heard>> /\ call[o].st = "backoff"
    BY <1>10 DEF BackoffCut
  <2>2. c.st = "returned" /\ c.err = call[o].err /\ c.attempt = 0
    BY ReturnedFacts
  <2>3. call[o].err \in Passing
    BY <1>1, <2>1 DEF Counted
  <2> HIDE DEF c
  <2> QED BY <1>1, <1>5, <2>1, <2>2, <2>3 DEF GatePoints, Passing
<1> QED BY <1>4, <1>6, <1>7, <1>8, <1>9, <1>10 DEF CallReturns

LEMMA SetCallFacts ==
  ASSUME CallsInTime, NEW o \in Ops, NEW c, SetCall(o, c)
  PROVE  /\ call'[o] = c
         /\ \A q \in Ops : q # o => call'[q] = call[q]
BY DEF SetCall, CallsInTime

LEMMA FinishedFacts ==
  ASSUME NEW c, NEW d, d = Finished(c)
  PROVE  d.st = "done" /\ d.attempt = 0 /\ d.err = "none" /\ d.doc = c.doc
BY DEF Finished, NoCall

\* What the steps that are not a call's own make of one call.
LEMMA RelabelFacts ==
  ASSUME NEW c \in Calls, NEW st, NEW live
  PROVE  /\ [c EXCEPT !.st = st].st = st /\ [c EXCEPT !.st = st].attempt = c.attempt
         /\ [c EXCEPT !.st = st].err = c.err /\ [c EXCEPT !.st = st].doc = c.doc
         /\ Attempt(c, live).st \in {"sent", "unsent"} /\ Attempt(c, live).attempt = c.attempt
         /\ Attempt(c, live).err = c.err /\ Attempt(c, live).doc = c.doc
         /\ [c EXCEPT !.timedOut = TRUE].st = c.st
         /\ [c EXCEPT !.timedOut = TRUE].attempt = c.attempt
         /\ [c EXCEPT !.timedOut = TRUE].err = c.err
         /\ [c EXCEPT !.timedOut = TRUE].doc = c.doc
BY DEF Calls, Attempt

\* One call changes, and nothing but where it is, and what it has counted.
LEMMA SaneIfOneCall ==
  ASSUME Sane, NEW o \in Ops, NEW c, SetCall(o, c), CallsInTime',
         UNCHANGED <<config, pc>>, heard' \in [Requests -> Statuses \cup {0}],
         c.attempt <= config.maxRetries,
         c.st = "backoff" => c.attempt < config.maxRetries /\ c.err \in Passing,
         call[o].st # "idle",
         o[2] = "core" => call[o].st \in GatePoints /\ c.st \in GatePoints
  PROVE  Sane'
<1>1. /\ call'[o] = c /\ \A q \in Ops : q # o => call'[q] = call[q]
  BY SetCallFacts DEF Sane
<1>2. Counted'
  BY <1>1 DEF Sane, Counted
<1>3. ASSUME NEW r \in Requests
      PROVE  /\ pc[r] \in {"idle", "enter"} => call'[<<r, "core">>].st = "idle"
             /\ pc[r] = "core" => call'[<<r, "core">>].st \in GatePoints
             /\ pc[r] \in {"enrich", "done"} => call'[<<r, "core">>].st \in {"idle", "done"}
  <2>1. CASE o = <<r, "core">>
    <3>1. pc[r] = "core" /\ call'[<<r, "core">>].st \in GatePoints
      BY <1>1, <2>1 DEF Sane, Phases, GatePoints
    <3> QED BY <3>1
  <2>2. CASE o # <<r, "core">>
    BY <1>1, <2>2, OpsFacts DEF Sane, Phases
  <2> QED BY <2>1, <2>2
<1>4. ASSUME NEW r \in Requests, NEW s \in SectionNames, call'[<<r, s>>].st # "idle"
      PROVE  pc[r] \in {"enrich", "done"} /\ s \in Wanted
  <2>1. <<r, s>> \in Ops /\ call[<<r, s>>].st # "idle"
    BY <1>1, <1>4, OpsFacts
  <2> QED BY <2>1 DEF Sane, Phases
<1>5. Phases'
  BY <1>3, <1>4 DEF Sane, Phases, Wanted
<1> QED BY <1>2, <1>5 DEF Sane

LEMMA SaneCall ==
  ASSUME Sane, NEW o \in Ops, CallTimesOut(o) \/ CallReturns(o)
  PROVE  Sane'
<1>1. CallsInTime' /\ call[o] \in Calls /\ CallsInTime /\ Counted
  <2>1. [Next]_vars
    BY DEF Next
  <2> QED BY <2>1, CallsStayInTime DEF Sane, CallsInTime
<1>2. o[2] = "core" /\ call[o].st \in {"sent", "unsent", "backoff"} => call[o].st \in GatePoints
  BY DEF GatePoints
<1>3. CASE CallTimesOut(o)
  <2> DEFINE c == [call[o] EXCEPT !.timedOut = TRUE]
  <2>1. /\ SetCall(o, c) /\ UNCHANGED <<config, pc, heard>>
        /\ call[o].st \in {"sent", "backoff"}
    BY <1>3 DEF CallTimesOut
  <2>2. c.st = call[o].st /\ c.attempt = call[o].attempt /\ c.err = call[o].err
    BY <1>1, RelabelFacts
  <2> HIDE DEF c
  <2>3. /\ c.attempt <= config.maxRetries
        /\ c.st = "backoff" => c.attempt < config.maxRetries /\ c.err \in Passing
    BY <1>1, <2>2 DEF Counted
  <2>4. heard' \in [Requests -> Statuses \cup {0}]
    BY <2>1 DEF Sane
  <2> QED BY <1>1, <2>1, <2>2, <2>3, <2>4, SaneIfOneCall DEF GatePoints
<1>4. CASE CallReturns(o)
  <2>1. PICK c \in Calls : /\ CallMoves(o, c)
                           /\ IF o[2] = "core" THEN CoreHears(o[1], c) ELSE heard' = heard
    BY <1>4, CallReturnsMoves DEF Moves
  <2>2. heard' \in [Requests -> Statuses \cup {0}]
    BY <2>1 DEF Sane, CoreHears
  <2>3. SetCall(o, c) /\ UNCHANGED <<config, pc>> /\ call[o].st \in {"sent", "unsent", "backoff"}
    BY <2>1 DEF CallMoves, callOnly
  <2> QED BY <1>1, <2>1, <2>2, <2>3, SaneIfOneCall DEF CallMoves, GatePoints
<1> QED BY <1>3, <1>4

\* A section's step: the call leaves a point that is not idle.
LEMMA SectionCalls ==
  ASSUME Sane, NEW r \in Requests, NEW s \in SectionNames, SectionSteps(r, s)
  PROVE  \E c : /\ SetCall(<<r, s>>, c) /\ UNCHANGED <<config, pc, heard, answer>>
                /\ call[<<r, s>>].st # "idle" /\ s \in Wanted
                /\ c.st \in {"gate", "sent", "unsent", "released", "done"}
                /\ c.attempt <= config.maxRetries
<1> DEFINE o == <<r, s>>
<1>1. /\ o \in Ops /\ call[o] \in Calls /\ call[o].attempt <= config.maxRetries
      /\ config.maxRetries \in Nat
  BY OpsFacts, MaxRetriesNat DEF Sane, CallsInTime, Counted
<1>2. /\ call[o].st # "idle" /\ UNCHANGED <<config, pc, heard, answer>>
      /\ \/ \E st \in {"gate", "released"} : SetCall(o, [call[o] EXCEPT !.st = st])
         \/ SetCall(o, Attempt(call[o], Live(o)))
         \/ SetCall(o, Finished(call[o]))
  <2>1. CASE SectionAbandoned(r, s) \/ SectionRefused(r, s) \/ SectionFails(r, s)
    BY <2>1 DEF SectionAbandoned, SectionRefused, SectionFails, SectionDone
  <2>2. CASE SemaphoreTaken(r, s) \/ SectionAdmitted(r, s) \/ SectionFetched(r, s)
    BY <2>2 DEF SemaphoreTaken, SectionAdmitted, SectionFetched
  <2>3. CASE SectionApplied(r, s)
    <3>1. /\ call[o].st = "released" /\ SetCall(o, Finished(call[o]))
          /\ UNCHANGED <<config, ctx, pc, answer, slots, heard>>
      BY <2>3, Zenon DEF SectionApplied, SectionDone
    <3> QED BY <3>1
  <2> QED BY <2>1, <2>2, <2>3 DEF SectionSteps
<1>3. s \in Wanted
  BY <1>2 DEF Sane, Phases
<1>4. CASE \E st \in {"gate", "released"} : SetCall(o, [call[o] EXCEPT !.st = st])
  <2>1. PICK st \in {"gate", "released"} : SetCall(o, [call[o] EXCEPT !.st = st])
    BY <1>4
  <2> DEFINE c == [call[o] EXCEPT !.st = st]
  <2>2. c.st = st /\ c.attempt = call[o].attempt
    BY <1>1, RelabelFacts
  <2> HIDE DEF c
  <2> QED BY <1>1, <1>2, <1>3, <2>1, <2>2 DEF c
<1>5. CASE SetCall(o, Attempt(call[o], Live(o)))
  BY <1>1, <1>2, <1>3, <1>5, RelabelFacts
<1>6. CASE SetCall(o, Finished(call[o]))
  BY <1>1, <1>2, <1>3, <1>6, FinishedFacts
<1> QED BY <1>2, <1>4, <1>5, <1>6

LEMMA SaneSection ==
  ASSUME Sane, NEW r \in Requests, NEW s \in SectionNames, SectionSteps(r, s)
  PROVE  Sane'
<1>1. CallsInTime'
  <2>1. [Next]_vars
    BY DEF Next
  <2> QED BY <2>1, CallsStayInTime DEF Sane
<1>2. PICK c : /\ SetCall(<<r, s>>, c) /\ UNCHANGED <<config, pc, heard, answer>>
               /\ call[<<r, s>>].st # "idle"
               /\ c.st \in {"gate", "sent", "unsent", "released", "done"}
               /\ c.attempt <= config.maxRetries
  BY SectionCalls
<1>3. <<r, s>> \in Ops /\ <<r, s>>[2] # "core"
  BY OpsFacts
<1>4. heard' \in [Requests -> Statuses \cup {0}]
  BY <1>2 DEF Sane
<1> QED BY <1>1, <1>2, <1>3, <1>4, SaneIfOneCall

\* The base profile is there: the core call is over, and if the request goes on
\* to its sections those that are configured start.
LEMMA CoreFetchedFacts ==
  ASSUME Sane, NEW r \in Requests, CoreFetched(r)
  PROVE  \E enrich \in BOOLEAN :
           /\ pc' = [pc EXCEPT ![r] = IF enrich THEN "enrich" ELSE "done"]
           /\ answer' = [answer EXCEPT ![r] = IF enrich THEN @ ELSE "ok"]
           /\ call'[<<r, "core">>].st = "done" /\ call'[<<r, "core">>].attempt = 0
           /\ call'[<<r, "core">>].err = "none"
           /\ call'[<<r, "core">>].doc = call[<<r, "core">>].doc
           /\ \A q \in Requests : \A t \in Targets : q # r => call'[<<q, t>>] = call[<<q, t>>]
           /\ \A s \in SectionNames :
                IF enrich /\ s \in Wanted
                THEN /\ call'[<<r, s>>].st = "semaphore"
                     /\ call'[<<r, s>>].attempt = call[<<r, s>>].attempt
                     /\ call'[<<r, s>>].doc = call[<<r, s>>].doc
                ELSE call'[<<r, s>>] = call[<<r, s>>]
<1> DEFINE core == <<r, "core">>
           enrich == ProfileURN(call[core].doc) # "" /\ Wanted # {}
           next(o) == IF o[1] # r THEN call[o]
                      ELSE IF o[2] = "core" THEN Finished(call[o])
                      ELSE IF enrich /\ o[2] \in Wanted THEN [call[o] EXCEPT !.st = "semaphore"]
                      ELSE call[o]
<1>1. /\ call' = [o \in Ops |-> next(o)]
      /\ pc' = [pc EXCEPT ![r] = IF enrich THEN "enrich" ELSE "done"]
      /\ answer' = [answer EXCEPT ![r] = IF enrich THEN @ ELSE "ok"]
  BY DEF CoreFetched
<1>2. \A o \in Ops : call'[o] = next(o) /\ call[o] \in Calls
  BY <1>1 DEF Sane, CallsInTime
<1>3. enrich \in BOOLEAN
  OBVIOUS
<1> HIDE DEF enrich
<1>4. call'[core] = Finished(call[core])
  <2>1. call'[core] = next(core) /\ core[1] = r /\ core[2] = "core"
    BY <1>2, OpsFacts
  <2> QED BY <2>1
<1>5. /\ call'[core].st = "done" /\ call'[core].attempt = 0
      /\ call'[core].err = "none" /\ call'[core].doc = call[core].doc
  BY <1>4, FinishedFacts
<1>6. ASSUME NEW q \in Requests, NEW t \in Targets, q # r
      PROVE  call'[<<q, t>>] = call[<<q, t>>]
  <2>1. call'[<<q, t>>] = next(<<q, t>>) /\ <<q, t>>[1] = q
    BY <1>2 DEF Ops
  <2> QED BY <1>6, <2>1
<1>7. ASSUME NEW s \in SectionNames
      PROVE  IF enrich /\ s \in Wanted
             THEN /\ call'[<<r, s>>].st = "semaphore"
                  /\ call'[<<r, s>>].attempt = call[<<r, s>>].attempt
                  /\ call'[<<r, s>>].doc = call[<<r, s>>].doc
             ELSE call'[<<r, s>>] = call[<<r, s>>]
  <2>1. /\ call'[<<r, s>>] = next(<<r, s>>) /\ <<r, s>>[1] = r /\ <<r, s>>[2] = s
        /\ s # "core" /\ call[<<r, s>>] \in Calls
    BY <1>2, OpsFacts
  <2>2. CASE enrich /\ s \in Wanted
    <3>1. call'[<<r, s>>] = [call[<<r, s>>] EXCEPT !.st = "semaphore"]
      BY <2>1, <2>2
    <3> QED BY <2>1, <2>2, <3>1, RelabelFacts
  <2>3. CASE ~(enrich /\ s \in Wanted)
    BY <2>1, <2>3
  <2> QED BY <2>2, <2>3
<1> QED BY <1>1, <1>3, <1>5, <1>6, <1>7

LEMMA SaneCoreFetched ==
  ASSUME Sane, NEW r \in Requests, CoreFetched(r), CallsInTime'
  PROVE  Sane'
<1>1. PICK enrich \in BOOLEAN :
           /\ pc' = [pc EXCEPT ![r] = IF enrich THEN "enrich" ELSE "done"]
           /\ call'[<<r, "core">>].st = "done" /\ call'[<<r, "core">>].attempt = 0
           /\ \A q \in Requests : \A t \in Targets : q # r => call'[<<q, t>>] = call[<<q, t>>]
           /\ \A s \in SectionNames :
                IF enrich /\ s \in Wanted
                THEN /\ call'[<<r, s>>].st = "semaphore"
                     /\ call'[<<r, s>>].attempt = call[<<r, s>>].attempt
                ELSE call'[<<r, s>>] = call[<<r, s>>]
  BY CoreFetchedFacts
<1>2. /\ pc[r] = "core" /\ config' = config /\ heard' = heard
      /\ pc \in [Requests -> {"idle", "enter", "core", "enrich", "done"}]
      /\ config.maxRetries \in Nat
  BY MaxRetriesNat DEF CoreFetched, Sane, Phases
<1>3. /\ pc' \in [Requests -> {"idle", "enter", "core", "enrich", "done"}]
      /\ pc'[r] \in {"enrich", "done"} /\ (~(pc'[r] = "enrich") => ~enrich)
      /\ \A q \in Requests : q # r => pc'[q] = pc[q]
  BY <1>1, <1>2
<1>4. \A s \in SectionNames : call[<<r, s>>].st = "idle"
  BY <1>2 DEF Sane, Phases
<1>5. ASSUME NEW q \in Requests, NEW t \in Targets
      PROVE  /\ call'[<<q, t>>].attempt <= config.maxRetries
             /\ call'[<<q, t>>].st = "backoff" =>
                  call'[<<q, t>>].attempt < config.maxRetries /\ call'[<<q, t>>].err \in Passing
  <2>1. /\ call[<<q, t>>].attempt <= config.maxRetries
        /\ call[<<q, t>>].st = "backoff" =>
             call[<<q, t>>].attempt < config.maxRetries /\ call[<<q, t>>].err \in Passing
    BY DEF Sane, Counted, Ops
  <2>2. CASE q # r
    BY <1>1, <2>1, <2>2
  <2>3. CASE q = r /\ t = "core"
    BY <1>1, <1>2, <2>3
  <2>4. CASE q = r /\ t \in SectionNames
    BY <1>1, <2>1, <2>4
  <2> QED BY <2>2, <2>3, <2>4, OpsFacts
<1>6. Counted'
  BY <1>2, <1>5, OpsFacts DEF Counted
<1>7. ASSUME NEW q \in Requests
      PROVE  /\ pc'[q] \in {"idle", "enter"} => call'[<<q, "core">>].st = "idle"
             /\ pc'[q] = "core" => call'[<<q, "core">>].st \in GatePoints
             /\ pc'[q] \in {"enrich", "done"} => call'[<<q, "core">>].st \in {"idle", "done"}
             /\ \A s \in SectionNames : call'[<<q, s>>].st # "idle" =>
                  pc'[q] \in {"enrich", "done"} /\ s \in Wanted
  <2>1. CASE q = r
    <3>1. call'[<<r, "core">>].st = "done"
      BY <1>1
    <3>2. ASSUME NEW s \in SectionNames, call'[<<r, s>>].st # "idle" PROVE s \in Wanted
      BY <1>1, <1>4, <3>2
    <3> QED BY <1>3, <2>1, <3>1, <3>2
  <2>2. CASE q # r
    <3>1. \A t \in Targets : call'[<<q, t>>] = call[<<q, t>>]
      BY <1>1, <2>2
    <3>2. "core" \in Targets /\ \A s \in SectionNames : s \in Targets
      BY DEF Targets
    <3>3. pc'[q] = pc[q]
      BY <1>3, <2>2
    <3> QED BY <3>1, <3>2, <3>3 DEF Sane, Phases
  <2> QED BY <2>1, <2>2
<1>8. Phases'
  BY <1>2, <1>3, <1>7 DEF Phases, Wanted
<1> QED BY <1>2, <1>6, <1>8 DEF Sane

\* The other steps of a request move it and at most its core call.
LEMMA SaneIfCoreMoves ==
  ASSUME Sane, NEW r \in Requests, NEW point \in {"core", "enrich", "done"},
         pc' = [pc EXCEPT ![r] = point], UNCHANGED <<config, heard>>, CallsInTime',
         \A q \in Ops : q # <<r, "core">> => call'[q] = call[q],
         call'[<<r, "core">>].attempt <= config.maxRetries,
         call'[<<r, "core">>].st # "backoff",
         IF point = "core" THEN call'[<<r, "core">>].st \in GatePoints
                           ELSE call'[<<r, "core">>].st \in {"idle", "done"},
         point = "core" => pc[r] \in {"enter", "core"}
  PROVE  Sane'
<1>1. /\ pc \in [Requests -> {"idle", "enter", "core", "enrich", "done"}]
      /\ pc' \in [Requests -> {"idle", "enter", "core", "enrich", "done"}]
      /\ pc'[r] = point /\ \A q \in Requests : q # r => pc'[q] = pc[q]
  BY DEF Sane, Phases
<1>2. Counted'
  BY DEF Sane, Counted
<1>3. ASSUME NEW q \in Requests
      PROVE  /\ pc'[q] \in {"idle", "enter"} => call'[<<q, "core">>].st = "idle"
             /\ pc'[q] = "core" => call'[<<q, "core">>].st \in GatePoints
             /\ pc'[q] \in {"enrich", "done"} => call'[<<q, "core">>].st \in {"idle", "done"}
  <2>1. CASE q = r
    BY <1>1, <2>1
  <2>2. CASE q # r
    BY <1>1, <2>2, OpsFacts DEF Sane, Phases
  <2> QED BY <2>1, <2>2
<1>4. ASSUME NEW q \in Requests, NEW s \in SectionNames, call'[<<q, s>>].st # "idle"
      PROVE  pc'[q] \in {"enrich", "done"} /\ s \in Wanted
  <2>1. <<q, s>> \in Ops /\ <<q, s>> # <<r, "core">>
    BY OpsFacts
  <2>2. pc[q] \in {"enrich", "done"} /\ s \in Wanted
    BY <1>4, <2>1 DEF Sane, Phases
  <2> QED BY <1>1, <2>2
<1>5. Phases'
  BY <1>1, <1>3, <1>4 DEF Phases, Wanted
<1> QED BY <1>2, <1>5 DEF Sane

LEMMA SaneStep == Sane /\ [Next]_vars => Sane'
<1> SUFFICES ASSUME Sane, [Next]_vars PROVE Sane'
  OBVIOUS
<1>1. CallsInTime' /\ CallsInTime /\ Counted /\ config.maxRetries \in Nat
  BY CallsStayInTime, MaxRetriesNat DEF Sane
<1>2. ASSUME UNCHANGED <<config, pc, call, heard>> PROVE Sane'
  BY <1>1, <1>2 DEF Sane, Phases, Counted, Wanted
<1>3. ASSUME NEW r \in Requests, EnterGate(r) PROVE Sane'
  <2>1. pc[r] = "enter" /\ call[<<r, "core">>].st = "idle" /\ UNCHANGED <<config, heard>>
    BY <1>3 DEF EnterGate, EnterRefused, EnterAdmitted, Sane, Phases
  <2>2. /\ <<r, "core">> \in Ops /\ call[<<r, "core">>] \in Calls
        /\ call[<<r, "core">>].attempt <= config.maxRetries
    BY <1>1, OpsFacts DEF CallsInTime, Counted
  <2>3. CASE EnterAdmitted(r)
    <3> DEFINE c == Attempt(call[<<r, "core">>], Live(<<r, "core">>))
    <3>1. SetCall(<<r, "core">>, c) /\ pc' = [pc EXCEPT ![r] = "core"]
      BY <2>3 DEF EnterAdmitted
    <3>2. c.st \in {"sent", "unsent"} /\ c.attempt = call[<<r, "core">>].attempt
      BY <2>2, RelabelFacts
    <3> HIDE DEF c
    <3>3. /\ call'[<<r, "core">>] = c
          /\ \A q \in Ops : q # <<r, "core">> => call'[q] = call[q]
      BY <1>1, <2>2, <3>1, SetCallFacts
    <3> QED BY <1>1, <2>1, <2>2, <3>1, <3>2, <3>3, SaneIfCoreMoves DEF GatePoints
  <2>4. CASE \E code : EnterRefused(r, code)
    <3>1. call' = call /\ pc' = [pc EXCEPT ![r] = "done"]
      BY <2>4 DEF EnterRefused, Fail
    <3> QED BY <1>1, <2>1, <2>2, <3>1, SaneIfCoreMoves
  <2> QED BY <1>3, <2>3, <2>4 DEF EnterGate
<1>4. ASSUME NEW r \in Requests, CoreFails(r) PROVE Sane'
  <2> DEFINE c == Finished(call[<<r, "core">>])
  <2>1. /\ pc[r] = "core" /\ pc' = [pc EXCEPT ![r] = "done"] /\ UNCHANGED <<config, heard>>
        /\ SetCall(<<r, "core">>, c)
    BY <1>4 DEF CoreFails, Fail
  <2>2. c.st = "done" /\ c.attempt = 0
    BY FinishedFacts
  <2> HIDE DEF c
  <2>3. /\ call'[<<r, "core">>] = c
        /\ \A q \in Ops : q # <<r, "core">> => call'[q] = call[q]
    BY <1>1, <2>1, SetCallFacts, OpsFacts
  <2>4. /\ call'[<<r, "core">>].attempt <= config.maxRetries
        /\ call'[<<r, "core">>].st # "backoff"
        /\ call'[<<r, "core">>].st \in {"idle", "done"}
    BY <1>1, <2>2, <2>3
  <2> QED BY <1>1, <2>1, <2>3, <2>4, SaneIfCoreMoves
<1>5. ASSUME NEW r \in Requests, Enriched(r) PROVE Sane'
  <2>1. /\ pc[r] = "enrich" /\ pc' = [pc EXCEPT ![r] = "done"]
        /\ UNCHANGED <<config, heard, call>>
    BY <1>5 DEF Enriched
  <2>2. /\ call[<<r, "core">>].st \in {"idle", "done"}
        /\ call[<<r, "core">>].attempt <= config.maxRetries
    BY <1>1, <2>1, OpsFacts DEF Sane, Phases, Counted
  <2> QED BY <1>1, <2>1, <2>2, SaneIfCoreMoves
<1>6. ASSUME NEW r \in Requests, NEW how, ContextEnds(r, how) PROVE Sane'
  BY <1>2, <1>6 DEF ContextEnds
<1>7. ASSUME NEW r \in Requests, CoreFetched(r) PROVE Sane'
  BY <1>1, <1>7, SaneCoreFetched
<1>8. CASE UNCHANGED vars
  BY <1>2, <1>8 DEF vars
<1> QED BY <1>3, <1>4, <1>5, <1>6, <1>7, <1>8, SaneCall, SaneSection DEF Next, CoreReturns

LEMMA SaneInit == Init => Sane
<1> SUFFICES ASSUME Init PROVE Sane
  OBVIOUS
<1>1. /\ config \in Configs /\ call = [o \in Ops |-> NoCall(NoDocument)]
      /\ pc = [r \in Requests |-> IF r \in config.requests THEN "enter" ELSE "idle"]
      /\ heard = [r \in Requests |-> 0]
  BY DEF Init
<1>2. InTime(NoCall(NoDocument))
  BY NoCallInTime DEF Docs
<1>3. CallsInTime
  BY <1>1, <1>2 DEF CallsInTime, InTime
<1>4. \A o \in Ops : call[o].st = "idle" /\ call[o].attempt = 0
  BY <1>1 DEF NoCall
<1>5. config.maxRetries \in Nat
  BY <1>3, MaxRetriesNat
<1> QED BY <1>1, <1>3, <1>4, <1>5, OpsFacts DEF Sane, Phases, Counted

------------------------------------------------------------------------------
(* The slots.                                                               *)

GateHolders == {o \in Ops : call[o].st \in GatePoints}
SemHolders == {o \in Ops : o[2] \in SectionNames /\ call[o].st \in SemPoints}

Balanced ==
  /\ slots = Cardinality(GateHolders) /\ slots <= MaxConcurrency
  /\ enrichSem = Cardinality(SemHolders) /\ enrichSem <= EnrichSlots

Count(holds) == IF holds THEN 1 ELSE 0

LEMMA OpsFinite == IsFiniteSet(Ops)
<1>1. /\ IsFiniteSet({"experience"}) /\ IsFiniteSet({"education"}) /\ IsFiniteSet({"skills"})
      /\ IsFiniteSet({"certifications"}) /\ IsFiniteSet({"languages"})
      /\ IsFiniteSet({"volunteer"}) /\ IsFiniteSet({"projects"})
      /\ IsFiniteSet({"test_scores"}) /\ IsFiniteSet({"core"})
  BY FS_Singleton
<1>2. IsFiniteSet({"experience"} \cup {"education"} \cup {"skills"} \cup {"certifications"})
  BY <1>1, FS_Union
<1>3. IsFiniteSet({"languages"} \cup {"volunteer"} \cup {"projects"} \cup {"test_scores"})
  BY <1>1, FS_Union
<1>4. SectionNames = ({"experience"} \cup {"education"} \cup {"skills"} \cup {"certifications"})
                     \cup ({"languages"} \cup {"volunteer"} \cup {"projects"} \cup {"test_scores"})
  BY DEF SectionNames
<1>5. IsFiniteSet(Targets)
  BY <1>1, <1>2, <1>3, <1>4, FS_Union DEF Targets
<1> QED BY <1>5, FS_Product, RetrievalAssumption DEF Ops

\* Sets of calls that differ in one call at most.
LEMMA CountOne ==
  ASSUME NEW S \in SUBSET Ops, NEW T \in SUBSET Ops, NEW o \in Ops,
         \A q \in Ops : q # o => (q \in T <=> q \in S)
  PROVE  /\ Cardinality(S) \in Nat /\ Cardinality(T) \in Nat
         /\ Cardinality(T) = Cardinality(S) + Count(o \in T) - Count(o \in S)
<1>1. IsFiniteSet(S) /\ IsFiniteSet(T)
  BY OpsFinite, FS_Subset
<1>2. Cardinality(S) \in Nat /\ Cardinality(T) \in Nat
  BY <1>1, FS_CardinalityType
<1>3. CASE (o \in S) = (o \in T)
  <2>1. S = T
    BY <1>3
  <2>2. Count(o \in T) = Count(o \in S) /\ Count(o \in S) \in Nat
    BY <2>1 DEF Count
  <2> QED BY <1>2, <2>1, <2>2
<1>4. CASE o \notin S /\ o \in T
  <2>1. T = S \cup {o}
    BY <1>4
  <2>2. Cardinality(T) = Cardinality(S) + 1
    BY <1>1, <1>4, <2>1, FS_AddElement
  <2> QED BY <1>2, <1>4, <2>2 DEF Count
<1>5. CASE o \in S /\ o \notin T
  <2>1. T = S \ {o}
    BY <1>5
  <2>2. Cardinality(T) = Cardinality(S) - 1
    BY <1>1, <1>5, <2>1, FS_RemoveElement
  <2> QED BY <1>2, <1>5, <2>2 DEF Count
<1> QED BY <1>2, <1>3, <1>4, <1>5

LEMMA BalancedIf ==
  ASSUME Balanced, NEW o \in Ops,
         \A q \in Ops : q # o =>
           /\ call'[q].st \in GatePoints <=> call[q].st \in GatePoints
           /\ call'[q].st \in SemPoints <=> call[q].st \in SemPoints,
         slots' = slots + Count(call'[o].st \in GatePoints) - Count(call[o].st \in GatePoints),
         enrichSem' = IF o[2] \in SectionNames
                      THEN enrichSem + Count(call'[o].st \in SemPoints)
                                     - Count(call[o].st \in SemPoints)
                      ELSE enrichSem,
         slots' <= MaxConcurrency, enrichSem' <= EnrichSlots
  PROVE  Balanced'
<1>1. slots' = Cardinality(GateHolders')
  <2>1. /\ GateHolders \in SUBSET Ops /\ GateHolders' \in SUBSET Ops
        /\ \A q \in Ops : q # o => (q \in GateHolders' <=> q \in GateHolders)
        /\ (o \in GateHolders') = (call'[o].st \in GatePoints)
        /\ (o \in GateHolders) = (call[o].st \in GatePoints)
    BY DEF GateHolders
  <2>2. Cardinality(GateHolders') =
          Cardinality(GateHolders) + Count(o \in GateHolders') - Count(o \in GateHolders)
    BY <2>1, CountOne
  <2> QED BY <2>1, <2>2 DEF Balanced
<1>2. enrichSem' = Cardinality(SemHolders')
  <2>1. /\ SemHolders \in SUBSET Ops /\ SemHolders' \in SUBSET Ops
        /\ \A q \in Ops : q # o => (q \in SemHolders' <=> q \in SemHolders)
    BY DEF SemHolders
  <2>2. Cardinality(SemHolders') =
          Cardinality(SemHolders) + Count(o \in SemHolders') - Count(o \in SemHolders)
    BY <2>1, CountOne
  <2>3. CASE o[2] \in SectionNames
    <3>1. /\ (o \in SemHolders') = (call'[o].st \in SemPoints)
          /\ (o \in SemHolders) = (call[o].st \in SemPoints)
      BY <2>3 DEF SemHolders
    <3> QED BY <2>2, <2>3, <3>1 DEF Balanced
  <2>4. CASE o[2] \notin SectionNames
    <3>1. SemHolders' = SemHolders
      BY <2>1, <2>4 DEF SemHolders
    <3> QED BY <2>4, <3>1 DEF Balanced
  <2> QED BY <2>3, <2>4
<1> QED BY <1>1, <1>2 DEF Balanced

LEMMA BalancedIfOneCall ==
  ASSUME Sane, Balanced, NEW o \in Ops, NEW c, SetCall(o, c),
         slots' = slots + Count(c.st \in GatePoints) - Count(call[o].st \in GatePoints),
         enrichSem' = IF o[2] \in SectionNames
                      THEN enrichSem + Count(c.st \in SemPoints) - Count(call[o].st \in SemPoints)
                      ELSE enrichSem,
         slots' <= MaxConcurrency, enrichSem' <= EnrichSlots
  PROVE  Balanced'
<1>1. call'[o] = c /\ \A q \in Ops : q # o => call'[q] = call[q]
  BY SetCallFacts DEF Sane
<1>2. \A q \in Ops : q # o =>
           /\ call'[q].st \in GatePoints <=> call[q].st \in GatePoints
           /\ call'[q].st \in SemPoints <=> call[q].st \in SemPoints
  BY <1>1
<1> QED BY <1>1, <1>2, BalancedIf

LEMMA CountFacts == Count(TRUE) = 1 /\ Count(FALSE) = 0
BY DEF Count

\* A call that stays where its slots are.
LEMMA BalancedIfStill ==
  ASSUME Sane, Balanced, NEW o \in Ops, NEW c, SetCall(o, c),
         UNCHANGED <<slots, enrichSem>>,
         (c.st \in GatePoints) = (call[o].st \in GatePoints),
         (c.st \in SemPoints) = (call[o].st \in SemPoints)
  PROVE  Balanced'
<1>1. slots \in Nat /\ enrichSem \in Nat
  <2>1. GateHolders \in SUBSET Ops /\ SemHolders \in SUBSET Ops
    BY DEF GateHolders, SemHolders
  <2> QED BY <2>1, OpsFinite, FS_Subset, FS_CardinalityType DEF Balanced
<1>2. slots' <= MaxConcurrency /\ enrichSem' <= EnrichSlots
  BY DEF Balanced
<1>3. slots' = slots + Count(c.st \in GatePoints) - Count(call[o].st \in GatePoints)
  <2>1. Count(c.st \in GatePoints) \in Nat
    BY DEF Count
  <2> QED BY <1>1, <2>1
<1>4. enrichSem' = enrichSem + Count(c.st \in SemPoints) - Count(call[o].st \in SemPoints)
  <2>1. Count(c.st \in SemPoints) \in Nat
    BY DEF Count
  <2> QED BY <1>1, <2>1
<1> QED BY <1>2, <1>3, <1>4, BalancedIfOneCall

LEMMA SlotsNat ==
  ASSUME Balanced
  PROVE  slots \in 0..MaxConcurrency /\ enrichSem \in 0..EnrichSlots
<1>1. GateHolders \in SUBSET Ops /\ SemHolders \in SUBSET Ops
  BY DEF GateHolders, SemHolders
<1>2. slots \in Nat /\ enrichSem \in Nat
  BY <1>1, OpsFinite, FS_Subset, FS_CardinalityType DEF Balanced
<1> QED BY <1>2, RetrievalAssumption DEF Balanced

LEMMA BalancedSection ==
  ASSUME Sane, Balanced, NEW r \in Requests, NEW s \in SectionNames, SectionSteps(r, s)
  PROVE  Balanced'
<1> DEFINE o == <<r, s>>
<1>1. /\ o \in Ops /\ o[2] = s /\ call[o] \in Calls
      /\ slots \in Nat /\ enrichSem \in Nat
      /\ slots <= MaxConcurrency /\ enrichSem <= EnrichSlots
      /\ MaxConcurrency \in Nat /\ EnrichSlots \in Nat
  BY OpsFacts, SlotsNat, RetrievalAssumption DEF Sane, CallsInTime, Balanced
<1>2. CASE SemaphoreTaken(r, s)
  <2> DEFINE c == [call[o] EXCEPT !.st = "gate"]
  <2>1. /\ SetCall(o, c) /\ call[o].st = "semaphore" /\ enrichSem < EnrichSlots
        /\ enrichSem' = enrichSem + 1 /\ slots' = slots
    BY <1>2 DEF SemaphoreTaken
  <2>2. c.st = "gate"
    BY <1>1, RelabelFacts
  <2> HIDE DEF c
  <2>3. /\ ~(c.st \in GatePoints) /\ ~(call[o].st \in GatePoints)
        /\ c.st \in SemPoints /\ ~(call[o].st \in SemPoints)
    BY <2>1, <2>2 DEF GatePoints, SemPoints
  <2>4. /\ slots' = slots + Count(c.st \in GatePoints) - Count(call[o].st \in GatePoints)
        /\ enrichSem' = enrichSem + Count(c.st \in SemPoints) - Count(call[o].st \in SemPoints)
    BY <1>1, <2>1, <2>3 DEF Count
  <2>5. slots' <= MaxConcurrency /\ enrichSem' <= EnrichSlots
    BY <1>1, <2>1
  <2> QED BY <1>1, <2>1, <2>4, <2>5, BalancedIfOneCall
<1>3. CASE SectionAbandoned(r, s)
  <2> DEFINE c == Finished(call[o])
  <2>1. SetCall(o, c) /\ call[o].st = "semaphore" /\ UNCHANGED <<slots, enrichSem>>
    BY <1>3 DEF SectionAbandoned, SectionDone
  <2>2. c.st = "done"
    BY FinishedFacts
  <2> HIDE DEF c
  <2>3. /\ (c.st \in GatePoints) = (call[o].st \in GatePoints)
        /\ (c.st \in SemPoints) = (call[o].st \in SemPoints)
    BY <2>1, <2>2 DEF GatePoints, SemPoints
  <2> QED BY <1>1, <2>1, <2>3, BalancedIfStill
<1>4. CASE SectionRefused(r, s) \/ SectionApplied(r, s)
  <2> DEFINE c == Finished(call[o])
  <2>1. /\ SetCall(o, c) /\ call[o].st \in {"gate", "released"}
        /\ enrichSem' = enrichSem - 1 /\ slots' = slots
    <3>1. CASE SectionRefused(r, s)
      BY <3>1 DEF SectionRefused, SectionDone
    <3>2. CASE SectionApplied(r, s)
      <4>1. /\ SetCall(o, c) /\ call[o].st = "released"
            /\ enrichSem' = enrichSem - 1 /\ UNCHANGED <<config, ctx, pc, answer, slots, heard>>
        BY <3>2, Zenon DEF SectionApplied, SectionDone
      <4> QED BY <4>1
    <3> QED BY <1>4, <3>1, <3>2
  <2>2. c.st = "done"
    BY FinishedFacts
  <2> HIDE DEF c
  <2>3. /\ ~(c.st \in GatePoints) /\ ~(call[o].st \in GatePoints)
        /\ ~(c.st \in SemPoints) /\ call[o].st \in SemPoints
    BY <2>1, <2>2 DEF GatePoints, SemPoints
  <2>4. /\ slots' = slots + Count(c.st \in GatePoints) - Count(call[o].st \in GatePoints)
        /\ enrichSem' = enrichSem + Count(c.st \in SemPoints) - Count(call[o].st \in SemPoints)
    BY <1>1, <2>1, <2>3 DEF Count
  <2>5. slots' <= MaxConcurrency /\ enrichSem' <= EnrichSlots
    BY <1>1, <2>1
  <2> QED BY <1>1, <2>1, <2>4, <2>5, BalancedIfOneCall
<1>5. CASE SectionAdmitted(r, s)
  <2> DEFINE c == Attempt(call[o], Live(o))
  <2>1. /\ SetCall(o, c) /\ call[o].st = "gate" /\ slots < MaxConcurrency
        /\ slots' = slots + 1 /\ enrichSem' = enrichSem
    BY <1>5 DEF SectionAdmitted
  <2>2. c.st \in {"sent", "unsent"}
    BY <1>1, RelabelFacts
  <2> HIDE DEF c
  <2>3. /\ c.st \in GatePoints /\ ~(call[o].st \in GatePoints)
        /\ c.st \in SemPoints /\ call[o].st \in SemPoints
    BY <2>1, <2>2 DEF GatePoints, SemPoints
  <2>4. /\ slots' = slots + Count(c.st \in GatePoints) - Count(call[o].st \in GatePoints)
        /\ enrichSem' = enrichSem + Count(c.st \in SemPoints) - Count(call[o].st \in SemPoints)
    BY <1>1, <2>1, <2>3 DEF Count
  <2>5. slots' <= MaxConcurrency /\ enrichSem' <= EnrichSlots
    BY <1>1, <2>1
  <2> QED BY <1>1, <2>1, <2>4, <2>5, BalancedIfOneCall
<1>6. CASE SectionFails(r, s)
  <2> DEFINE c == Finished(call[o])
  <2>1. /\ SetCall(o, c) /\ call[o].st = "returned"
        /\ slots' = slots - 1 /\ enrichSem' = enrichSem - 1
    BY <1>6 DEF SectionFails, SectionDone
  <2>2. c.st = "done"
    BY FinishedFacts
  <2> HIDE DEF c
  <2>3. /\ ~(c.st \in GatePoints) /\ call[o].st \in GatePoints
        /\ ~(c.st \in SemPoints) /\ call[o].st \in SemPoints
    BY <2>1, <2>2 DEF GatePoints, SemPoints
  <2>4. /\ slots' = slots + Count(c.st \in GatePoints) - Count(call[o].st \in GatePoints)
        /\ enrichSem' = enrichSem + Count(c.st \in SemPoints) - Count(call[o].st \in SemPoints)
    BY <1>1, <2>1, <2>3 DEF Count
  <2>5. slots' <= MaxConcurrency /\ enrichSem' <= EnrichSlots
    BY <1>1, <2>1
  <2> QED BY <1>1, <2>1, <2>4, <2>5, BalancedIfOneCall
<1>7. CASE SectionFetched(r, s)
  <2> DEFINE c == [call[o] EXCEPT !.st = "released"]
  <2>1. /\ SetCall(o, c) /\ call[o].st = "returned"
        /\ slots' = slots - 1 /\ enrichSem' = enrichSem
    BY <1>7 DEF SectionFetched
  <2>2. c.st = "released"
    BY <1>1, RelabelFacts
  <2> HIDE DEF c
  <2>3. /\ ~(c.st \in GatePoints) /\ call[o].st \in GatePoints
        /\ c.st \in SemPoints /\ call[o].st \in SemPoints
    BY <2>1, <2>2 DEF GatePoints, SemPoints
  <2>4. /\ slots' = slots + Count(c.st \in GatePoints) - Count(call[o].st \in GatePoints)
        /\ enrichSem' = enrichSem + Count(c.st \in SemPoints) - Count(call[o].st \in SemPoints)
    BY <1>1, <2>1, <2>3 DEF Count
  <2>5. slots' <= MaxConcurrency /\ enrichSem' <= EnrichSlots
    BY <1>1, <2>1
  <2> QED BY <1>1, <2>1, <2>4, <2>5, BalancedIfOneCall
<1> QED BY <1>2, <1>3, <1>4, <1>5, <1>6, <1>7 DEF SectionSteps

LEMMA BalancedStep == Sane /\ Balanced /\ [Next]_vars => Balanced'
<1> SUFFICES ASSUME Sane, Balanced, [Next]_vars PROVE Balanced'
  OBVIOUS
<1>1. /\ slots \in Nat /\ enrichSem \in Nat
      /\ slots <= MaxConcurrency /\ enrichSem <= EnrichSlots
      /\ MaxConcurrency \in Nat /\ EnrichSlots \in Nat
  BY SlotsNat, RetrievalAssumption DEF Balanced
<1>2. ASSUME UNCHANGED <<call, slots, enrichSem>> PROVE Balanced'
  BY <1>2 DEF Balanced, GateHolders, SemHolders
<1>3. ASSUME NEW r \in Requests
      PROVE  /\ <<r, "core">> \in Ops /\ call[<<r, "core">>] \in Calls
             /\ <<r, "core">>[2] \notin SectionNames
  BY OpsFacts DEF Sane, CallsInTime
<1>4. ASSUME NEW o \in Ops, CallTimesOut(o) \/ CallReturns(o) PROVE Balanced'
  <2>1. CASE CallTimesOut(o)
    <3> DEFINE c == [call[o] EXCEPT !.timedOut = TRUE]
    <3>1. SetCall(o, c) /\ UNCHANGED <<slots, enrichSem>>
      BY <2>1 DEF CallTimesOut
    <3>2. c.st = call[o].st
      BY RelabelFacts DEF Sane, CallsInTime
    <3> HIDE DEF c
    <3> QED BY <3>1, <3>2, BalancedIfStill
  <2>2. CASE CallReturns(o)
    <3>1. PICK c \in Calls : CallMoves(o, c)
      BY <2>2, CallReturnsMoves DEF Moves
    <3>2. /\ SetCall(o, c) /\ UNCHANGED <<slots, enrichSem>>
          /\ c.st \in GatePoints /\ call[o].st \in {"sent", "unsent", "backoff"}
      BY <3>1 DEF CallMoves, callOnly
    <3>3. /\ (c.st \in GatePoints) = (call[o].st \in GatePoints)
          /\ (c.st \in SemPoints) = (call[o].st \in SemPoints)
      BY <3>2 DEF GatePoints, SemPoints
    <3> QED BY <3>2, <3>3, BalancedIfStill
  <2> QED BY <1>4, <2>1, <2>2
<1>5. ASSUME NEW r \in Requests, EnterAdmitted(r) PROVE Balanced'
  <2> DEFINE o == <<r, "core">>
             c == Attempt(call[o], Live(o))
  <2>1. /\ SetCall(o, c) /\ pc[r] = "enter" /\ slots < MaxConcurrency
        /\ slots' = slots + 1 /\ enrichSem' = enrichSem
    BY <1>5 DEF EnterAdmitted
  <2>2. c.st \in {"sent", "unsent"} /\ call[o].st = "idle"
    BY <1>3, <2>1, RelabelFacts DEF Sane, Phases
  <2> HIDE DEF c
  <2>3. c.st \in GatePoints /\ ~(call[o].st \in GatePoints)
    BY <2>2 DEF GatePoints
  <2>4. slots' = slots + Count(c.st \in GatePoints) - Count(call[o].st \in GatePoints)
    BY <1>1, <2>1, <2>3 DEF Count
  <2>5. slots' <= MaxConcurrency /\ enrichSem' <= EnrichSlots
    BY <1>1, <2>1
  <2> QED BY <1>3, <2>1, <2>4, <2>5, BalancedIfOneCall
<1>6. ASSUME NEW r \in Requests, CoreFails(r) PROVE Balanced'
  <2> DEFINE o == <<r, "core">>
             c == Finished(call[o])
  <2>1. /\ SetCall(o, c) /\ call[o].st = "returned"
        /\ slots' = slots - 1 /\ enrichSem' = enrichSem
    BY <1>6 DEF CoreFails
  <2>2. c.st = "done"
    BY FinishedFacts
  <2> HIDE DEF c
  <2>3. ~(c.st \in GatePoints) /\ call[o].st \in GatePoints
    BY <2>1, <2>2 DEF GatePoints
  <2>4. slots' = slots + Count(c.st \in GatePoints) - Count(call[o].st \in GatePoints)
    BY <1>1, <2>1, <2>3 DEF Count
  <2>5. slots' <= MaxConcurrency /\ enrichSem' <= EnrichSlots
    BY <1>1, <2>1
  <2> QED BY <1>3, <2>1, <2>4, <2>5, BalancedIfOneCall
<1>7. ASSUME NEW r \in Requests, CoreFetched(r) PROVE Balanced'
  <2> DEFINE o == <<r, "core">>
  <2>1. /\ call[o].st = "returned" /\ pc[r] = "core"
        /\ slots' = slots - 1 /\ enrichSem' = enrichSem
    BY <1>7 DEF CoreFetched
  <2>2. PICK enrich \in BOOLEAN :
           /\ call'[<<r, "core">>].st = "done"
           /\ \A q \in Requests : \A t \in Targets : q # r => call'[<<q, t>>] = call[<<q, t>>]
           /\ \A s \in SectionNames :
                IF enrich /\ s \in Wanted
                THEN /\ call'[<<r, s>>].st = "semaphore"
                     /\ call'[<<r, s>>].attempt = call[<<r, s>>].attempt
                ELSE call'[<<r, s>>] = call[<<r, s>>]
    BY <1>7, CoreFetchedFacts
  <2>3. \A s \in SectionNames :
          call[<<r, s>>].st = "idle" /\ call'[<<r, s>>].st \in {"idle", "semaphore"}
    BY <2>1, <2>2 DEF Sane, Phases
  <2>4. ASSUME NEW q \in Ops, q # o
        PROVE  /\ call'[q].st \in GatePoints <=> call[q].st \in GatePoints
               /\ call'[q].st \in SemPoints <=> call[q].st \in SemPoints
    <3>1. PICK p \in Requests, t \in Targets : q = <<p, t>>
      BY OpsFacts
    <3>2. CASE p # r
      BY <2>2, <3>1, <3>2
    <3>3. CASE p = r
      <4>1. t \in SectionNames
        BY <2>4, <3>1, <3>3, OpsFacts
      <4> QED BY <2>3, <3>1, <3>3, <4>1 DEF GatePoints, SemPoints
    <3> QED BY <3>2, <3>3
  <2>5. ~(call'[o].st \in GatePoints) /\ call[o].st \in GatePoints
    BY <2>1, <2>2 DEF GatePoints
  <2>6. slots' = slots + Count(call'[o].st \in GatePoints) - Count(call[o].st \in GatePoints)
    BY <1>1, <2>1, <2>5 DEF Count
  <2>7. slots' <= MaxConcurrency /\ enrichSem' <= EnrichSlots
    BY <1>1, <2>1
  <2> QED BY <1>3, <2>1, <2>4, <2>6, <2>7, BalancedIf
<1>8. ASSUME NEW r \in Requests, NEW x, EnterRefused(r, x) \/ ContextEnds(r, x) \/ Enriched(r)
      PROVE  Balanced'
  BY <1>2, <1>8 DEF EnterRefused, ContextEnds, Enriched
<1>9. CASE UNCHANGED vars
  BY <1>2, <1>9 DEF vars
<1> QED BY <1>4, <1>5, <1>6, <1>7, <1>8, <1>9, BalancedSection
       DEF Next, EnterGate, CoreReturns

LEMMA BalancedInit == Init => Balanced
<1> SUFFICES ASSUME Init PROVE Balanced
  OBVIOUS
<1>1. \A o \in Ops : call[o].st = "idle"
  BY DEF Init, NoCall
<1>2. GateHolders = {} /\ SemHolders = {}
  BY <1>1 DEF GateHolders, SemHolders, GatePoints, SemPoints
<1>3. slots = 0 /\ enrichSem = 0 /\ 0 <= MaxConcurrency /\ 0 <= EnrichSlots
  BY RetrievalAssumption DEF Init
<1> QED BY <1>2, <1>3, FS_EmptySet DEF Balanced

LEMMA BalancedAlways == Spec => [](Sane /\ Balanced)
<1>1. Init => Sane /\ Balanced
  BY SaneInit, BalancedInit
<1>2. Sane /\ Balanced /\ [Next]_vars => (Sane /\ Balanced)'
  BY SaneStep, BalancedStep
<1> QED BY <1>1, <1>2, PTL DEF Spec

\* No slot of the gate and none of the enrichment semaphore is lost or given back
\* twice, on any way out of a call.
THEOREM SlotsAlwaysAccounted == Spec => []SlotsAccounted
<1>1. Sane /\ Balanced => SlotsAccounted
  <2> SUFFICES ASSUME Balanced PROVE SlotsAccounted
    OBVIOUS
  <2>1. GateHolders =
          {o \in Ops : o[2] \in Targets /\ call[o].st \in {"sent", "unsent", "backoff", "returned"}}
    BY DEF GateHolders, GatePoints, Ops
  <2>2. SemHolders =
          {o \in Ops : /\ o[2] \in SectionNames
                       /\ call[o].st \in {"sent", "unsent", "backoff", "returned"}
                                         \cup {"gate", "released"}}
    BY DEF SemHolders, SemPoints, GatePoints
  <2> QED BY <2>1, <2>2 DEF SlotsAccounted, Balanced
<1> QED BY <1>1, BalancedAlways, PTL

------------------------------------------------------------------------------
(* The types.                                                               *)

\* The rest of a request: its context, its statuses and its answer.
Tidy ==
  /\ ctx \in [Requests -> {"live", "expired", "gone"}]
  /\ DOMAIN sections = Requests
  /\ \A r \in Requests : DOMAIN sections[r] \subseteq Wanted
  /\ answer \in [Requests -> Codes \cup {"none", "ok"}]

\* A section's status is recorded under its name.
LEMMA SectionDoneTidy ==
  ASSUME Tidy, NEW r \in Requests, NEW s \in Wanted, NEW status,
         SectionDone(r, s, status), UNCHANGED <<config, ctx, answer>>
  PROVE  Tidy'
<1>1. sections' = [sections EXCEPT ![r] =
         [t \in DOMAIN sections[r] \cup {s} |-> IF t = s THEN status ELSE sections[r][t]]]
  BY DEF SectionDone
<1>2. DOMAIN sections' = Requests
  BY <1>1 DEF Tidy
<1>3. ASSUME NEW q \in Requests PROVE DOMAIN sections'[q] \subseteq Wanted
  <2>1. CASE q = r
    <3>1. sections'[r] =
            [t \in DOMAIN sections[r] \cup {s} |-> IF t = s THEN status ELSE sections[r][t]]
      BY <1>1 DEF Tidy
    <3>2. DOMAIN sections'[r] = DOMAIN sections[r] \cup {s}
      BY <3>1
    <3> QED BY <2>1, <3>2 DEF Tidy
  <2>2. CASE q # r
    <3>1. sections'[q] = sections[q]
      BY <1>1, <2>2 DEF Tidy
    <3> QED BY <3>1 DEF Tidy
  <2> QED BY <2>1, <2>2
<1> QED BY <1>2, <1>3 DEF Tidy, Wanted

LEMMA TidySection ==
  ASSUME Sane, Tidy, NEW r \in Requests, NEW s \in SectionNames, SectionSteps(r, s)
  PROVE  Tidy'
<1>1. s \in Wanted
  BY SectionCalls
<1>2. CASE SemaphoreTaken(r, s) \/ SectionAdmitted(r, s) \/ SectionFetched(r, s)
  BY <1>2 DEF SemaphoreTaken, SectionAdmitted, SectionFetched, Tidy, Wanted
<1>3. CASE SectionAbandoned(r, s) \/ SectionRefused(r, s) \/ SectionFails(r, s)
  <2>1. SectionDone(r, s, "unavailable") /\ UNCHANGED <<config, ctx, answer>>
    BY <1>3 DEF SectionAbandoned, SectionRefused, SectionFails
  <2> QED BY <1>1, <2>1, SectionDoneTidy
<1>4. CASE SectionApplied(r, s)
  <2>1. /\ \E status : SectionDone(r, s, status)
        /\ UNCHANGED <<config, ctx, pc, answer, slots, heard>>
    BY <1>4, Zenon DEF SectionApplied
  <2>2. UNCHANGED <<config, ctx, answer>>
    BY <2>1
  <2> QED BY <1>1, <2>1, <2>2, SectionDoneTidy
<1> QED BY <1>2, <1>3, <1>4 DEF SectionSteps

\* What a core fetch fails with is one of the codes.
LEMMA CoreErrorCode ==
  ASSUME CallsInTime, NEW r \in Requests
  PROVE  CoreError(r) \in Codes \cup {"none"}
<1>1. call[<<r, "core">>].err \in Codes \cup {"none"}
  BY OpsFacts DEF CallsInTime, Calls
<1>2. \A doc : ProfileError(doc) \in {"upstream_parse_error", "profile_not_found", "none"}
  BY DEF ProfileError
<1> QED BY <1>1, <1>2 DEF CoreError, Codes

LEMMA TidyStep == Sane /\ Tidy /\ [Next]_vars => Tidy'
<1> SUFFICES ASSUME Sane, Tidy, [Next]_vars PROVE Tidy'
  OBVIOUS
<1>1. ASSUME NEW r \in Requests, NEW code \in Codes \cup {"none", "ok"},
             answer' = [answer EXCEPT ![r] = code], UNCHANGED <<config, ctx, sections>>
      PROVE  Tidy'
  BY <1>1 DEF Tidy, Wanted
<1>2. ASSUME UNCHANGED <<config, ctx, sections, answer>> PROVE Tidy'
  BY <1>2 DEF Tidy, Wanted
<1>3. ASSUME NEW r \in Requests, NEW how \in {"expired", "gone"}, ContextEnds(r, how)
      PROVE  Tidy'
  BY <1>3 DEF ContextEnds, Tidy, Wanted
<1>4. ASSUME NEW o \in Ops, CallTimesOut(o) \/ CallReturns(o) PROVE Tidy'
  <2>1. UNCHANGED <<config, ctx, sections, answer>>
    BY <1>4 DEF CallTimesOut, CallReturns, StatusArrives, BodyArrives, BodyUnreadable,
                TransportFails, BackoffElapses, BackoffCut, callOnly
  <2> QED BY <1>2, <2>1
<1>5. ASSUME NEW r \in Requests, EnterGate(r) PROVE Tidy'
  <2>1. CASE EnterAdmitted(r)
    BY <1>2, <2>1 DEF EnterAdmitted
  <2>2. ASSUME NEW code \in {"upstream_unavailable", "upstream_rate_limited"},
               EnterRefused(r, code)
        PROVE  Tidy'
    BY <1>1, <2>2 DEF EnterRefused, Fail, Codes
  <2> QED BY <1>5, <2>1, <2>2 DEF EnterGate
<1>6. ASSUME NEW r \in Requests, CoreFails(r) PROVE Tidy'
  <2>1. CoreError(r) \in Codes \cup {"none", "ok"}
    BY CoreErrorCode DEF Sane
  <2> QED BY <1>1, <1>6, <2>1 DEF CoreFails, Fail
<1>7. ASSUME NEW r \in Requests, CoreFetched(r) PROVE Tidy'
  <2>1. /\ \E enrich \in BOOLEAN : answer' = [answer EXCEPT ![r] = IF enrich THEN @ ELSE "ok"]
        /\ UNCHANGED <<config, ctx, sections>>
    BY <1>7, CoreFetchedFacts DEF CoreFetched
  <2>2. answer[r] \in Codes \cup {"none", "ok"}
    BY DEF Tidy
  <2> QED BY <1>1, <2>1, <2>2
<1>8. ASSUME NEW r \in Requests, Enriched(r) PROVE Tidy'
  BY <1>1, <1>8 DEF Enriched
<1>9. CASE UNCHANGED vars
  BY <1>2, <1>9 DEF vars
<1> QED BY <1>3, <1>4, <1>5, <1>6, <1>7, <1>8, <1>9, TidySection DEF Next, CoreReturns

LEMMA TidyAlways == Spec => []Tidy
<1>1. Init => Tidy
  <2> SUFFICES ASSUME Init PROVE Tidy
    OBVIOUS
  <2>1. \A r \in Requests : DOMAIN sections[r] = {}
    BY DEF Init
  <2> QED BY <2>1 DEF Init, Tidy
<1>2. Sane /\ Tidy /\ [Next]_vars => Tidy'
  BY TidyStep
<1> QED BY <1>1, <1>2, BalancedAlways, PTL DEF Spec

\* Every variable keeps its type; in particular no call makes more attempts than
\* configured, and the two semaphores are never filled beyond their slots.
THEOREM TypeCorrect == Spec => []TypeOK
<1>1. Sane /\ Balanced /\ Tidy => TypeOK
  <2> SUFFICES ASSUME Sane, Balanced, Tidy PROVE TypeOK
    OBVIOUS
  <2>1. config \in Configs /\ config.maxRetries \in Nat /\ call \in [Ops -> Calls]
    BY MaxRetriesNat DEF Sane, CallsInTime
  <2>2. ASSUME NEW o \in Ops
        PROVE  /\ call[o].st \in CallPoints /\ call[o].attempt \in 0..config.maxRetries
               /\ call[o].wait \in Durations /\ call[o].waited \in 0..Timeout
               /\ call[o].err \in Codes \cup {"none"}
               /\ call[o].doc \in CoreDocs \cup SectionDocs \cup {NoDocument}
    <3>1. InTime(call[o]) /\ call[o].attempt <= config.maxRetries
      BY DEF Sane, CallsInTime, Counted
    <3>2. /\ call[o].st \in CallPoints /\ call[o].err \in Codes \cup {"none"}
          /\ call[o].doc \in CoreDocs \cup SectionDocs \cup {NoDocument}
          /\ call[o].attempt \in Nat /\ call[o].wait \in Int /\ call[o].waited \in Nat
      BY <3>1 DEF InTime, Calls, Docs
    <3>3. /\ 0 < call[o].wait /\ call[o].wait <= call[o].waited + RetryBackoff
          /\ call[o].waited <= Timeout
      BY <3>1 DEF InTime
    <3>4. call[o].wait \in Durations
      BY <3>2, <3>3, ClientAssumption DEF Durations
    <3>5. call[o].waited \in 0..Timeout /\ call[o].attempt \in 0..config.maxRetries
      BY <2>1, <3>1, <3>2, <3>3, ClientAssumption
    <3> QED BY <3>2, <3>4, <3>5
  <2>3. DOMAIN call = Ops
    BY <2>1
  <2> QED BY <2>1, <2>2, <2>3, SlotsNat DEF Sane, Phases, Tidy, TypeOK
<1> QED BY <1>1, BalancedAlways, TidyAlways, PTL

------------------------------------------------------------------------------
(* The verdicts.                                                            *)

\* What LinkedIn has said settles the core call at once, and with it the answer:
\* it is heard before any section starts.
Settled(r) ==
  LET c == call[<<r, "core">>]
  IN /\ c.st \in {"returned", "done"} /\ pc[r] \in {"core", "done"}
     /\ \A s \in SectionNames : call[<<r, s>>].st = "idle"
     /\ c.st = "returned" => c.err = ClassifyStatus(heard[r])
     /\ pc[r] = "done" => answer[r] = ClassifyStatus(heard[r])

\* A core call that has returned blames LinkedIn for what LinkedIn has said only,
\* and without an error it has a document.
Honest(r) ==
  LET c == call[<<r, "core">>]
  IN c.st = "returned" =>
       /\ c.err = "upstream_auth_failed" => heard[r] \in {401, 403} \cup 300..399
       /\ c.err = "profile_not_found" => heard[r] = 404
       /\ c.err = "none" => c.doc \in CoreDocs

Answered(r) ==
  /\ pc[r] # "done" => answer[r] = "none"
  /\ answer[r] = "upstream_auth_failed" => heard[r] \in {401, 403} \cup 300..399
  /\ answer[r] = "profile_not_found" =>
       heard[r] = 404 \/ call[<<r, "core">>].doc \in CoreDocs \ {Malformed}

Truth(r) == (heard[r] # 0 => Settled(r)) /\ Honest(r) /\ Answered(r)

\* A request that is not concerned.
LEMMA TruthStays ==
  ASSUME NEW r \in Requests, Truth(r),
         pc'[r] = pc[r], answer'[r] = answer[r], heard'[r] = heard[r],
         call'[<<r, "core">>].st = call[<<r, "core">>].st,
         call'[<<r, "core">>].err = call[<<r, "core">>].err,
         call'[<<r, "core">>].doc = call[<<r, "core">>].doc,
         \/ heard[r] = 0
         \/ \A s \in SectionNames : call'[<<r, s>>].st = call[<<r, s>>].st
  PROVE  Truth(r)'
<1>1. (heard[r] # 0 => Settled(r))'
  BY DEF Truth, Settled
<1>2. Honest(r)'
  BY DEF Truth, Honest
<1>3. Answered(r)'
  BY DEF Truth, Answered
<1> QED BY <1>1, <1>2, <1>3 DEF Truth

LEMMA TruthUntouched ==
  ASSUME \A r \in Requests : Truth(r), NEW p,
         \A q \in Requests : q # p =>
           /\ pc'[q] = pc[q] /\ answer'[q] = answer[q] /\ heard'[q] = heard[q]
           /\ \A t \in Targets : call'[<<q, t>>] = call[<<q, t>>]
  PROVE  \A q \in Requests : q # p => Truth(q)'
<1> SUFFICES ASSUME NEW q \in Requests, q # p PROVE Truth(q)'
  OBVIOUS
<1>1. "core" \in Targets /\ \A s \in SectionNames : s \in Targets
  BY DEF Targets
<1>2. /\ pc'[q] = pc[q] /\ answer'[q] = answer[q] /\ heard'[q] = heard[q]
      /\ call'[<<q, "core">>] = call[<<q, "core">>]
      /\ \A s \in SectionNames : call'[<<q, s>>] = call[<<q, s>>]
  BY <1>1
<1> QED BY <1>2, TruthStays

\* A step of one call leaves the other requests alone.
LEMMA OneCallElsewhere ==
  ASSUME Sane, NEW p \in Requests, NEW t \in Targets, NEW c, SetCall(<<p, t>>, c)
  PROVE  /\ call'[<<p, t>>] = c
         /\ \A u \in Targets : u # t => call'[<<p, u>>] = call[<<p, u>>]
         /\ \A q \in Requests : q # p =>
              \A u \in Targets : call'[<<q, u>>] = call[<<q, u>>]
<1>1. <<p, t>> \in Ops /\ \A q \in Requests : \A u \in Targets : <<q, u>> \in Ops
  BY DEF Ops
<1>2. call'[<<p, t>>] = c /\ \A q \in Ops : q # <<p, t>> => call'[q] = call[q]
  BY <1>1, SetCallFacts DEF Sane
<1>3. \A u \in Targets : u # t => <<p, u>> # <<p, t>>
  OBVIOUS
<1>4. \A q \in Requests : q # p => \A u \in Targets : <<q, u>> # <<p, t>>
  OBVIOUS
<1> QED BY <1>1, <1>2, <1>3, <1>4

\* A call that is under way is the core call of a request that has heard nothing.
LEMMA CoreCallTruth ==
  ASSUME Sane, NEW r \in Requests, Truth(r), NEW c \in Calls,
         CallMoves(<<r, "core">>, c), CoreHears(r, c)
  PROVE  Truth(r)'
<1> DEFINE o == <<r, "core">>
<1>1. /\ SetCall(o, c) /\ pc' = pc /\ answer' = answer
      /\ call[o].st \in {"sent", "unsent", "backoff"} /\ c.st \in GatePoints
      /\ c.st = "backoff" => c.err \in Passing
  BY DEF CallMoves, callOnly
<1>2. /\ pc[r] = "core" /\ heard[r] = 0 /\ answer[r] = "none"
      /\ \A s \in SectionNames : call[<<r, s>>].st = "idle"
  <2>1. pc[r] = "core" /\ heard[r] = 0
    BY <1>1 DEF Sane, Phases, Truth, Settled
  <2> QED BY <2>1 DEF Sane, Phases, Truth, Answered
<1>3. /\ call'[o] = c
      /\ \A s \in SectionNames : call'[<<r, s>>] = call[<<r, s>>]
  BY <1>1, OneCallElsewhere, OpsFacts DEF Targets
<1>4. /\ c.err = "upstream_auth_failed" => heard'[r] \in {401, 403} \cup 300..399
      /\ c.err = "profile_not_found" => heard'[r] = 404
      /\ c.st = "returned" /\ c.err = "none" => c.doc \in CoreDocs
      /\ \/ heard' = heard
         \/ \E status \in Statuses :
              /\ heard' = [heard EXCEPT ![r] = status]
              /\ c.st = "returned" /\ c.err = ClassifyStatus(status)
  BY <1>2 DEF CoreHears
<1>5. Honest(r)'
  BY <1>3, <1>4 DEF Honest
<1>6. Answered(r)'
  BY <1>1, <1>2 DEF Answered
<1>7. heard'[r] # 0 => Settled(r)'
  <2> SUFFICES ASSUME heard'[r] # 0 PROVE Settled(r)'
    OBVIOUS
  <2>1. PICK status \in Statuses : /\ heard' = [heard EXCEPT ![r] = status]
                                   /\ c.st = "returned" /\ c.err = ClassifyStatus(status)
    BY <1>2, <1>4
  <2>2. heard'[r] = status
    BY <2>1 DEF Sane
  <2> QED BY <1>1, <1>2, <1>3, <2>1, <2>2 DEF Settled
<1> QED BY <1>5, <1>6, <1>7 DEF Truth

LEMMA TruthCall ==
  ASSUME Sane, \A r \in Requests : Truth(r), NEW o \in Ops,
         CallTimesOut(o) \/ CallReturns(o)
  PROVE  \A r \in Requests : Truth(r)'
<1>1. PICK p \in Requests, t \in Targets : o = <<p, t>>
  BY OpsFacts
<1>2. o[1] = p /\ o[2] = t /\ call[o] \in Calls
  BY <1>1 DEF Sane, CallsInTime
<1>t. "core" \in Targets /\ \A s \in SectionNames : s \in Targets /\ s # "core"
  BY OpsFacts DEF Targets
<1>3. CASE CallTimesOut(o)
  <2> DEFINE c == [call[o] EXCEPT !.timedOut = TRUE]
  <2>1. SetCall(o, c) /\ UNCHANGED <<pc, answer, heard>>
    BY <1>3 DEF CallTimesOut
  <2>2. c.st = call[o].st /\ c.err = call[o].err /\ c.doc = call[o].doc
    BY <1>2, RelabelFacts
  <2> HIDE DEF c
  <2>3. \A q \in Requests : \A u \in Targets :
          /\ call'[<<q, u>>].st = call[<<q, u>>].st
          /\ call'[<<q, u>>].err = call[<<q, u>>].err
          /\ call'[<<q, u>>].doc = call[<<q, u>>].doc
    BY <1>1, <2>1, <2>2, OneCallElsewhere
  <2>4. ASSUME NEW q \in Requests PROVE Truth(q)'
    <3>1. /\ call'[<<q, "core">>].st = call[<<q, "core">>].st
          /\ call'[<<q, "core">>].err = call[<<q, "core">>].err
          /\ call'[<<q, "core">>].doc = call[<<q, "core">>].doc
          /\ \A s \in SectionNames : call'[<<q, s>>].st = call[<<q, s>>].st
      BY <1>t, <2>3
    <3> QED BY <2>1, <3>1, TruthStays
  <2> QED BY <2>4
<1>4. CASE CallReturns(o)
  <2>1. PICK c \in Calls : /\ CallMoves(o, c)
                           /\ IF o[2] = "core" THEN CoreHears(o[1], c) ELSE heard' = heard
    BY <1>4, CallReturnsMoves DEF Moves
  <2>2. /\ SetCall(o, c) /\ pc' = pc /\ answer' = answer
        /\ call[o].st \in {"sent", "unsent", "backoff"}
    BY <2>1 DEF CallMoves, callOnly
  <2>3. \A q \in Requests : q # p => heard'[q] = heard[q]
    BY <1>2, <2>1 DEF CoreHears, Sane
  <2>4. \A q \in Requests : q # p => Truth(q)'
    BY <1>1, <2>2, <2>3, OneCallElsewhere, TruthUntouched
  <2>5. Truth(p)'
    <3>1. CASE t = "core"
      BY <1>1, <1>2, <2>1, <3>1, CoreCallTruth
    <3>2. CASE t # "core"
      <4>1. heard' = heard /\ t \in SectionNames /\ call[<<p, t>>].st # "idle"
        BY <1>1, <1>2, <2>1, <2>2, <3>2, OpsFacts
      <4>2. heard[p] = 0
        BY <4>1 DEF Truth, Settled
      <4>3. call'[<<p, "core">>] = call[<<p, "core">>]
        BY <1>1, <1>t, <2>2, <3>2, OneCallElsewhere
      <4> QED BY <2>2, <4>1, <4>2, <4>3, TruthStays
    <3> QED BY <3>1, <3>2
  <2> QED BY <2>4, <2>5
<1> QED BY <1>3, <1>4

LEMMA TruthSection ==
  ASSUME Sane, \A r \in Requests : Truth(r), NEW p \in Requests, NEW s \in SectionNames,
         SectionSteps(p, s)
  PROVE  \A r \in Requests : Truth(r)'
<1>1. PICK c : /\ SetCall(<<p, s>>, c) /\ UNCHANGED <<config, pc, heard, answer>>
               /\ call[<<p, s>>].st # "idle"
  BY SectionCalls
<1>2. s \in Targets /\ "core" \in Targets /\ s # "core"
  BY OpsFacts DEF Targets
<1>3. \A q \in Requests : q # p => Truth(q)'
  BY <1>1, <1>2, OneCallElsewhere, TruthUntouched
<1>4. heard[p] = 0
  BY <1>1 DEF Truth, Settled
<1>5. call'[<<p, "core">>] = call[<<p, "core">>]
  BY <1>1, <1>2, OneCallElsewhere
<1>6. Truth(p)'
  BY <1>1, <1>4, <1>5, TruthStays
<1> QED BY <1>3, <1>6

\* A request enters the gate, or it is turned away.
LEMMA TruthEnter ==
  ASSUME Sane, \A r \in Requests : Truth(r), NEW p \in Requests, EnterGate(p)
  PROVE  \A r \in Requests : Truth(r)'
<1> DEFINE o == <<p, "core">>
<1>1. /\ pc[p] = "enter" /\ heard' = heard /\ call[o].st = "idle"
      /\ pc \in [Requests -> {"idle", "enter", "core", "enrich", "done"}]
  BY DEF EnterGate, EnterRefused, EnterAdmitted, Sane, Phases
<1>2. heard[p] = 0 /\ answer[p] = "none"
  BY <1>1 DEF Truth, Settled, Answered
<1>3. CASE EnterAdmitted(p)
  <2> DEFINE c == Attempt(call[o], Live(o))
  <2>1. SetCall(o, c) /\ pc' = [pc EXCEPT ![p] = "core"] /\ answer' = answer
    BY <1>3 DEF EnterAdmitted
  <2>2. c.st \in {"sent", "unsent"}
    BY OpsFacts, RelabelFacts DEF Sane, CallsInTime
  <2> HIDE DEF c
  <2>3. call'[o] = c /\ "core" \in Targets
    BY <2>1, OneCallElsewhere DEF Targets
  <2>4. \A q \in Requests : q # p => Truth(q)'
    BY <1>1, <2>1, <2>3, OneCallElsewhere, TruthUntouched
  <2>5. Truth(p)'
    BY <1>1, <1>2, <2>1, <2>2, <2>3 DEF Truth, Honest, Answered
  <2> QED BY <2>4, <2>5
<1>4. ASSUME NEW code \in {"upstream_unavailable", "upstream_rate_limited"},
             EnterRefused(p, code)
      PROVE  \A r \in Requests : Truth(r)'
  <2>1. /\ answer' = [answer EXCEPT ![p] = code] /\ pc' = [pc EXCEPT ![p] = "done"]
        /\ call' = call
    BY <1>4 DEF EnterRefused, Fail
  <2>2. \A q \in Requests : q # p => Truth(q)'
    BY <1>1, <2>1, TruthUntouched
  <2>3. pc'[p] = "done"
    BY <1>1, <2>1
  <2>4. answer'[p] \notin {"upstream_auth_failed", "profile_not_found"}
    <3>1. answer'[p] = answer[p] \/ answer'[p] = code
      BY <2>1
    <3> QED BY <1>2, <3>1
  <2>5. Truth(p)'
    BY <1>1, <1>2, <2>1, <2>3, <2>4 DEF Truth, Honest, Answered
  <2> QED BY <2>2, <2>5
<1> QED BY <1>3, <1>4 DEF EnterGate

\* The core fetch fails: with LinkedIn's verdict, if there was one.
LEMMA TruthCoreFails ==
  ASSUME Sane, Tidy, \A r \in Requests : Truth(r), NEW p \in Requests, CoreFails(p)
  PROVE  \A r \in Requests : Truth(r)'
<1> DEFINE o == <<p, "core">>
           c == Finished(call[o])
<1>1. /\ pc[p] = "core" /\ call[o].st = "returned" /\ CoreError(p) # "none"
      /\ answer' = [answer EXCEPT ![p] = CoreError(p)]
      /\ pc' = [pc EXCEPT ![p] = "done"] /\ heard' = heard
      /\ SetCall(o, c)
  BY DEF CoreFails, Fail
<1>2. c.st = "done" /\ c.doc = call[o].doc
  BY FinishedFacts
<1> HIDE DEF c
<1>3. /\ call'[o] = c /\ "core" \in Targets
      /\ \A s \in SectionNames : call'[<<p, s>>] = call[<<p, s>>]
  BY <1>1, OneCallElsewhere, OpsFacts DEF Targets
<1>4. \A q \in Requests : q # p => Truth(q)'
  BY <1>1, <1>3, OneCallElsewhere, TruthUntouched
<1>5. pc'[p] = "done" /\ answer'[p] = CoreError(p)
  BY <1>1 DEF Sane, Phases, Tidy
<1>6. \A s \in SectionNames : call[<<p, s>>].st = "idle"
  BY <1>1 DEF Sane, Phases
<1>7. CoreError(p) = IF call[o].err # "none" THEN call[o].err ELSE ProfileError(call[o].doc)
  BY DEF CoreError
<1>8. Honest(p)'
  BY <1>2, <1>3 DEF Honest
<1>9. heard[p] # 0 => Settled(p)'
  <2> SUFFICES ASSUME heard[p] # 0 PROVE Settled(p)'
    OBVIOUS
  <2>1. call[o].err = ClassifyStatus(heard[p])
    BY <1>1 DEF Truth, Settled
  <2>2. ClassifyStatus(heard[p]) # "none"
    BY ClassifiedCodes, CodeFacts
  <2> QED BY <1>1, <1>2, <1>3, <1>5, <1>6, <1>7, <2>1, <2>2 DEF Settled
<1>10. Answered(p)'
  <2>1. ASSUME call[o].err # "none"
        PROVE  /\ CoreError(p) = "upstream_auth_failed" => heard[p] \in {401, 403} \cup 300..399
               /\ CoreError(p) = "profile_not_found" => heard[p] = 404
    BY <1>1, <1>7, <2>1 DEF Truth, Honest
  <2>2. ASSUME call[o].err = "none"
        PROVE  /\ CoreError(p) # "upstream_auth_failed"
               /\ CoreError(p) = "profile_not_found" => call[o].doc \in CoreDocs \ {Malformed}
    <3>1. call[o].doc \in CoreDocs
      BY <1>1, <2>2 DEF Truth, Honest
    <3>2. CoreError(p) = ProfileError(call[o].doc)
      BY <1>7, <2>2
    <3>3. CASE call[o].doc = Malformed
      <4>1. ProfileError(call[o].doc) = "upstream_parse_error"
        BY <3>3 DEF ProfileError
      <4> QED BY <3>2, <4>1
    <3>4. CASE call[o].doc # Malformed
      <4>1. ProfileError(call[o].doc) \in {"profile_not_found", "none"}
        BY <3>4 DEF ProfileError
      <4> QED BY <3>1, <3>2, <3>4, <4>1
    <3> QED BY <3>3, <3>4
  <2> QED BY <1>1, <1>2, <1>3, <1>5, <2>1, <2>2 DEF Answered
<1>11. Truth(p)'
  BY <1>1, <1>8, <1>9, <1>10 DEF Truth
<1> QED BY <1>4, <1>11

\* The base profile is there: LinkedIn has given no verdict.
LEMMA TruthCoreFetched ==
  ASSUME Sane, \A r \in Requests : Truth(r), NEW p \in Requests, CoreFetched(p)
  PROVE  \A r \in Requests : Truth(r)'
<1>1. /\ pc[p] = "core" /\ call[<<p, "core">>].st = "returned" /\ CoreError(p) = "none"
      /\ heard' = heard /\ answer[p] = "none"
      /\ pc \in [Requests -> {"idle", "enter", "core", "enrich", "done"}]
  BY DEF CoreFetched, Sane, Phases, Truth, Answered
<1>2. heard[p] = 0
  <2>1. call[<<p, "core">>].err = "none"
    BY <1>1 DEF CoreError
  <2>2. ClassifyStatus(heard[p]) # "none"
    BY ClassifiedCodes, CodeFacts
  <2> QED BY <1>1, <2>1, <2>2 DEF Truth, Settled
<1>3. PICK enrich \in BOOLEAN :
           /\ pc' = [pc EXCEPT ![p] = IF enrich THEN "enrich" ELSE "done"]
           /\ answer' = [answer EXCEPT ![p] = IF enrich THEN @ ELSE "ok"]
           /\ call'[<<p, "core">>].st = "done"
           /\ \A q \in Requests : \A t \in Targets : q # p => call'[<<q, t>>] = call[<<q, t>>]
  BY CoreFetchedFacts
<1>4. \A q \in Requests : q # p => Truth(q)'
  BY <1>1, <1>3, TruthUntouched
<1>5. pc'[p] = IF enrich THEN "enrich" ELSE "done"
  BY <1>1, <1>3
<1>6. answer'[p] \in {"none", "ok"} /\ (enrich => answer'[p] = "none")
  BY <1>1, <1>3
<1>7. Truth(p)'
  BY <1>1, <1>2, <1>3, <1>5, <1>6 DEF Truth, Honest, Answered
<1> QED BY <1>4, <1>7

LEMMA TruthStep == Sane /\ Tidy /\ (\A r \in Requests : Truth(r)) /\ [Next]_vars
                     => (\A r \in Requests : Truth(r))'
<1> SUFFICES ASSUME Sane, Tidy, \A r \in Requests : Truth(r), [Next]_vars
             PROVE  \A r \in Requests : Truth(r)'
  OBVIOUS
<1>1. ASSUME UNCHANGED <<pc, call, answer, heard>> PROVE \A r \in Requests : Truth(r)'
  BY <1>1, TruthStays
<1>2. ASSUME NEW p \in Requests, NEW how, ContextEnds(p, how)
      PROVE  \A r \in Requests : Truth(r)'
  BY <1>1, <1>2 DEF ContextEnds
<1>3. ASSUME NEW p \in Requests, Enriched(p) PROVE \A r \in Requests : Truth(r)'
  <2>1. /\ pc[p] = "enrich" /\ pc' = [pc EXCEPT ![p] = "done"]
        /\ answer' = [answer EXCEPT ![p] = "ok"] /\ UNCHANGED <<call, heard>>
        /\ pc \in [Requests -> {"idle", "enter", "core", "enrich", "done"}]
    BY <1>3 DEF Enriched, Sane, Phases
  <2>2. heard[p] = 0 /\ answer[p] = "none" /\ call[<<p, "core">>].st # "returned"
    BY <2>1 DEF Truth, Settled, Answered, Sane, Phases
  <2>3. \A q \in Requests : q # p => Truth(q)'
    BY <2>1, TruthUntouched
  <2>4. pc'[p] = "done" /\ answer'[p] \in {"none", "ok"}
    BY <2>1, <2>2
  <2>5. Truth(p)'
    BY <2>1, <2>2, <2>4 DEF Truth, Honest, Answered
  <2> QED BY <2>3, <2>5
<1>4. CASE UNCHANGED vars
  BY <1>1, <1>4 DEF vars
<1> QED BY <1>2, <1>3, <1>4, TruthCall, TruthSection, TruthEnter, TruthCoreFails,
           TruthCoreFetched DEF Next, CoreReturns

LEMMA TruthInit == Init => \A r \in Requests : Truth(r)
<1> SUFFICES ASSUME Init, NEW r \in Requests PROVE Truth(r)
  OBVIOUS
<1>1. call[<<r, "core">>] = NoCall(NoDocument) /\ heard[r] = 0 /\ answer[r] = "none"
  BY OpsFacts DEF Init
<1>2. call[<<r, "core">>].st = "idle"
  BY <1>1 DEF NoCall
<1> QED BY <1>1, <1>2 DEF Truth, Honest, Answered

\* What LinkedIn has said of the session or the profile is final, and only LinkedIn
\* says it (linkedin/errors.go:43-48): after it nothing more is sent for the request,
\* which is answered with it; and no deadline, no departed client and no connection
\* error is ever reported as a rejected session or a missing profile.
THEOREM VerdictsAlwaysFinal == Spec => []VerdictsFinal
<1>1. Init => \A r \in Requests : Truth(r)
  BY TruthInit
<1>2. (\A r \in Requests : Truth(r)) => VerdictsFinal
  <2> SUFFICES ASSUME \A q \in Requests : Truth(q), NEW r \in Requests
               PROVE  /\ heard[r] # 0 =>
                           /\ \A t \in Targets :
                                call[<<r, t>>].st \notin {"sent", "unsent", "backoff"}
                           /\ pc[r] = "done" => answer[r] = ClassifyStatus(heard[r])
                      /\ answer[r] = "upstream_auth_failed" => heard[r] \in {401, 403} \cup 300..399
                      /\ answer[r] = "profile_not_found" =>
                           heard[r] = 404 \/ call[<<r, "core">>].doc \in CoreDocs \ {Malformed}
    BY DEF VerdictsFinal
  <2>1. Truth(r)
    OBVIOUS
  <2>2. ASSUME heard[r] # 0, NEW t \in Targets
        PROVE  call[<<r, t>>].st \notin {"sent", "unsent", "backoff"}
    BY <2>1, <2>2, OpsFacts DEF Truth, Settled
  <2>3. heard[r] # 0 /\ pc[r] = "done" => answer[r] = ClassifyStatus(heard[r])
    BY <2>1 DEF Truth, Settled
  <2> QED BY <2>1, <2>2, <2>3 DEF Truth, Answered
<1> DEFINE Truths == \A r \in Requests : Truth(r)
<1>3. Sane /\ Tidy /\ Truths /\ [Next]_vars => Truths'
  BY TruthStep
<1> HIDE DEF Truths
<1>4. Init => Truths
  BY <1>1 DEF Truths
<1>5. Truths => VerdictsFinal
  BY <1>2 DEF Truths
<1> QED BY <1>3, <1>4, <1>5, BalancedAlways, TidyAlways, PTL DEF Spec

------------------------------------------------------------------------------
(* The sections' statuses and entries.                                      *)

\* A base document that could be read, and whether there are sections to ask for
\* after it.
Read(doc) == doc \in CoreDocs /\ ProfileError(doc) = "none"
Enriches(doc, wanted) == ProfileURN(doc) # "" /\ wanted # {}

CoreDoc(r) == call[<<r, "core">>].doc

\* A call has a document only once one has arrived, and then one that was asked for.
Carries(o, c) ==
  /\ c.st \notin {"returned", "released", "done"} => c.doc = NoDocument
  /\ c.st = "returned" =>
       IF c.err = "none" THEN c.doc \in (IF o[2] = "core" THEN CoreDocs ELSE SectionDocs)
       ELSE c.doc = NoDocument
  /\ c.st = "released" => c.doc \in SectionDocs

Carrying == \A o \in Ops : Carries(o, call[o])

\* A section's status and entries are those of its document, if it got one.
Says(r, s) ==
  LET doc == call[<<r, s>>].doc
  IN IF doc = NoDocument
     THEN sections[r][s] = "unavailable" /\ profile[r][ProfileField(s)] = <<>>
     ELSE /\ doc \in SectionDocs
          /\ sections[r][s] = SectionStatus(s, doc)
          /\ profile[r][ProfileField(s)] = SectionEntries(s, doc)

\* The profile so far: the base, but for the sections that are over.
Filled(r) ==
  LET base == Assembled[r][CoreDoc(r)]
  IN /\ DOMAIN profile[r] = DOMAIN base
     /\ \A f \in DOMAIN base \ {ProfileField(s) : s \in DOMAIN sections[r]} :
          profile[r][f] = base[f]
     /\ \A s \in DOMAIN sections[r] : Says(r, s)

\* What a request has come to with the base document it got.
Concluded(r) ==
  IF ProfileError(CoreDoc(r)) # "none" THEN answer[r] = ProfileError(CoreDoc(r))
  ELSE /\ answer[r] = "ok"
       /\ Enriches(CoreDoc(r), Wanted) => Wanted \subseteq DOMAIN sections[r]

Pages(r) ==
  /\ DOMAIN sections[r] \subseteq SectionNames
  /\ \A s \in SectionNames :
       /\ s \in DOMAIN sections[r] <=> call[<<r, s>>].st = "done"
       /\ call[<<r, s>>].st # "idle" => Enriches(CoreDoc(r), Wanted)
       /\ pc[r] = "done" => call[<<r, s>>].st \in {"idle", "done"}
  /\ pc[r] = "enrich" => Read(CoreDoc(r)) /\ Enriches(CoreDoc(r), Wanted)
  /\ pc[r] \in {"enrich", "done"} /\ Read(CoreDoc(r)) => Filled(r)
  /\ pc[r] = "done" /\ CoreDoc(r) \in CoreDocs => Concluded(r)

Paged == DOMAIN profile = Requests /\ Carrying /\ \A r \in Requests : Pages(r)

\* The fields are filled by different sections.
LEMMA FieldsDiffer ==
  \A s, t \in SectionNames : ProfileField(s) = ProfileField(t) => s = t
BY DEF ProfileField, SectionNames

\* A base profile has an empty field for every section.
LEMMA BaseFacts ==
  ASSUME NEW r \in Requests, NEW doc, Read(doc), NEW s \in SectionNames
  PROVE  ProfileField(s) \in DOMAIN Assembled[r][doc] /\ Assembled[r][doc][ProfileField(s)] = <<>>
<1> DEFINE base == BaseOf(Head(doc.elements), r)
           f == ProfileField(s)
<1>1. Assembled[r][doc] = ParseProfile(doc, r)
  BY DEF Assembled, Read
<1>2. ParseProfile(doc, r) =
        [g \in DOMAIN base \cup DOMAIN NoSections |->
           IF g \in DOMAIN NoSections THEN NoSections[g] ELSE base[g]]
  BY DEF ParseProfile, ProfileOf
<1> HIDE DEF base
<1>3. f \in DOMAIN NoSections /\ NoSections[f] = <<>>
  BY DEF NoSections
<1> HIDE DEF f
<1>4. f \in DOMAIN ParseProfile(doc, r) /\ ParseProfile(doc, r)[f] = <<>>
  BY <1>2, <1>3
<1> QED BY <1>1, <1>4 DEF f

\* A failed attempt leaves the call with the document it had.
LEMMA FailedKeeps ==
  ASSUME NEW c \in Calls, NEW retries, NEW err, NEW retry
  PROVE  Failed(c, retries, err, retry).doc = c.doc
<1>1. CASE c.attempt >= retries \/ ~retry
  BY <1>1, ReturnedFacts DEF Failed
<1>2. CASE ~(c.attempt >= retries \/ ~retry)
  BY <1>2 DEF Failed, Calls
<1> QED BY <1>1, <1>2

\* Whatever a call returns with, it has a document only when one arrived.
LEMMA CallCarries ==
  ASSUME Sane, Carrying, NEW o \in Ops, CallReturns(o)
  PROVE  Carries(o, call'[o])
<1>1. /\ CallsInTime /\ Counted /\ call[o] \in Calls /\ config.maxRetries \in Nat
      /\ Carries(o, call[o]) /\ "none" \notin Codes /\ Passing \subseteq Codes
  BY MaxRetriesNat, CodeFacts DEF Sane, CallsInTime, Carrying
<1>2. \A c : SetCall(o, c) => call'[o] = c
  BY <1>1, SetCallFacts
<1>3. ASSUME NEW err \in Codes, NEW retry \in BOOLEAN, AttemptFails(o, err, retry),
             call[o].st \in {"sent", "unsent"}
      PROVE  Carries(o, call'[o])
  <2> DEFINE c == Failed(call[o], config.maxRetries, err, retry)
  <2>1. call'[o] = c
    BY <1>2, <1>3 DEF AttemptFails
  <2>2. c.st \in {"backoff", "returned"} /\ c.err = err
    BY <1>1, <1>3, FailedFacts
  <2>3. c.doc = NoDocument
    BY <1>1, <1>3, FailedKeeps DEF Carries
  <2> HIDE DEF c
  <2> QED BY <1>1, <1>3, <2>1, <2>2, <2>3 DEF Carries
<1>4. ASSUME NEW status \in Statuses, StatusArrives(o, status) PROVE Carries(o, call'[o])
  <2>1. ClassifyStatus(status) \in Codes /\ RetryableStatus(status) \in BOOLEAN
    BY ClassifiedCodes DEF RetryableStatus
  <2> QED BY <1>3, <1>4, <2>1 DEF StatusArrives
<1>5. ASSUME NEW error, TransportFails(o, error) PROVE Carries(o, call'[o])
  <2> DEFINE retry == RetryableCode(ClassifyTransport(error)) /\ Live(o)
  <2>1. ClassifyTransport(error) \in Codes /\ retry \in BOOLEAN
    BY ClassifiedCodes
  <2>2. AttemptFails(o, ClassifyTransport(error), retry) /\ call[o].st \in {"sent", "unsent"}
    BY <1>5 DEF TransportFails
  <2> HIDE DEF retry
  <2> QED BY <1>3, <2>1, <2>2
<1>6. ASSUME NEW err, NEW doc, SetCall(o, Returned(err, doc)),
             IF err = "none" THEN doc \in (IF o[2] = "core" THEN CoreDocs ELSE SectionDocs)
             ELSE doc = NoDocument
      PROVE  Carries(o, call'[o])
  <2>1. /\ call'[o].st = "returned" /\ call'[o].err = err /\ call'[o].doc = doc
    BY <1>2, <1>6, ReturnedFacts
  <2> QED BY <1>6, <2>1 DEF Carries
<1>7. ASSUME NEW doc, BodyArrives(o, doc) PROVE Carries(o, call'[o])
  BY <1>6, <1>7 DEF BodyArrives
<1>8. ASSUME BodyUnreadable(o) PROVE Carries(o, call'[o])
  BY <1>6, <1>8 DEF BodyUnreadable
<1>9. ASSUME BackoffCut(o) PROVE Carries(o, call'[o])
  <2>1. call[o].err \in Passing /\ call[o].err # "none"
    BY <1>1, <1>9 DEF Counted, BackoffCut
  <2> QED BY <1>6, <1>9, <2>1 DEF BackoffCut
<1>10. ASSUME NEW jitter, BackoffElapses(o, jitter) PROVE Carries(o, call'[o])
  <2> DEFINE c == Attempt(BackedOff(call[o], jitter), TRUE)
  <2>1. call'[o] = c /\ call[o].st = "backoff"
    BY <1>2, <1>10 DEF BackoffElapses, TimerFirst
  <2>2. c.st = "sent" /\ c.doc = call[o].doc
    BY <1>1 DEF Attempt, BackedOff, Calls
  <2> HIDE DEF c
  <2> QED BY <1>1, <2>1, <2>2 DEF Carries
<1> QED BY <1>4, <1>5, <1>7, <1>8, <1>9, <1>10 DEF CallReturns

LEMMA CarryingIfOneCall ==
  ASSUME Sane, Carrying, NEW o \in Ops, NEW c, SetCall(o, c), Carries(o, c)
  PROVE  Carrying'
BY SetCallFacts DEF Sane, Carrying

\* A request none of whose sections ends, while its base document stays what it was.
LEMMA PagesStay ==
  ASSUME Sane, NEW r \in Requests, Pages(r), config' = config, pc'[r] = pc[r],
         answer'[r] = answer[r], profile'[r] = profile[r], sections'[r] = sections[r],
         pc[r] \in {"enrich", "done"} => CoreDoc(r)' = CoreDoc(r),
         \A s \in SectionNames :
           /\ (call'[<<r, s>>].st = "idle") <=> (call[<<r, s>>].st = "idle")
           /\ (call'[<<r, s>>].st = "done") <=> (call[<<r, s>>].st = "done")
           /\ call[<<r, s>>].st = "done" => call'[<<r, s>>].doc = call[<<r, s>>].doc
  PROVE  Pages(r)'
<1>w. Wanted' = Wanted
  BY DEF Wanted
<1>1. ASSUME NEW s \in SectionNames
      PROVE  /\ (s \in DOMAIN sections'[r]) <=> (call'[<<r, s>>].st = "done")
             /\ call'[<<r, s>>].st # "idle" => Enriches(CoreDoc(r)', Wanted')
             /\ pc'[r] = "done" => call'[<<r, s>>].st \in {"idle", "done"}
  <2>1. call'[<<r, s>>].st # "idle" => pc[r] \in {"enrich", "done"}
    BY DEF Sane, Phases
  <2> QED BY <1>w, <2>1 DEF Pages
<1>2. pc'[r] = "enrich" => Read(CoreDoc(r)') /\ Enriches(CoreDoc(r)', Wanted')
  BY <1>w DEF Pages
<1>3. pc'[r] \in {"enrich", "done"} /\ Read(CoreDoc(r)') => Filled(r)'
  <2> SUFFICES ASSUME pc'[r] \in {"enrich", "done"}, Read(CoreDoc(r)') PROVE Filled(r)'
    OBVIOUS
  <2>1. CoreDoc(r)' = CoreDoc(r) /\ Filled(r)
    BY DEF Pages
  <2>2. ASSUME NEW s \in DOMAIN sections[r] PROVE Says(r, s)'
    <3>1. s \in SectionNames
      BY <2>2 DEF Pages
    <3>2. call'[<<r, s>>].doc = call[<<r, s>>].doc /\ Says(r, s)
      BY <2>1, <2>2, <3>1 DEF Pages, Filled
    <3> QED BY <3>2 DEF Says
  <2> QED BY <2>1, <2>2 DEF Filled
<1>4. pc'[r] = "done" /\ CoreDoc(r)' \in CoreDocs => Concluded(r)'
  <2> SUFFICES ASSUME pc'[r] = "done", CoreDoc(r)' \in CoreDocs PROVE Concluded(r)'
    OBVIOUS
  <2>1. CoreDoc(r)' = CoreDoc(r) /\ Concluded(r)
    BY DEF Pages
  <2> QED BY <1>w, <2>1 DEF Concluded
<1>5. DOMAIN sections'[r] \subseteq SectionNames
  BY DEF Pages
<1> QED BY <1>1, <1>2, <1>3, <1>4, <1>5 DEF Pages

\* The steps of one call that neither begin nor end a section.
LEMMA PagedIfOneCall ==
  ASSUME Sane, Paged, NEW p \in Requests, NEW t \in Targets, NEW c,
         SetCall(<<p, t>>, c), Carries(<<p, t>>, c),
         UNCHANGED <<config, pc, profile, sections, answer>>,
         call[<<p, t>>].st \notin {"idle", "done"}, c.st \notin {"idle", "done"},
         t = "core" => pc[p] = "core"
  PROVE  Paged'
<1>1. Carrying' /\ DOMAIN profile' = Requests
  BY CarryingIfOneCall DEF Paged, Ops
<1>2. /\ call'[<<p, t>>] = c
      /\ \A u \in Targets : u # t => call'[<<p, u>>] = call[<<p, u>>]
      /\ \A q \in Requests : q # p => \A u \in Targets : call'[<<q, u>>] = call[<<q, u>>]
  BY OneCallElsewhere
<1>3. "core" \in Targets /\ \A s \in SectionNames : s \in Targets
  BY DEF Targets
<1>4. ASSUME NEW q \in Requests PROVE Pages(q)'
  <2>1. ASSUME NEW s \in SectionNames
        PROVE  /\ (call'[<<q, s>>].st = "idle") <=> (call[<<q, s>>].st = "idle")
               /\ (call'[<<q, s>>].st = "done") <=> (call[<<q, s>>].st = "done")
               /\ call[<<q, s>>].st = "done" => call'[<<q, s>>].doc = call[<<q, s>>].doc
    <3>1. CASE q = p /\ s = t
      BY <1>2, <3>1
    <3>2. CASE ~(q = p /\ s = t)
      <4>1. call'[<<q, s>>] = call[<<q, s>>]
        BY <1>2, <1>3, <3>2
      <4> QED BY <4>1
    <3> QED BY <3>1, <3>2
  <2>2. pc[q] \in {"enrich", "done"} => CoreDoc(q)' = CoreDoc(q)
    <3> SUFFICES ASSUME pc[q] \in {"enrich", "done"} PROVE call'[<<q, "core">>] = call[<<q, "core">>]
      BY DEF CoreDoc
    <3> QED BY <1>2, <1>3
  <2> QED BY <2>1, <2>2, PagesStay DEF Paged
<1> QED BY <1>1, <1>4 DEF Paged

LEMMA PagedCall ==
  ASSUME Sane, Paged, NEW o \in Ops, CallTimesOut(o) \/ CallReturns(o)
  PROVE  Paged'
<1>1. PICK p \in Requests, t \in Targets : o = <<p, t>>
  BY OpsFacts
<1>2. call[o] \in Calls /\ Carries(o, call[o])
  BY DEF Sane, CallsInTime, Paged, Carrying
<1>3. ASSUME call[o].st \in {"sent", "unsent", "backoff"}, t = "core" PROVE pc[p] = "core"
  BY <1>1, <1>3 DEF Sane, Phases
<1>4. CASE CallTimesOut(o)
  <2> DEFINE c == [call[o] EXCEPT !.timedOut = TRUE]
  <2>1. /\ SetCall(o, c) /\ UNCHANGED <<config, pc, profile, sections, answer>>
        /\ call[o].st \in {"sent", "unsent", "backoff"}
    BY <1>4 DEF CallTimesOut
  <2>2. c.st = call[o].st /\ c.err = call[o].err /\ c.doc = call[o].doc
    BY <1>2, RelabelFacts
  <2> HIDE DEF c
  <2>3. Carries(o, c)
    BY <1>2, <2>2 DEF Carries
  <2> QED BY <1>1, <1>3, <2>1, <2>2, <2>3, PagedIfOneCall
<1>5. CASE CallReturns(o)
  <2>1. PICK c \in Calls : CallMoves(o, c)
    BY <1>5, CallReturnsMoves DEF Moves
  <2>2. call'[o] = c
    BY <2>1, SetCallFacts DEF CallMoves, Sane
  <2>3. Carries(o, c)
    BY <1>5, <2>2, CallCarries DEF Paged
  <2>4. /\ SetCall(o, c) /\ UNCHANGED <<config, pc, profile, sections, answer>>
        /\ call[o].st \in {"sent", "unsent", "backoff"} /\ c.st \in GatePoints
    BY <2>1 DEF CallMoves, callOnly
  <2> QED BY <1>1, <1>3, <2>3, <2>4, PagedIfOneCall DEF GatePoints
<1> QED BY <1>4, <1>5

\* A section is over: its status is recorded, and its field filled if it has a document.
LEMMA FilledSection ==
  ASSUME Sane, NEW p \in Requests, Pages(p), NEW s \in SectionNames, NEW doc, NEW status,
         pc[p] \in {"enrich", "done"}, Read(CoreDoc(p)), CoreDoc(p)' = CoreDoc(p),
         call[<<p, s>>].st # "done", call'[<<p, s>>].doc = doc,
         \A t \in SectionNames : t # s => call'[<<p, t>>] = call[<<p, t>>],
         DOMAIN sections'[p] = DOMAIN sections[p] \cup {s}, sections'[p][s] = status,
         \A t \in DOMAIN sections[p] : t # s => sections'[p][t] = sections[p][t],
         DOMAIN profile'[p] = DOMAIN profile[p],
         \A f \in DOMAIN profile[p] : f # ProfileField(s) => profile'[p][f] = profile[p][f],
         IF doc = NoDocument THEN status = "unavailable" /\ profile'[p] = profile[p]
         ELSE /\ doc \in SectionDocs /\ status = SectionStatus(s, doc)
              /\ profile'[p][ProfileField(s)] = SectionEntries(s, doc)
  PROVE  Filled(p)'
<1>1. Filled(p) /\ s \notin DOMAIN sections[p] /\ DOMAIN sections[p] \subseteq SectionNames
  BY DEF Pages
<1> DEFINE base == Assembled[p][CoreDoc(p)]
<1>2. ProfileField(s) \in DOMAIN base /\ base[ProfileField(s)] = <<>>
  BY BaseFacts
<1>3. Assembled[p][CoreDoc(p)'] = base
  OBVIOUS
<1>4. /\ DOMAIN profile[p] = DOMAIN base
      /\ \A f \in DOMAIN base \ {ProfileField(t) : t \in DOMAIN sections[p]} :
           profile[p][f] = base[f]
      /\ \A t \in DOMAIN sections[p] : Says(p, t)
  BY <1>1 DEF Filled
<1> HIDE DEF base
<1>5. \A t \in DOMAIN sections[p] : ProfileField(t) # ProfileField(s)
  BY <1>1, FieldsDiffer
<1>6. \A f \in DOMAIN base \ {ProfileField(t) : t \in DOMAIN sections'[p]} :
        profile'[p][f] = base[f]
  <2> SUFFICES ASSUME NEW f \in DOMAIN base,
                      f \notin {ProfileField(t) : t \in DOMAIN sections'[p]}
               PROVE  profile'[p][f] = base[f]
    OBVIOUS
  <2>1. f # ProfileField(s) /\ f \notin {ProfileField(t) : t \in DOMAIN sections[p]}
    OBVIOUS
  <2> QED BY <1>4, <2>1
<1>7. ASSUME NEW t \in DOMAIN sections'[p] PROVE Says(p, t)'
  <2>1. CASE t = s
    <3>1. CASE doc = NoDocument
      <4>1. profile[p][ProfileField(s)] = <<>>
        BY <1>2, <1>4, <1>5
      <4> QED BY <2>1, <3>1, <4>1 DEF Says
    <3>2. CASE doc # NoDocument
      BY <2>1, <3>2 DEF Says
    <3> QED BY <3>1, <3>2
  <2>2. CASE t # s
    <3>1. t \in DOMAIN sections[p] /\ t \in SectionNames
      BY <1>1, <1>7, <2>2
    <3>2. /\ call'[<<p, t>>] = call[<<p, t>>] /\ sections'[p][t] = sections[p][t]
          /\ Says(p, t)
      BY <1>4, <2>2, <3>1
    <3>3. profile'[p][ProfileField(t)] = profile[p][ProfileField(t)]
      <4>1. ProfileField(t) # ProfileField(s)
        BY <1>5, <3>1
      <4>2. ProfileField(t) \in DOMAIN profile[p]
        BY <1>4, <3>1, BaseFacts DEF base
      <4> QED BY <4>1, <4>2
    <3> QED BY <3>2, <3>3 DEF Says
  <2> QED BY <2>1, <2>2
<1> QED BY <1>3, <1>4, <1>6, <1>7 DEF Filled

LEMMA PagedIfSectionDone ==
  ASSUME Sane, Tidy, Paged, NEW p \in Requests, NEW s \in SectionNames, NEW status,
         SectionDone(p, s, status), UNCHANGED <<config, pc, answer>>,
         call[<<p, s>>].st \notin {"idle", "done"},
         DOMAIN profile' = DOMAIN profile,
         \A q \in Requests : q # p => profile'[q] = profile[q],
         DOMAIN profile'[p] = DOMAIN profile[p],
         \A f \in DOMAIN profile[p] : f # ProfileField(s) => profile'[p][f] = profile[p][f],
         LET doc == call[<<p, s>>].doc
         IN IF doc = NoDocument THEN status = "unavailable" /\ profile'[p] = profile[p]
            ELSE /\ doc \in SectionDocs /\ status = SectionStatus(s, doc)
                 /\ ProfileField(s) \in DOMAIN profile[p] =>
                      profile'[p][ProfileField(s)] = SectionEntries(s, doc)
  PROVE  Paged'
<1> DEFINE o == <<p, s>>
           c == Finished(call[o])
<1>1. /\ SetCall(o, c)
      /\ sections' = [sections EXCEPT ![p] =
           [t \in DOMAIN sections[p] \cup {s} |-> IF t = s THEN status ELSE sections[p][t]]]
  BY DEF SectionDone
<1>2. c.st = "done" /\ c.doc = call[o].doc
  BY FinishedFacts
<1> HIDE DEF c
<1>3. Carries(o, c) /\ o \in Ops
  BY <1>2, OpsFacts DEF Carries
<1>4. Carrying' /\ DOMAIN profile' = Requests
  BY <1>1, <1>3, CarryingIfOneCall DEF Paged
<1>5. "core" \in Targets /\ s # "core" /\ \A t \in SectionNames : t \in Targets
  BY OpsFacts DEF Targets
<1>6. /\ call'[o] = c
      /\ \A t \in SectionNames : t # s => call'[<<p, t>>] = call[<<p, t>>]
      /\ call'[<<p, "core">>] = call[<<p, "core">>]
      /\ \A q \in Requests : q # p => \A u \in Targets : call'[<<q, u>>] = call[<<q, u>>]
  BY <1>1, <1>5, OneCallElsewhere
<1>7. CoreDoc(p)' = CoreDoc(p) /\ Wanted' = Wanted
  BY <1>6 DEF CoreDoc, Wanted
<1>8. Pages(p) /\ pc[p] = "enrich" /\ pc'[p] = "enrich"
  BY DEF Paged, Pages, Sane, Phases
<1>9. Read(CoreDoc(p)) /\ Enriches(CoreDoc(p), Wanted) /\ Filled(p)
  BY <1>8 DEF Pages
<1>10. /\ DOMAIN sections'[p] = DOMAIN sections[p] \cup {s}
       /\ sections'[p][s] = status
       /\ \A t \in DOMAIN sections[p] : t # s => sections'[p][t] = sections[p][t]
  <2>1. sections'[p] =
          [t \in DOMAIN sections[p] \cup {s} |-> IF t = s THEN status ELSE sections[p][t]]
    BY <1>1 DEF Tidy
  <2> QED BY <2>1
<1>11. ProfileField(s) \in DOMAIN profile[p]
  BY <1>9, BaseFacts DEF Filled
<1>12. Filled(p)'
  BY <1>2, <1>6, <1>7, <1>8, <1>9, <1>10, <1>11, FilledSection
<1>13. Pages(p)'
  <2>1. ASSUME NEW t \in SectionNames
        PROVE  (t \in DOMAIN sections'[p]) <=> (call'[<<p, t>>].st = "done")
    <3>1. (t \in DOMAIN sections[p]) <=> (call[<<p, t>>].st = "done")
      BY <1>8 DEF Pages
    <3> QED BY <1>2, <1>6, <1>10, <3>1
  <2>2. DOMAIN sections'[p] \subseteq SectionNames
    BY <1>8, <1>10 DEF Pages
  <2>3. pc'[p] # "done"
    BY <1>8
  <2> QED BY <1>7, <1>8, <1>9, <1>12, <2>1, <2>2, <2>3 DEF Pages
<1>14. ASSUME NEW q \in Requests, q # p PROVE Pages(q)'
  <2>1. sections'[q] = sections[q] /\ profile'[q] = profile[q]
    BY <1>1, <1>14 DEF Tidy
  <2>2. \A u \in Targets : call'[<<q, u>>] = call[<<q, u>>]
    BY <1>6, <1>14
  <2>3. CoreDoc(q)' = CoreDoc(q) /\ \A t \in SectionNames : call'[<<q, t>>] = call[<<q, t>>]
    BY <1>5, <2>2 DEF CoreDoc
  <2> QED BY <2>1, <2>3, PagesStay DEF Paged
<1> QED BY <1>4, <1>13, <1>14 DEF Paged

LEMMA PagedSection ==
  ASSUME Sane, Tidy, Paged, NEW p \in Requests, NEW s \in SectionNames, SectionSteps(p, s)
  PROVE  Paged'
<1> DEFINE o == <<p, s>>
<1>1. o \in Ops /\ call[o] \in Calls /\ Carries(o, call[o]) /\ o[2] = s /\ s # "core"
  BY OpsFacts DEF Sane, CallsInTime, Paged, Carrying
<1>2. ASSUME NEW c, SetCall(o, c), c.doc = call[o].doc,
             UNCHANGED <<config, pc, profile, sections, answer>>,
             \/ call[o].st \in {"semaphore", "gate"} /\ c.st \in {"gate", "sent", "unsent"}
             \/ call[o].st = "returned" /\ call[o].err = "none" /\ c.st = "released"
      PROVE  Paged'
  <2>1. Carries(o, c)
    BY <1>1, <1>2 DEF Carries
  <2>2. s \in Targets
    BY DEF Targets
  <2> QED BY <1>1, <1>2, <2>1, <2>2, PagedIfOneCall
<1>3. CASE SemaphoreTaken(p, s)
  <2> DEFINE c == [call[o] EXCEPT !.st = "gate"]
  <2>1. c.st = "gate" /\ c.doc = call[o].doc
    BY <1>1, RelabelFacts
  <2>2. /\ SetCall(o, c) /\ UNCHANGED <<config, pc, profile, sections, answer>>
        /\ call[o].st = "semaphore"
    BY <1>3 DEF SemaphoreTaken
  <2> HIDE DEF c
  <2> QED BY <1>2, <2>1, <2>2
<1>4. CASE SectionAdmitted(p, s)
  <2> DEFINE c == Attempt(call[o], Live(o))
  <2>1. c.st \in {"sent", "unsent"} /\ c.doc = call[o].doc
    BY <1>1, RelabelFacts
  <2>2. /\ SetCall(o, c) /\ UNCHANGED <<config, pc, profile, sections, answer>>
        /\ call[o].st = "gate"
    BY <1>4 DEF SectionAdmitted
  <2> HIDE DEF c
  <2> QED BY <1>2, <2>1, <2>2
<1>5. CASE SectionFetched(p, s)
  <2> DEFINE c == [call[o] EXCEPT !.st = "released"]
  <2>1. c.st = "released" /\ c.doc = call[o].doc
    BY <1>1, RelabelFacts
  <2>2. /\ SetCall(o, c) /\ UNCHANGED <<config, pc, profile, sections, answer>>
        /\ call[o].st = "returned" /\ call[o].err = "none"
    BY <1>5 DEF SectionFetched
  <2> HIDE DEF c
  <2> QED BY <1>2, <2>1, <2>2
<1>6. CASE SectionAbandoned(p, s) \/ SectionRefused(p, s) \/ SectionFails(p, s)
  <2>1. /\ SectionDone(p, s, "unavailable") /\ UNCHANGED <<config, pc, answer, profile>>
        /\ \/ call[o].st \in {"semaphore", "gate"}
           \/ call[o].st = "returned" /\ call[o].err # "none"
    BY <1>6 DEF SectionAbandoned, SectionRefused, SectionFails
  <2>2. call[o].doc = NoDocument /\ call[o].st \notin {"idle", "done"}
    BY <1>1, <2>1 DEF Carries
  <2> QED BY <2>1, <2>2, PagedIfSectionDone
<1>7. CASE SectionApplied(p, s)
  <2> DEFINE doc == call[o].doc
             entries == ApplySection[s][doc].entries
             status == ApplySection[s][doc].status
  <2>1. /\ call[o].st = "released"
        /\ profile' = [profile EXCEPT ![p][ProfileField(s)] = entries]
        /\ SectionDone(p, s, status)
        /\ UNCHANGED <<config, ctx, pc, answer, slots, heard>>
    BY <1>7, Zenon DEF SectionApplied
  <2>2. UNCHANGED <<config, pc, answer>>
    BY <2>1
  <2>3. doc \in SectionDocs /\ doc # NoDocument
    BY <1>1, <2>1, RetrievalAssumption DEF Carries
  <2>4. entries = SectionEntries(s, doc) /\ status = SectionStatus(s, doc)
    BY <2>3 DEF ApplySection
  <2> HIDE DEF entries, status, doc
  <2>5. /\ DOMAIN profile' = DOMAIN profile
        /\ \A q \in Requests : q # p => profile'[q] = profile[q]
        /\ DOMAIN profile'[p] = DOMAIN profile[p]
        /\ \A f \in DOMAIN profile[p] : f # ProfileField(s) => profile'[p][f] = profile[p][f]
        /\ ProfileField(s) \in DOMAIN profile[p] => profile'[p][ProfileField(s)] = entries
    BY <2>1 DEF Paged
  <2>6. call[o].st \notin {"idle", "done"}
    BY <2>1
  <2> QED BY <2>1, <2>2, <2>3, <2>4, <2>5, <2>6, PagedIfSectionDone DEF doc
<1> QED BY <1>3, <1>4, <1>5, <1>6, <1>7 DEF SectionSteps

\* The steps of a request itself leave the other requests alone.
LEMMA PagedIfOneRequest ==
  ASSUME Sane, Paged, NEW p \in Requests, config' = config, Carrying',
         DOMAIN profile' = Requests, Pages(p)',
         \A q \in Requests : q # p =>
           /\ pc'[q] = pc[q] /\ answer'[q] = answer[q]
           /\ profile'[q] = profile[q] /\ sections'[q] = sections[q]
           /\ \A u \in Targets : call'[<<q, u>>] = call[<<q, u>>]
  PROVE  Paged'
<1>1. ASSUME NEW q \in Requests, q # p PROVE Pages(q)'
  <2>1. \A u \in Targets : call'[<<q, u>>] = call[<<q, u>>]
    BY <1>1
  <2>2. CoreDoc(q)' = CoreDoc(q) /\ \A s \in SectionNames : call'[<<q, s>>] = call[<<q, s>>]
    BY <2>1 DEF CoreDoc, Targets
  <2> QED BY <1>1, <2>2, PagesStay DEF Paged
<1> QED BY <1>1 DEF Paged

\* Before the sections there are none.
LEMMA NoSectionsYet ==
  ASSUME Sane, Paged, NEW p \in Requests, pc[p] \in {"idle", "enter", "core"}
  PROVE  /\ \A s \in SectionNames : call[<<p, s>>].st = "idle"
         /\ DOMAIN sections[p] = {}
<1>1. \A s \in SectionNames : call[<<p, s>>].st = "idle"
  BY DEF Sane, Phases
<1>2. Pages(p)
  BY DEF Paged
<1> QED BY <1>1, <1>2 DEF Pages

LEMMA PagedEnter ==
  ASSUME Sane, Tidy, Paged, NEW p \in Requests, EnterGate(p)
  PROVE  Paged'
<1> DEFINE o == <<p, "core">>
<1>1. /\ pc[p] = "enter" /\ UNCHANGED <<config, profile, sections>>
      /\ call[o].st = "idle" /\ call[o] \in Calls /\ o \in Ops /\ Carries(o, call[o])
      /\ pc \in [Requests -> {"idle", "enter", "core", "enrich", "done"}]
  BY OpsFacts DEF EnterGate, EnterRefused, EnterAdmitted, Sane, Phases, CallsInTime, Paged, Carrying
<1>2. /\ \A s \in SectionNames : call[<<p, s>>].st = "idle"
      /\ DOMAIN sections[p] = {}
  BY <1>1, NoSectionsYet
<1>3. call[o].doc = NoDocument
  BY <1>1 DEF Carries
<1>4. "core" \in Targets /\ \A s \in SectionNames : s \in Targets /\ s # "core"
  BY OpsFacts DEF Targets
<1>5. CASE EnterAdmitted(p)
  <2> DEFINE c == Attempt(call[o], Live(o))
  <2>1. SetCall(o, c) /\ pc' = [pc EXCEPT ![p] = "core"] /\ answer' = answer
    BY <1>5 DEF EnterAdmitted
  <2>2. c.st \in {"sent", "unsent"} /\ c.doc = NoDocument
    BY <1>1, <1>3, RelabelFacts
  <2> HIDE DEF c
  <2>3. Carrying'
    BY <1>1, <2>1, <2>2, CarryingIfOneCall DEF Carries, Paged
  <2>4. /\ \A s \in SectionNames : call'[<<p, s>>] = call[<<p, s>>]
        /\ \A q \in Requests : q # p => \A u \in Targets : call'[<<q, u>>] = call[<<q, u>>]
    BY <1>4, <2>1, OneCallElsewhere
  <2>5. pc'[p] = "core" /\ \A q \in Requests : q # p => pc'[q] = pc[q]
    BY <1>1, <2>1
  <2>6. Pages(p)'
    BY <1>1, <1>2, <2>4, <2>5 DEF Pages
  <2> QED BY <1>1, <2>1, <2>3, <2>4, <2>5, <2>6, PagedIfOneRequest DEF Paged
<1>6. ASSUME NEW code, EnterRefused(p, code) PROVE Paged'
  <2>1. /\ answer' = [answer EXCEPT ![p] = code] /\ pc' = [pc EXCEPT ![p] = "done"]
        /\ call' = call
    BY <1>6 DEF EnterRefused, Fail
  <2>2. CoreDoc(p)' \notin CoreDocs
    BY <1>3, <2>1, RetrievalAssumption DEF CoreDoc
  <2>3. \A q \in Requests : q # p => pc'[q] = pc[q] /\ answer'[q] = answer[q]
    BY <1>1, <2>1 DEF Tidy
  <2>4. pc'[p] = "done"
    BY <1>1, <2>1
  <2>5. Pages(p)'
    BY <1>1, <1>2, <2>1, <2>2, <2>4 DEF Pages, Read
  <2>6. Carrying'
    BY <2>1 DEF Paged, Carrying
  <2> QED BY <1>1, <2>1, <2>3, <2>5, <2>6, PagedIfOneRequest DEF Paged
<1> QED BY <1>5, <1>6 DEF EnterGate

LEMMA PagedCoreFails ==
  ASSUME Sane, Tidy, Paged, NEW p \in Requests, CoreFails(p)
  PROVE  Paged'
<1> DEFINE o == <<p, "core">>
           c == Finished(call[o])
<1>1. /\ pc[p] = "core" /\ call[o].st = "returned" /\ CoreError(p) # "none"
      /\ answer' = [answer EXCEPT ![p] = CoreError(p)]
      /\ pc' = [pc EXCEPT ![p] = "done"] /\ UNCHANGED <<config, profile, sections>>
      /\ SetCall(o, c)
      /\ pc \in [Requests -> {"idle", "enter", "core", "enrich", "done"}]
      /\ o \in Ops /\ Carries(o, call[o])
  BY OpsFacts DEF CoreFails, Fail, Sane, Phases, Paged, Carrying
<1>2. c.st = "done" /\ c.doc = call[o].doc
  BY FinishedFacts
<1> HIDE DEF c
<1>3. Carrying'
  BY <1>1, <1>2, CarryingIfOneCall DEF Carries, Paged
<1>4. /\ call'[o] = c
      /\ \A s \in SectionNames : call'[<<p, s>>] = call[<<p, s>>]
      /\ \A q \in Requests : q # p => \A u \in Targets : call'[<<q, u>>] = call[<<q, u>>]
  BY <1>1, OneCallElsewhere, OpsFacts DEF Targets
<1>5. /\ pc'[p] = "done" /\ answer'[p] = CoreError(p)
      /\ \A q \in Requests : q # p => pc'[q] = pc[q] /\ answer'[q] = answer[q]
  BY <1>1 DEF Tidy
<1>6. /\ \A s \in SectionNames : call'[<<p, s>>].st = "idle"
      /\ DOMAIN sections'[p] = {}
  BY <1>1, <1>4, NoSectionsYet
<1>7. CoreDoc(p)' = call[o].doc
  BY <1>2, <1>4 DEF CoreDoc
<1>8. ASSUME call[o].doc \in CoreDocs
      PROVE  CoreError(p) = ProfileError(call[o].doc)
  BY <1>1, <1>8, RetrievalAssumption DEF Carries, CoreError
<1>9. (~Read(CoreDoc(p)))' /\ (CoreDoc(p) \in CoreDocs => Concluded(p))'
  BY <1>1, <1>5, <1>7, <1>8 DEF Read, Concluded
<1>10. Pages(p)'
  BY <1>5, <1>6, <1>9 DEF Pages
<1> QED BY <1>1, <1>3, <1>4, <1>5, <1>10, PagedIfOneRequest DEF Paged

LEMMA PagedCoreFetched ==
  ASSUME Sane, Tidy, Paged, NEW p \in Requests, CoreFetched(p)
  PROVE  Paged'
<1> DEFINE o == <<p, "core">>
<1>1. /\ pc[p] = "core" /\ call[o].st = "returned" /\ CoreError(p) = "none"
      /\ UNCHANGED <<config, sections>>
      /\ profile' = [profile EXCEPT ![p] = Assembled[p][CoreDoc(p)]]
      /\ pc \in [Requests -> {"idle", "enter", "core", "enrich", "done"}]
      /\ o \in Ops /\ Carries(o, call[o])
  BY OpsFacts DEF CoreFetched, Sane, Phases, Paged, Carrying, CoreDoc
<1>2. /\ pc' = [pc EXCEPT ![p] = IF Enriches(CoreDoc(p), Wanted) THEN "enrich" ELSE "done"]
      /\ answer' = [answer EXCEPT ![p] = IF Enriches(CoreDoc(p), Wanted) THEN @ ELSE "ok"]
  BY Zenon DEF CoreFetched, Enriches, CoreDoc
<1>3. PICK enrich \in BOOLEAN :
           /\ pc' = [pc EXCEPT ![p] = IF enrich THEN "enrich" ELSE "done"]
           /\ call'[o].st = "done" /\ call'[o].doc = call[o].doc
           /\ \A q \in Requests : \A t \in Targets : q # p => call'[<<q, t>>] = call[<<q, t>>]
           /\ \A s \in SectionNames :
                IF enrich /\ s \in Wanted
                THEN /\ call'[<<p, s>>].st = "semaphore"
                     /\ call'[<<p, s>>].doc = call[<<p, s>>].doc
                ELSE call'[<<p, s>>] = call[<<p, s>>]
  BY CoreFetchedFacts
<1>4. enrich = Enriches(CoreDoc(p), Wanted)
  <2>1. Enriches(CoreDoc(p), Wanted) \in BOOLEAN
    BY DEF Enriches
  <2>2. pc'[p] = (IF enrich THEN "enrich" ELSE "done")
    BY <1>1, <1>3
  <2>3. pc'[p] = (IF Enriches(CoreDoc(p), Wanted) THEN "enrich" ELSE "done")
    BY <1>1, <1>2
  <2>4. enrich <=> Enriches(CoreDoc(p), Wanted)
    BY <2>2, <2>3
  <2> QED BY <2>1, <2>4
<1>5. /\ \A s \in SectionNames : call[<<p, s>>].st = "idle"
      /\ DOMAIN sections[p] = {}
  BY <1>1, NoSectionsYet
<1>6. CoreDoc(p)' = CoreDoc(p) /\ Read(CoreDoc(p))
  <2>1. call[o].doc \in CoreDocs /\ ProfileError(call[o].doc) = "none"
    BY <1>1 DEF Carries, CoreError
  <2> QED BY <1>3, <2>1 DEF CoreDoc, Read
<1>7. Carrying'
  <2>1. Carries(o, call'[o])
    BY <1>3 DEF Carries
  <2>2. ASSUME NEW q \in Requests, NEW t \in Targets PROVE Carries(<<q, t>>, call'[<<q, t>>])
    <3>1. Carries(<<q, t>>, call[<<q, t>>])
      BY DEF Paged, Carrying, Ops
    <3>2. CASE q # p
      BY <1>3, <3>1, <3>2
    <3>3. CASE q = p /\ t = "core"
      BY <2>1, <3>3
    <3>4. CASE q = p /\ t \in SectionNames
      <4>1. call[<<p, t>>].doc = NoDocument
        BY <1>5, <3>1, <3>4 DEF Carries
      <4>2. CASE enrich /\ t \in Wanted
        BY <1>3, <3>4, <4>1, <4>2 DEF Carries
      <4>3. CASE ~(enrich /\ t \in Wanted)
        BY <1>3, <3>1, <3>4, <4>3
      <4> QED BY <4>2, <4>3
    <3> QED BY <3>2, <3>3, <3>4, OpsFacts
  <2>3. ASSUME NEW x \in Ops PROVE Carries(x, call'[x])
    <3>1. PICK q \in Requests, t \in Targets : x = <<q, t>>
      BY OpsFacts
    <3> QED BY <2>2, <3>1
  <2> QED BY <2>3 DEF Carrying
<1>8. /\ DOMAIN profile' = Requests /\ profile'[p] = Assembled[p][CoreDoc(p)]
      /\ \A q \in Requests : q # p => profile'[q] = profile[q]
  BY <1>1 DEF Paged
<1>9. Filled(p)'
  BY <1>1, <1>5, <1>6, <1>8 DEF Filled
<1>10. \A s \in SectionNames :
         /\ call'[<<p, s>>].st \in {"idle", "semaphore"}
         /\ call'[<<p, s>>].st # "idle" => enrich
  BY <1>3, <1>5
<1>11. /\ pc'[p] = IF enrich THEN "enrich" ELSE "done"
       /\ ~enrich => answer'[p] = "ok"
       /\ \A q \in Requests : q # p => pc'[q] = pc[q] /\ answer'[q] = answer[q]
  BY <1>1, <1>2, <1>4 DEF Tidy
<1>12. Wanted' = Wanted
  BY <1>1 DEF Wanted
<1>13. ~enrich => Concluded(p)'
  <2> SUFFICES ASSUME ~enrich PROVE Concluded(p)'
    OBVIOUS
  <2>1. ProfileError(CoreDoc(p)') = "none" /\ answer'[p] = "ok"
    BY <1>6, <1>11 DEF Read
  <2>2. ~Enriches(CoreDoc(p)', Wanted')
    BY <1>4, <1>6, <1>12
  <2> QED BY <2>1, <2>2 DEF Concluded
<1>14. Pages(p)'
  <2>1. DOMAIN sections'[p] = {}
    BY <1>1, <1>5
  <2>2. enrich => Enriches(CoreDoc(p)', Wanted')
    BY <1>4, <1>6, <1>12
  <2>3. pc'[p] = "enrich" => enrich
    BY <1>11
  <2>4. pc'[p] = "done" => ~enrich
    BY <1>11
  <2> QED BY <1>6, <1>9, <1>10, <1>13, <2>1, <2>2, <2>3, <2>4 DEF Pages
<1> QED BY <1>1, <1>3, <1>7, <1>8, <1>11, <1>14, PagedIfOneRequest

\* Every section has its status: the request is answered.
LEMMA PagedEnriched ==
  ASSUME Sane, Tidy, Paged, NEW p \in Requests, Enriched(p)
  PROVE  Paged'
<1>1. /\ pc[p] = "enrich" /\ UNCHANGED <<config, call, profile, sections>>
      /\ \A s \in Wanted : call[<<p, s>>].st = "done"
      /\ pc' = [pc EXCEPT ![p] = "done"] /\ answer' = [answer EXCEPT ![p] = "ok"]
      /\ pc \in [Requests -> {"idle", "enter", "core", "enrich", "done"}]
  BY DEF Enriched, Sane, Phases
<1>2. /\ pc'[p] = "done" /\ answer'[p] = "ok"
      /\ \A q \in Requests : q # p => pc'[q] = pc[q] /\ answer'[q] = answer[q]
  BY <1>1 DEF Tidy
<1>3. Pages(p) /\ Read(CoreDoc(p)) /\ Filled(p)
  BY <1>1 DEF Paged, Pages
<1>4. Wanted' = Wanted /\ CoreDoc(p)' = CoreDoc(p) /\ Wanted \subseteq SectionNames
  BY <1>1, RetrievalAssumption DEF Wanted, CoreDoc, Sane, CallsInTime
<1>5. Wanted \subseteq DOMAIN sections[p]
  BY <1>1, <1>3, <1>4 DEF Pages
<1>6. Concluded(p)'
  BY <1>1, <1>2, <1>3, <1>4, <1>5 DEF Concluded, Read
<1>7. Filled(p)'
  BY <1>1, <1>3, <1>4 DEF Filled, Says
<1>8. \A s \in SectionNames : call[<<p, s>>].st \in {"idle", "done"}
  BY <1>1 DEF Sane, Phases
<1>9. Pages(p)'
  BY <1>1, <1>2, <1>3, <1>4, <1>6, <1>7, <1>8 DEF Pages
<1>10. Carrying'
  BY <1>1 DEF Paged, Carrying
<1> QED BY <1>1, <1>2, <1>9, <1>10, PagedIfOneRequest DEF Paged

LEMMA PagedStep == Sane /\ Tidy /\ Paged /\ [Next]_vars => Paged'
<1> SUFFICES ASSUME Sane, Tidy, Paged, [Next]_vars PROVE Paged'
  OBVIOUS
<1>1. ASSUME UNCHANGED <<config, pc, call, profile, sections, answer>> PROVE Paged'
  <2>1. ASSUME NEW q \in Requests PROVE Pages(q)'
    <3>1. CoreDoc(q)' = CoreDoc(q)
      BY <1>1 DEF CoreDoc
    <3> QED BY <1>1, <3>1, PagesStay DEF Paged
  <2>2. Carrying'
    BY <1>1 DEF Paged, Carrying
  <2> QED BY <1>1, <2>1, <2>2 DEF Paged
<1>2. ASSUME NEW p \in Requests, NEW how, ContextEnds(p, how) PROVE Paged'
  BY <1>1, <1>2 DEF ContextEnds
<1>3. CASE UNCHANGED vars
  BY <1>1, <1>3 DEF vars
<1> QED BY <1>2, <1>3, PagedCall, PagedSection, PagedEnter, PagedCoreFails,
           PagedCoreFetched, PagedEnriched DEF Next, CoreReturns

LEMMA PagedInit == Init => Paged
<1> SUFFICES ASSUME Init PROVE Paged
  OBVIOUS
<1>1. ASSUME NEW o \in Ops PROVE call[o].st = "idle" /\ call[o].doc = NoDocument
  BY <1>1 DEF Init, NoCall
<1>2. Carrying
  BY <1>1 DEF Carrying, Carries
<1>3. ASSUME NEW r \in Requests PROVE Pages(r)
  <2>1. DOMAIN sections[r] = {} /\ pc[r] \in {"enter", "idle"}
    BY DEF Init
  <2>2. \A s \in SectionNames : call[<<r, s>>].st = "idle"
    BY <1>1, OpsFacts
  <2> QED BY <2>1, <2>2 DEF Pages
<1>4. DOMAIN profile = Requests
  BY DEF Init
<1> QED BY <1>2, <1>3, <1>4 DEF Paged

LEMMA PagedAlways == Spec => []Paged
<1>1. Sane /\ Tidy /\ Paged /\ [Next]_vars => Paged'
  BY PagedStep
<1> QED BY <1>1, PagedInit, BalancedAlways, TidyAlways, PTL DEF Spec

------------------------------------------------------------------------------
(* Induction over the natural numbers, by the set of those a property holds    *)
(* of.                                                                      *)

\* The natural numbers are the least set with 0 and every successor in it.
LEMMA NaturalsAreReached ==
  ASSUME NEW S, 0 \in S, \A n \in Nat : n \in S => n + 1 \in S
  PROVE  Nat \subseteq S
<1> DEFINE R == OpToRel(<, Nat)
           rest == Nat \ S
<1> SUFFICES ASSUME rest # {} PROVE FALSE
  OBVIOUS
<1>1. IsWellFoundedOn(R, Nat)
  BY NatLessThanWellFounded
<1>2. PICK n \in rest : \A m \in rest : <<m, n>> \notin R
  <2>1. rest \subseteq Nat
    OBVIOUS
  <2> HIDE DEF rest, R
  <2> QED BY <1>1, <2>1, WFMin
<1>3. n \in Nat /\ n # 0
  BY <1>2
<1>4. n - 1 \in Nat /\ n - 1 + 1 = n /\ n - 1 < n
  BY <1>3
<1>5. <<n - 1, n>> \in R
  BY <1>3, <1>4 DEF OpToRel
<1>6. n - 1 \in S
  BY <1>2, <1>4, <1>5
<1> QED BY <1>3, <1>4, <1>6, <1>2

\* A set of natural numbers with a bound has a largest one, and there is only one.
LEMMA LargestExists ==
  ASSUME NEW I, I \subseteq Nat, I # {}, NEW m \in Nat, \A i \in I : i <= m
  PROVE  \E p \in I : \A i \in I : i <= p
<1> DEFINE S == {b \in Nat : (\A i \in I : i <= b) => \E p \in I : \A i \in I : i <= p}
<1>1. 0 \in S
  <2> SUFFICES ASSUME \A i \in I : i <= 0 PROVE \E p \in I : \A i \in I : i <= p
    OBVIOUS
  <2>1. PICK p \in I : TRUE
    OBVIOUS
  <2>2. p = 0
    OBVIOUS
  <2> QED BY <2>1, <2>2
<1>2. ASSUME NEW b \in Nat, b \in S PROVE b + 1 \in S
  <2> SUFFICES ASSUME \A i \in I : i <= b + 1 PROVE \E p \in I : \A i \in I : i <= p
    OBVIOUS
  <2>1. CASE b + 1 \in I
    BY <2>1
  <2>2. CASE b + 1 \notin I
    <3>1. \A i \in I : i <= b
      BY <2>2
    <3> QED BY <1>2, <3>1
  <2> QED BY <2>1, <2>2
<1> HIDE DEF S
<1>3. m \in S
  BY <1>1, <1>2, NaturalsAreReached
<1> QED BY <1>3 DEF S

LEMMA LargestChosen ==
  ASSUME NEW I, I \subseteq Nat, NEW p \in I, \A i \in I : i <= p
  PROVE  Max(I) = p /\ (CHOOSE i \in I : \A k \in I : k <= i) = p
<1>1. \A q \in I : (\A y \in I : q >= y) => q = p
  OBVIOUS
<1>2. \A y \in I : p >= y
  OBVIOUS
<1>3. Max(I) = p
  <2>1. Max(I) \in I /\ \A y \in I : Max(I) >= y
    BY <1>2 DEF Max
  <2> QED BY <1>1, <2>1
<1>4. (CHOOSE i \in I : \A k \in I : k <= i) = p
  <2> DEFINE q == CHOOSE i \in I : \A k \in I : k <= i
  <2>1. q \in I /\ \A k \in I : k <= q
    OBVIOUS
  <2> HIDE DEF q
  <2>2. \A y \in I : q >= y
    BY <2>1
  <2>3. q = p
    BY <1>1, <2>1, <2>2
  <2> QED BY <2>3 DEF q
<1> QED BY <1>3, <1>4

------------------------------------------------------------------------------
(***************************************************************************)
(* A loop over 1..n that keeps the values of the steps in keep: what it    *)
(* has after each step is one function, and in it every value kept stands  *)
(* at its step's rank.                                                     *)
(***************************************************************************)
IsLoop(n, keep, value, out) ==
  out = [i \in 0..n |-> IF i = 0 THEN <<>>
                        ELSE IF i \in keep THEN Append(out[i - 1], value[i]) ELSE out[i - 1]]

Steps(n, keep) == \A k \in keep : k \in Nat /\ 0 < k /\ k <= n

Upto(keep, j) == {k \in keep : k <= j}
Rank(keep, j) == Cardinality(Upto(keep, j))

LEMMA LoopSteps ==
  ASSUME NEW n \in Nat, NEW keep, NEW value, NEW out, IsLoop(n, keep, value, out)
  PROVE  /\ DOMAIN out = 0..n /\ out[0] = <<>>
         /\ \A i \in Nat : i < n =>
              out[i + 1] = IF i + 1 \in keep THEN Append(out[i], value[i + 1]) ELSE out[i]
<1>1. DOMAIN out = 0..n /\ \A i \in 0..n : out[i] =
        IF i = 0 THEN <<>>
        ELSE IF i \in keep THEN Append(out[i - 1], value[i]) ELSE out[i - 1]
  <2> DEFINE step == [i \in 0..n |-> IF i = 0 THEN <<>>
                        ELSE IF i \in keep THEN Append(out[i - 1], value[i]) ELSE out[i - 1]]
  <2>1. out = step
    BY DEF IsLoop
  <2>2. DOMAIN step = 0..n /\ \A i \in 0..n : step[i] =
          IF i = 0 THEN <<>>
          ELSE IF i \in keep THEN Append(out[i - 1], value[i]) ELSE out[i - 1]
    OBVIOUS
  <2> HIDE DEF step
  <2> QED BY <2>1, <2>2
<1>2. ASSUME NEW i \in Nat, i < n
      PROVE  out[i + 1] = IF i + 1 \in keep THEN Append(out[i], value[i + 1]) ELSE out[i]
  <2> DEFINE k == i + 1
  <2>1. k \in 0..n /\ k # 0 /\ k - 1 = i
    BY <1>2
  <2> HIDE DEF k
  <2>2. out[k] = IF k \in keep THEN Append(out[k - 1], value[k]) ELSE out[k - 1]
    BY <1>1, <2>1
  <2>3. out[k] = IF k \in keep THEN Append(out[i], value[k]) ELSE out[i]
    BY <2>1, <2>2
  <2> QED BY <2>3 DEF k
<1> QED BY <1>1, <1>2

\* There is such a function.
LEMMA LoopExists ==
  ASSUME NEW n \in Nat, NEW keep, NEW value
  PROVE  \E out : IsLoop(n, keep, value, out)
<1> DEFINE S == {m \in Nat : \E out : IsLoop(m, keep, value, out)}
<1>1. 0 \in S
  <2>1. [i \in 0..0 |-> <<>>] = 
          [i \in 0..0 |-> IF i = 0 THEN <<>>
             ELSE IF i \in keep THEN Append([k \in 0..0 |-> <<>>][i - 1], value[i])
             ELSE [k \in 0..0 |-> <<>>][i - 1]]
    OBVIOUS
  <2>2. IsLoop(0, keep, value, [i \in 0..0 |-> <<>>])
    BY <2>1 DEF IsLoop
  <2> QED BY <2>2
<1>2. ASSUME NEW m \in Nat, m \in S PROVE m + 1 \in S
  <2>1. PICK out : IsLoop(m, keep, value, out)
    BY <1>2
  <2> DEFINE last == IF m + 1 \in keep THEN Append(out[m], value[m + 1]) ELSE out[m]
             more == [i \in 0..m + 1 |-> IF i = m + 1 THEN last ELSE out[i]]
             step == [i \in 0..m + 1 |-> IF i = 0 THEN <<>>
                        ELSE IF i \in keep THEN Append(more[i - 1], value[i]) ELSE more[i - 1]]
  <2>2. /\ DOMAIN out = 0..m /\ out[0] = <<>>
        /\ \A i \in Nat : i < m =>
              out[i + 1] = IF i + 1 \in keep THEN Append(out[i], value[i + 1]) ELSE out[i]
    BY <2>1, LoopSteps
  <2>3. ASSUME NEW i \in 0..m + 1 PROVE more[i] = step[i]
    <3>1. CASE i = 0
      BY <2>2, <3>1
    <3>2. CASE i = m + 1
      <4>1. i # 0 /\ i - 1 = m /\ m \in 0..m + 1 /\ m # m + 1
        BY <3>2
      <4>2. more[i - 1] = out[m] /\ more[i] = last
        BY <3>2, <4>1
      <4>3. step[i] = IF i \in keep THEN Append(more[i - 1], value[i]) ELSE more[i - 1]
        BY <4>1
      <4> HIDE DEF more, step
      <4> QED BY <3>2, <4>2, <4>3
    <3>3. CASE i # 0 /\ i # m + 1
      <4>1. i - 1 \in Nat /\ i - 1 < m /\ i - 1 + 1 = i /\ i - 1 \in 0..m + 1 /\ i - 1 # m + 1
        BY <3>3
      <4>2. out[i] = IF i \in keep THEN Append(out[i - 1], value[i]) ELSE out[i - 1]
        BY <2>2, <4>1
      <4>3. more[i] = out[i] /\ more[i - 1] = out[i - 1]
        BY <3>3, <4>1
      <4>4. step[i] = IF i \in keep THEN Append(more[i - 1], value[i]) ELSE more[i - 1]
        BY <3>3
      <4> HIDE DEF more, step
      <4> QED BY <4>2, <4>3, <4>4
    <3> QED BY <3>1, <3>2, <3>3
  <2>4. more = step
    BY <2>3
  <2>5. IsLoop(m + 1, keep, value, more)
    <3> HIDE DEF more
    <3> QED BY <2>4 DEF IsLoop
  <2> QED BY <2>5
<1> HIDE DEF S
<1>3. n \in S
  BY <1>1, <1>2, NaturalsAreReached
<1> QED BY <1>3 DEF S

LEMMA RankFacts ==
  ASSUME NEW n \in Nat, NEW keep, Steps(n, keep)
  PROVE  /\ \A j \in Int : IsFiniteSet(Upto(keep, j)) /\ Rank(keep, j) \in Nat
         /\ Rank(keep, 0) = 0 /\ Upto(keep, n) = keep
         /\ \A j \in Nat : Rank(keep, j + 1) =
              IF j + 1 \in keep THEN Rank(keep, j) + 1 ELSE Rank(keep, j)
         /\ \A j \in keep, i \in Nat : j <= i => Rank(keep, j) \in 1..Rank(keep, i)
<1>1. IsFiniteSet(keep)
  <2> DEFINE T == 1..n
  <2>1. IsFiniteSet(T)
    BY FS_Interval
  <2>2. keep \in SUBSET T
    BY DEF Steps
  <2> HIDE DEF T
  <2> QED BY <2>1, <2>2, FS_Subset
<1>2. ASSUME NEW j \in Int
      PROVE  IsFiniteSet(Upto(keep, j)) /\ Rank(keep, j) \in Nat
  <2>1. Upto(keep, j) \in SUBSET keep
    BY DEF Upto, Steps
  <2>2. IsFiniteSet(Upto(keep, j))
    BY <1>1, <2>1, FS_Subset
  <2> QED BY <2>2, FS_CardinalityType DEF Rank
<1>3. Rank(keep, 0) = 0
  <2>1. Upto(keep, 0) = {}
    BY DEF Upto, Steps
  <2> QED BY <2>1, FS_EmptySet DEF Rank
<1>4. Upto(keep, n) = keep
  BY DEF Upto, Steps
<1>5. ASSUME NEW j \in Nat
      PROVE  Rank(keep, j + 1) = IF j + 1 \in keep THEN Rank(keep, j) + 1 ELSE Rank(keep, j)
  <2>1. IsFiniteSet(Upto(keep, j)) /\ j + 1 \notin Upto(keep, j)
    BY <1>2 DEF Upto
  <2>2. CASE j + 1 \in keep
    <3>1. Upto(keep, j + 1) = Upto(keep, j) \cup {j + 1}
      BY <2>2 DEF Upto, Steps
    <3> QED BY <2>1, <2>2, <3>1, FS_AddElement DEF Rank
  <2>3. CASE j + 1 \notin keep
    <3>1. Upto(keep, j + 1) = Upto(keep, j)
      BY <2>3 DEF Upto, Steps
    <3> QED BY <2>3, <3>1 DEF Rank
  <2> QED BY <2>2, <2>3
<1>6. ASSUME NEW j \in keep, NEW i \in Nat, j <= i
      PROVE  Rank(keep, j) \in 1..Rank(keep, i)
  <2>1. j \in Int /\ Upto(keep, j) \in SUBSET Upto(keep, i) /\ j \in Upto(keep, j)
    BY <1>6 DEF Upto, Steps
  <2>2. /\ IsFiniteSet(Upto(keep, j)) /\ Rank(keep, j) \in Nat
        /\ IsFiniteSet(Upto(keep, i)) /\ Rank(keep, i) \in Nat
    BY <1>2, <2>1
  <2>3. Rank(keep, j) <= Rank(keep, i)
    BY <2>1, <2>2, FS_Subset DEF Rank
  <2>4. Rank(keep, j) # 0
    BY <2>1, <2>2, FS_EmptySet DEF Rank
  <2> QED BY <2>2, <2>3, <2>4
<1> QED BY <1>2, <1>3, <1>4, <1>5, <1>6

\* Every value kept stands at its step's rank, and nothing else is there.
LEMMA LoopKeepsOrder ==
  ASSUME NEW n \in Nat, NEW keep, Steps(n, keep), NEW value, NEW out,
         IsLoop(n, keep, value, out)
  PROVE  /\ Len(out[n]) = Cardinality(keep)
         /\ \A j \in keep : out[n][Rank(keep, j)] = value[j]
<1> DEFINE V == {value[k] : k \in keep}
           Kept(i) == /\ out[i] \in Seq(V) /\ Len(out[i]) = Rank(keep, i)
                      /\ \A j \in Upto(keep, i) : out[i][Rank(keep, j)] = value[j]
           S == {i \in Nat : i <= n => Kept(i)}
<1>1. /\ out[0] = <<>>
      /\ \A i \in Nat : i < n =>
           out[i + 1] = IF i + 1 \in keep THEN Append(out[i], value[i + 1]) ELSE out[i]
  BY LoopSteps
<1>2. 0 \in S
  <2>1. Upto(keep, 0) = {} /\ <<>> \in Seq(V) /\ Len(<<>>) = 0
    BY DEF Upto, Steps
  <2> QED BY <1>1, <2>1, RankFacts
<1>3. ASSUME NEW i \in Nat, i \in S PROVE i + 1 \in S
  <2> SUFFICES ASSUME i < n PROVE Kept(i + 1)
    OBVIOUS
  <2>1. Kept(i)
    BY <1>3
  <2>2. CASE i + 1 \notin keep
    <3>1. out[i + 1] = out[i] /\ Rank(keep, i + 1) = Rank(keep, i)
      BY <1>1, <2>2, RankFacts
    <3>2. Upto(keep, i + 1) = Upto(keep, i)
      BY <2>2 DEF Upto, Steps
    <3> HIDE DEF V
    <3> QED BY <2>1, <3>1, <3>2
  <2>3. CASE i + 1 \in keep
    <3>1. out[i + 1] = Append(out[i], value[i + 1]) /\ Rank(keep, i + 1) = Rank(keep, i) + 1
      BY <1>1, <2>3, RankFacts
    <3>2. value[i + 1] \in V
      BY <2>3
    <3>3. Rank(keep, i) \in Nat
      <4>1. i \in Int
        OBVIOUS
      <4> HIDE DEF V
      <4> QED BY <4>1, RankFacts
    <3> HIDE DEF V
    <3>4. /\ out[i + 1] \in Seq(V) /\ Len(out[i + 1]) = Rank(keep, i + 1)
          /\ out[i + 1][Rank(keep, i + 1)] = value[i + 1]
      BY <2>1, <3>1, <3>2, <3>3
    <3>5. ASSUME NEW j \in Upto(keep, i)
          PROVE  out[i + 1][Rank(keep, j)] = value[j]
      <4>1. j \in keep /\ j <= i
        BY DEF Upto, Steps
      <4>2. Rank(keep, j) \in 1..Rank(keep, i)
        BY <4>1, RankFacts
      <4>3. out[i + 1][Rank(keep, j)] = out[i][Rank(keep, j)]
        BY <2>1, <3>1, <3>2, <4>2
      <4> QED BY <2>1, <4>3
    <3>6. Upto(keep, i + 1) = Upto(keep, i) \cup {i + 1}
      BY <2>3 DEF Upto, Steps
    <3> QED BY <3>4, <3>5, <3>6
  <2> QED BY <2>2, <2>3
<1> HIDE DEF S
<1>4. n \in S
  BY <1>2, <1>3, NaturalsAreReached
<1>5. Kept(n)
  BY <1>4 DEF S
<1> QED BY <1>5, RankFacts DEF Rank

------------------------------------------------------------------------------
(* parseSection is a loop over the page's URNs.                             *)

ItemsOf(doc, urn) == {i \in DOMAIN doc.included : doc.included[i].urn = urn /\ urn # ""}

LastOf(doc, urn) ==
  doc.included[CHOOSE i \in ItemsOf(doc, urn) : \A k \in ItemsOf(doc, urn) : k <= i]

Reads(s, doc, j) ==
  IF LastOf(doc, doc.elements[j]).typed THEN Decode(s, LastOf(doc, doc.elements[j]).object)
  ELSE [usable |-> FALSE]

ShownOf(s, doc) ==
  {j \in DOMAIN doc.elements : ItemsOf(doc, doc.elements[j]) # {} /\ Reads(s, doc, j).usable}

EntryOf(s, doc, j) == Decode(s, ItemFor(doc.included, doc.elements[j]).object).value

Listing(doc) ==
  /\ Len(doc.elements) \in Nat /\ DOMAIN doc.elements = 1..Len(doc.elements)
  /\ Len(doc.included) \in Nat /\ DOMAIN doc.included = 1..Len(doc.included)

LEMMA AnyListing ==
  ASSUME NEW doc \in SectionDocs \ {Malformed}
  PROVE  Listing(doc)
<1>1. doc.elements \in Seq(Range(doc.elements)) /\ doc.included \in Seq(Range(doc.included))
  BY RetrievalAssumption
<1> HIDE DEF Range
<1> QED BY <1>1 DEF Listing

Follows(s, doc, entries) ==
  /\ Len(entries) = Cardinality(ShownOf(s, doc))
  /\ \A j \in ShownOf(s, doc) :
       entries[Cardinality({k \in ShownOf(s, doc) : k <= j})] = Reads(s, doc, j).value

LEMMA FollowsThePage ==
  ASSUME NEW s, NEW doc, NEW entries, Follows(s, doc, entries)
  PROVE  EntriesFollowThePage(s, doc, entries)
BY Zenon DEF Follows, EntriesFollowThePage, ShownOf, Reads, LastOf, ItemsOf

LEMMA LastIsItemFor ==
  ASSUME NEW doc, Listing(doc), NEW urn, ItemsOf(doc, urn) # {}
  PROVE  LastOf(doc, urn) = ItemFor(doc.included, urn)
<1> DEFINE I == {i \in DOMAIN doc.included : doc.included[i].urn = urn}
<1>1. ItemsOf(doc, urn) = I
  BY Zenon DEF ItemsOf
<1>2. I \subseteq Nat /\ Len(doc.included) \in Nat /\ \A i \in I : i <= Len(doc.included)
  BY DEF Listing
<1>3. ItemFor(doc.included, urn) = doc.included[Max(I)]
  BY DEF ItemFor
<1>4. LastOf(doc, urn) = doc.included[CHOOSE i \in I : \A k \in I : k <= i]
  BY <1>1 DEF LastOf
<1> HIDE DEF I
<1>5. PICK p \in I : \A i \in I : i <= p
  BY <1>1, <1>2, LargestExists
<1>6. Max(I) = p /\ (CHOOSE i \in I : \A k \in I : k <= i) = p
  BY <1>2, <1>5, LargestChosen
<1> QED BY <1>3, <1>4, <1>6

\* The loop keeps what the page shows.
LEMMA UsableIfShown ==
  ASSUME NEW s, NEW doc, Listing(doc), NEW j \in DOMAIN doc.elements
  PROVE  /\ j \in ShownOf(s, doc) <=> Usable(s, doc.included, doc.elements[j])
         /\ j \in ShownOf(s, doc) => Reads(s, doc, j).value = EntryOf(s, doc, j)
<1> DEFINE urn == doc.elements[j]
           item == ItemFor(doc.included, urn)
<1>1. CASE ItemsOf(doc, urn) = {}
  <2>1. ~Usable(s, doc.included, urn)
    BY <1>1, Zenon DEF Usable, ItemsOf
  <2> QED BY <1>1, <2>1 DEF ShownOf
<1>2. CASE ItemsOf(doc, urn) # {}
  <2>1. Usable(s, doc.included, urn) <=> item.typed /\ Decode(s, item.object).usable
    BY <1>2, Zenon DEF Usable, ItemsOf
  <2>2. Reads(s, doc, j) = IF item.typed THEN Decode(s, item.object) ELSE [usable |-> FALSE]
    BY <1>2, LastIsItemFor DEF Reads
  <2>3. j \in ShownOf(s, doc) <=> item.typed /\ Decode(s, item.object).usable
    BY <1>2, <2>2 DEF ShownOf
  <2> QED BY <2>1, <2>2, <2>3 DEF EntryOf
<1> QED BY <1>1, <1>2

Values(s, doc) == [j \in DOMAIN doc.elements |-> EntryOf(s, doc, j)]

LEMMA ParseSectionLoops ==
  ASSUME NEW s, NEW doc, Listing(doc)
  PROVE  \E out : /\ IsLoop(Len(doc.elements), ShownOf(s, doc), Values(s, doc), out)
                  /\ ParseSection(s, doc) = out[Len(doc.elements)]
<1> DEFINE n == Len(doc.elements)
           Code(out) ==
             [i \in 0..n |->
                IF i = 0 THEN <<>>
                ELSE IF Usable(s, doc.included, doc.elements[i])
                     THEN Append(out[i - 1], Decode(s, ItemFor(doc.included, doc.elements[i]).object).value)
                     ELSE out[i - 1]]
           Loop(out) ==
             [i \in 0..n |-> IF i = 0 THEN <<>>
                             ELSE IF i \in ShownOf(s, doc)
                                  THEN Append(out[i - 1], Values(s, doc)[i]) ELSE out[i - 1]]
           result == CHOOSE out : out = Code(out)
<1>1. ParseSection(s, doc) = result[n]
  BY DEF ParseSection
<1>2. n \in Nat /\ DOMAIN doc.elements = 1..n
  BY DEF Listing
<1>3. ASSUME NEW out PROVE Code(out) = Loop(out)
  <2>1. ASSUME NEW i \in 0..n PROVE Code(out)[i] = Loop(out)[i]
    <3>1. CASE i = 0
      BY <3>1
    <3>2. CASE i # 0
      <4>1. i \in DOMAIN doc.elements
        BY <1>2, <3>2
      <4>2. (i \in ShownOf(s, doc)) <=> Usable(s, doc.included, doc.elements[i])
        BY <4>1, UsableIfShown
      <4>3. Values(s, doc)[i] = Decode(s, ItemFor(doc.included, doc.elements[i]).object).value
        BY <4>1 DEF Values, EntryOf
      <4> QED BY <3>2, <4>2, <4>3
    <3> QED BY <3>1, <3>2
  <2> QED BY <2>1
<1>4. PICK out : IsLoop(n, ShownOf(s, doc), Values(s, doc), out)
  BY <1>2, LoopExists
<1>5. out = Code(out)
  <2>1. out = Loop(out)
    BY <1>4 DEF IsLoop
  <2> HIDE DEF Code, Loop
  <2> QED BY <1>3, <2>1
<1>6. result = Code(result)
  <2> HIDE DEF Code
  <2> QED BY <1>5, Zenon
<1>7. result = Loop(result)
  <2> HIDE DEF Code, Loop, result
  <2> QED BY <1>3, <1>6
<1>8. IsLoop(n, ShownOf(s, doc), Values(s, doc), result)
  <2> HIDE DEF result
  <2> QED BY <1>7 DEF IsLoop
<1> QED BY <1>1, <1>8

\* A section's entries are the usable items of LinkedIn's page, in its order, none left
\* out and none added, for every document (linkedin/parse/sections.go:56-89).
THEOREM ParsingKeepsOrder == ParsedInOrder
<1> SUFFICES ASSUME NEW s \in SectionNames, NEW doc \in SectionDocs \ {Malformed}
             PROVE  EntriesFollowThePage(s, doc, SectionEntries(s, doc))
  BY DEF ParsedInOrder
<1> DEFINE n == Len(doc.elements)
           shown == ShownOf(s, doc)
<1>1. Listing(doc)
  BY AnyListing
<1>2. SectionEntries(s, doc) = ParseSection(s, doc)
  BY DEF SectionEntries
<1>3. PICK out : IsLoop(n, shown, Values(s, doc), out) /\ ParseSection(s, doc) = out[n]
  BY <1>1, ParseSectionLoops
<1>4. n \in Nat /\ Steps(n, shown) /\ shown \subseteq DOMAIN doc.elements
  BY <1>1 DEF Listing, Steps, ShownOf
<1>5. /\ Len(out[n]) = Cardinality(shown)
      /\ \A j \in shown : out[n][Rank(shown, j)] = Values(s, doc)[j]
  <2> HIDE DEF shown, n
  <2> QED BY <1>3, <1>4, LoopKeepsOrder
<1>6. ASSUME NEW j \in shown PROVE Values(s, doc)[j] = Reads(s, doc, j).value
  BY <1>1, <1>4, UsableIfShown DEF Values
<1>7. Follows(s, doc, SectionEntries(s, doc))
  <2> HIDE DEF n
  <2> QED BY <1>2, <1>3, <1>5, <1>6 DEF Follows, Rank, Upto
<1> QED BY <1>7, FollowsThePage

------------------------------------------------------------------------------
(* What the answer says of the sections is true.                            *)

\* A section that has a status tells the truth.
LEMMA SaysTruth ==
  ASSUME NEW r \in Requests, NEW s \in SectionNames, Says(r, s)
  PROVE  SectionTruthful(r, s)
<1> DEFINE doc == call[<<r, s>>].doc
           entries == profile[r][ProfileField(s)]
<1>1. CASE doc = NoDocument
  BY <1>1 DEF Says, SectionTruthful
<1>2. CASE doc # NoDocument /\ doc = Malformed
  <2>1. sections[r][s] = "unavailable" /\ entries = <<>>
    BY <1>2 DEF Says, SectionStatus, SectionEntries
  <2> QED BY <1>2, <2>1 DEF SectionTruthful
<1>3. CASE doc # NoDocument /\ doc # Malformed
  <2>1. /\ doc \in SectionDocs \ {Malformed} /\ entries = SectionEntries(s, doc)
        /\ sections[r][s] = IF SectionEntries(s, doc) = <<>> THEN "empty" ELSE "ok"
    BY <1>3 DEF Says, SectionStatus
  <2>2. EntriesFollowThePage(s, doc, entries)
    BY <2>1, ParsingKeepsOrder DEF ParsedInOrder
  <2>3. CASE entries = <<>>
    BY <2>1, <2>2, <2>3 DEF SectionTruthful
  <2>4. CASE entries # <<>>
    BY <2>1, <2>2, <2>4 DEF SectionTruthful
  <2> QED BY <2>3, <2>4
<1> QED BY <1>1, <1>2, <1>3

\* What the property says of one request that was answered.
LEMMA PagesTruth ==
  ASSUME Tidy, NEW r \in Requests, Pages(r), pc[r] = "done",
         CoreDoc(r) \in CoreDocs, ProfileError(CoreDoc(r)) = "none"
  PROVE  /\ answer[r] = "ok"
         /\ DOMAIN sections[r] = IF ProfileURN(CoreDoc(r)) = "" THEN {} ELSE Wanted
         /\ \A f \in DOMAIN ParseProfile(CoreDoc(r), r)
                       \ {ProfileField(s) : s \in DOMAIN sections[r]} :
              profile[r][f] = ParseProfile(CoreDoc(r), r)[f]
         /\ \A s \in DOMAIN sections[r] : SectionTruthful(r, s)
<1>1. Read(CoreDoc(r)) /\ Filled(r) /\ Concluded(r) /\ DOMAIN sections[r] \subseteq SectionNames
  BY DEF Pages, Read
<1>2. answer[r] = "ok"
  BY <1>1 DEF Concluded
<1>3. DOMAIN sections[r] = IF Enriches(CoreDoc(r), Wanted) THEN Wanted ELSE {}
  <2>1. CASE Enriches(CoreDoc(r), Wanted)
    BY <1>1, <2>1 DEF Concluded, Tidy
  <2>2. CASE ~Enriches(CoreDoc(r), Wanted)
    BY <1>1, <2>2 DEF Pages
  <2> QED BY <2>1, <2>2
<1>4. DOMAIN sections[r] = IF ProfileURN(CoreDoc(r)) = "" THEN {} ELSE Wanted
  BY <1>3, Zenon DEF Enriches
<1>5. Assembled[r][CoreDoc(r)] = ParseProfile(CoreDoc(r), r)
  BY DEF Assembled
<1>6. \A f \in DOMAIN ParseProfile(CoreDoc(r), r)
                \ {ProfileField(s) : s \in DOMAIN sections[r]} :
        profile[r][f] = ParseProfile(CoreDoc(r), r)[f]
  BY <1>1, <1>5 DEF Filled
<1>7. \A s \in DOMAIN sections[r] : SectionTruthful(r, s)
  BY <1>1, SaysTruth DEF Filled
<1> QED BY <1>2, <1>4, <1>6, <1>7, Zenon

\* A request whose base profile was read is answered with it, and its meta.sections
\* tells the truth about every section that is configured: never is one that failed or
\* came too late passed off as empty (service/profile.go:200-203, 306-358).
THEOREM SectionsAlwaysTruthful == Spec => []SectionsTruthful
<1>1. Tidy /\ Paged => SectionsTruthful
  <2> SUFFICES ASSUME Tidy, Paged, NEW r \in Requests,
                      pc[r] = "done", CoreDoc(r) \in CoreDocs
               PROVE  IF ProfileError(CoreDoc(r)) # "none"
                      THEN answer[r] = ProfileError(CoreDoc(r))
                      ELSE /\ answer[r] = "ok"
                           /\ DOMAIN sections[r] =
                                IF ProfileURN(CoreDoc(r)) = "" THEN {} ELSE Wanted
                           /\ \A f \in DOMAIN ParseProfile(CoreDoc(r), r)
                                         \ {ProfileField(s) : s \in DOMAIN sections[r]} :
                                profile[r][f] = ParseProfile(CoreDoc(r), r)[f]
                           /\ \A s \in DOMAIN sections[r] : SectionTruthful(r, s)
    BY Zenon DEF SectionsTruthful, CoreDoc
  <2>1. Pages(r)
    BY DEF Paged
  <2>2. CASE ProfileError(CoreDoc(r)) # "none"
    <3>1. answer[r] = ProfileError(CoreDoc(r))
      BY <2>1, <2>2 DEF Pages, Concluded
    <3> QED BY <2>2, <3>1, Zenon
  <2>3. CASE ProfileError(CoreDoc(r)) = "none"
    BY <2>1, <2>3, PagesTruth, Zenon
  <2> QED BY <2>2, <2>3, Zenon
<1> QED BY <1>1, PagedAlways, TidyAlways, PTL
================================================================================
