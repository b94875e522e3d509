-------------------------------- MODULE Retrieval --------------------------------
(***************************************************************************)
(* What a request does that has to ask LinkedIn (service/profile.go): it   *)
(* passes the gate, fetches the base profile (fetchCore), gives its slot   *)
(* back and then fetches the configured sections, one goroutine each       *)
(* (enrich, enrichSection).  ServerLookup and CallerLookup say what happens*)
(* before and after; in both the retrieval is this one.                    *)
(*                                                                         *)
(* Every fetch is a call of LinkedInClient with its own deadline, inside   *)
(* the request's context, which ends by the profile deadline or because    *)
(* the client went away.  No clock is kept: each of them may end at any    *)
(* time.  The gate is the guard of Guard.tla: its slots are counted here,  *)
(* its breakers and its limiter may refuse at any time.                    *)
(***************************************************************************)
EXTENDS LinkedInClient, Parsing, FiniteSets

CONSTANTS
  Requests,       \* the request handlers
  Configs,        \* configurations and workloads to start from
  MaxConcurrency, \* slots of the gate
  EnrichSlots,    \* ENRICHMENT_CONCURRENCY: slots of the semaphore
  Statuses,       \* statuses other than 200 that LinkedIn replies with
  CoreDocs, SectionDocs,  \* documents it replies with
  NoProfile       \* a request has no profile yet

ASSUME RetrievalAssumption ==
  /\ IsFiniteSet(Requests)
  /\ Configs \subseteq [sections : SUBSET SectionNames, maxRetries : Nat,
                        requests : SUBSET Requests]
  /\ MaxConcurrency \in Nat \ {0} /\ EnrichSlots \in Nat \ {0}
  /\ Statuses \subseteq Nat \ {200}
  /\ NoDocument \notin CoreDocs \cup SectionDocs
  /\ \A doc \in SectionDocs \ {Malformed} : \A list \in {doc.elements, doc.included} :
       list \in Seq(Range(list))

Targets == {"core"} \cup SectionNames
Ops == Requests \X Targets

VARIABLES
  config,      \* the configured sections and retries, and who asks
  ctx,         \* a request's context: live, expired or its client gone
  pc, call,    \* where a request is, and its calls to LinkedIn
  profile,     \* the profile a request assembles
  sections,    \* its meta.sections: a status for each section
  answer,      \* what GetProfile returns: ok, or an error code
  slots,       \* filled slots of the gate's semaphore
  enrichSem,   \* filled slots of the enrichment semaphore
  heard        \* history: LinkedIn's reply that settles the core fetch, or 0

vars == <<config, ctx, pc, call, profile, sections, answer, slots, enrichSem, heard>>

Wanted == config.sections

\* The error of a call's context: its own deadline or the request's context,
\* whichever came first; a call that timed out is not asked about the other.
ContextError(o) == IF call[o].timedOut THEN "expired" ELSE ctx[o[1]]

Live(o) == ContextError(o) = "live"

TypeOK ==
  /\ config \in Configs
  /\ ctx \in [Requests -> {"live", "expired", "gone"}]
  /\ pc \in [Requests -> {"idle", "enter", "core", "enrich", "done"}]
  /\ DOMAIN call = Ops
  /\ \A o \in Ops : /\ call[o].st \in CallPoints
                    /\ call[o].attempt \in 0..config.maxRetries
                    /\ call[o].wait \in Durations /\ call[o].waited \in 0..Timeout
                    /\ call[o].err \in Codes \cup {"none"}
                    /\ call[o].doc \in CoreDocs \cup SectionDocs \cup {NoDocument}
  /\ \A r \in Requests : DOMAIN sections[r] \subseteq Wanted
  /\ answer \in [Requests -> Codes \cup {"none", "ok"}]
  /\ slots \in 0..MaxConcurrency /\ enrichSem \in 0..EnrichSlots
  /\ heard \in [Requests -> Statuses \cup {0}]

Init ==
  /\ config \in Configs
  /\ ctx = [r \in Requests |-> "live"]
  /\ pc = [r \in Requests |-> IF r \in config.requests THEN "enter" ELSE "idle"]
  /\ call = [o \in Ops |-> NoCall(NoDocument)]
  /\ profile = [r \in Requests |-> NoProfile]
  /\ sections = [r \in Requests |-> <<>>]
  /\ answer = [r \in Requests |-> "none"]
  /\ slots = 0 /\ enrichSem = 0
  /\ heard = [r \in Requests |-> 0]

(***************************************************************************)
(* The parsers are pure, so they are functions on the documents there are. *)
(***************************************************************************)
Assembled ==
  [r \in Requests |-> [doc \in {d \in CoreDocs : ProfileError(d) = "none"} |->
    ParseProfile(doc, r)]]

ApplySection ==
  [s \in SectionNames |-> [doc \in SectionDocs |->
    [entries |-> SectionEntries(s, doc), status |-> SectionStatus(s, doc)]]]

SetCall(o, c) == call' = [call EXCEPT ![o] = c]

\* Nothing is left of a call but what it fetched.
Finished(c) == [NoCall(c.doc) EXCEPT !.st = "done"]

------------------------------------------------------------------------------
(* Contexts.                                                                *)

\* The profile deadline passes, or the client closes its connection.
ContextEnds(r, how) ==
  /\ pc[r] \in {"enter", "core", "enrich"} /\ ctx[r] = "live"
  /\ ctx' = [ctx EXCEPT ![r] = how]
  /\ UNCHANGED <<config, pc, call, profile, sections, answer, slots, enrichSem, heard>>

CallTimesOut(o) ==
  /\ call[o].st \in {"sent", "backoff"} /\ Live(o)
  /\ SetCall(o, [call[o] EXCEPT !.timedOut = TRUE])
  /\ UNCHANGED <<config, ctx, pc, profile, sections, answer, slots, enrichSem, heard>>

------------------------------------------------------------------------------
(* A call to LinkedIn: get's loop over attempt.                             *)

callOnly == <<config, ctx, pc, profile, sections, answer, slots, enrichSem>>

AttemptFails(o, err, retry) ==
  SetCall(o, Failed(call[o], config.maxRetries, err, retry))

StatusArrives(o, status) ==
  /\ call[o].st = "sent" /\ Live(o)
  /\ AttemptFails(o, ClassifyStatus(status), RetryableStatus(status))
  /\ heard' = IF o[2] = "core" /\ heard[o[1]] = 0 /\ status \notin 500..599
              THEN [heard EXCEPT ![o[1]] = status] ELSE heard
  /\ UNCHANGED callOnly

BodyArrives(o, doc) ==
  /\ call[o].st = "sent" /\ Live(o)
  /\ doc \in IF o[2] = "core" THEN CoreDocs ELSE SectionDocs
  /\ SetCall(o, Returned("none", doc))
  /\ UNCHANGED <<callOnly, heard>>

\* The body breaks off, is too large, or the context ends while it is read.
BodyUnreadable(o) ==
  /\ call[o].st = "sent"
  /\ SetCall(o, Returned("upstream_parse_error", NoDocument))
  /\ UNCHANGED <<callOnly, heard>>

\* Mutant of TransportFails: the HTTP request is built without the context.
TransportFailsDetached(o, error) ==
  /\ call[o].st \in {"sent", "unsent"} /\ error \in NetworkErrors
  /\ AttemptFails(o, ClassifyTransport(error), RetryableCode(ClassifyTransport(error)) /\ Live(o))
  /\ UNCHANGED <<callOnly, heard>>

\* No reply.  An attempt that was never sent fails with its context's error.
TransportFails(o, error) ==
  /\ \/ call[o].st = "sent" /\ error \in NetworkErrors
     \/ call[o].st \in {"sent", "unsent"} /\ ~Live(o) /\ error = ContextError(o)
  /\ AttemptFails(o, ClassifyTransport(error), RetryableCode(ClassifyTransport(error)) /\ Live(o))
  /\ UNCHANGED <<callOnly, heard>>

BackoffElapses(o, jitter) ==
  /\ Live(o) /\ TimerFirst(call[o], jitter)
  /\ SetCall(o, Attempt(BackedOff(call[o], jitter), TRUE))
  /\ UNCHANGED <<callOnly, heard>>

\* sleepBackoff is cut short: the error of the last attempt stands.
BackoffCut(o) ==
  /\ call[o].st = "backoff" /\ ~Live(o)
  /\ SetCall(o, Returned(call[o].err, NoDocument))
  /\ UNCHANGED <<callOnly, heard>>

------------------------------------------------------------------------------
(* The base profile.                                                        *)

Fail(r, code) ==
  /\ answer' = [answer EXCEPT ![r] = code]
  /\ pc' = [pc EXCEPT ![r] = "done"]

EnterRefused(r, code) ==
  /\ pc[r] = "enter"
  /\ Fail(r, code)
  /\ UNCHANGED <<config, ctx, call, profile, sections, slots, enrichSem, heard>>

EnterAdmitted(r) ==
  /\ pc[r] = "enter" /\ slots < MaxConcurrency
  /\ slots' = slots + 1
  /\ pc' = [pc EXCEPT ![r] = "core"]
  /\ SetCall(<<r, "core">>, Attempt(call[<<r, "core">>], Live(<<r, "core">>)))
  /\ UNCHANGED <<config, ctx, profile, sections, answer, enrichSem, heard>>

\* What fetchCore returns of the core call: its error, or parse.Profile's.
CoreError(r) ==
  LET c == call[<<r, "core">>]
  IN IF c.err # "none" THEN c.err ELSE ProfileError(c.doc)

\* Mutant of CoreFails: the slot is given back on success only.
CoreFailsHoldingSlot(r) ==
  /\ pc[r] = "core" /\ call[<<r, "core">>].st = "returned"
  /\ CoreError(r) # "none"
  /\ Fail(r, CoreError(r))
  /\ SetCall(<<r, "core">>, Finished(call[<<r, "core">>]))
  /\ UNCHANGED <<config, ctx, profile, sections, slots, enrichSem, heard>>

CoreFails(r) ==
  /\ pc[r] = "core" /\ call[<<r, "core">>].st = "returned"
  /\ CoreError(r) # "none"
  /\ slots' = slots - 1
  /\ Fail(r, CoreError(r))
  /\ SetCall(<<r, "core">>, Finished(call[<<r, "core">>]))
  /\ UNCHANGED <<config, ctx, profile, sections, enrichSem, heard>>

\* Without sections, or without a URN to ask for them, the request is done.
CoreFetched(r) ==
  /\ pc[r] = "core" /\ call[<<r, "core">>].st = "returned"
  /\ CoreError(r) = "none"
  /\ slots' = slots - 1
  /\ profile' = [profile EXCEPT ![r] = Assembled[r][call[<<r, "core">>].doc]]
  /\ LET enrich == ProfileURN(call[<<r, "core">>].doc) # "" /\ Wanted # {}
     IN /\ pc' = [pc EXCEPT ![r] = IF enrich THEN "enrich" ELSE "done"]
        /\ answer' = [answer EXCEPT ![r] = IF enrich THEN @ ELSE "ok"]
        /\ call' = [o \in Ops |->
             IF o[1] # r THEN call[o]
             ELSE IF o[2] = "core" THEN Finished(call[o])
             ELSE IF enrich /\ o[2] \in Wanted THEN [call[o] EXCEPT !.st = "semaphore"]
             ELSE call[o]]
  /\ UNCHANGED <<config, ctx, sections, enrichSem, heard>>

------------------------------------------------------------------------------
(* A section.                                                               *)

\* enrichSection returns: the status goes to the channel.
SectionDone(r, s, status) ==
  /\ sections' = [sections EXCEPT ![r] =
       [t \in DOMAIN @ \cup {s} |-> IF t = s THEN status ELSE @[t]]]
  /\ SetCall(<<r, s>>, Finished(call[<<r, s>>]))

\* Also under a context that has ended: select takes either ready case.
SemaphoreTaken(r, s) ==
  /\ call[<<r, s>>].st = "semaphore" /\ enrichSem < EnrichSlots
  /\ enrichSem' = enrichSem + 1
  /\ SetCall(<<r, s>>, [call[<<r, s>>] EXCEPT !.st = "gate"])
  /\ UNCHANGED <<config, ctx, pc, profile, sections, answer, slots, heard>>

SectionAbandoned(r, s) ==
  /\ call[<<r, s>>].st = "semaphore" /\ ctx[r] # "live"
  /\ SectionDone(r, s, "unavailable")
  /\ UNCHANGED <<config, ctx, pc, profile, answer, slots, enrichSem, heard>>

SectionRefused(r, s) ==
  /\ call[<<r, s>>].st = "gate"
  /\ enrichSem' = enrichSem - 1
  /\ SectionDone(r, s, "unavailable")
  /\ UNCHANGED <<config, ctx, pc, profile, answer, slots, heard>>

SectionAdmitted(r, s) ==
  /\ call[<<r, s>>].st = "gate" /\ slots < MaxConcurrency
  /\ slots' = slots + 1
  /\ SetCall(<<r, s>>, Attempt(call[<<r, s>>], Live(<<r, s>>)))
  /\ UNCHANGED <<config, ctx, pc, profile, sections, answer, enrichSem, heard>>

SectionFails(r, s) ==
  /\ s \in Wanted /\ call[<<r, s>>].st = "returned" /\ call[<<r, s>>].err # "none"
  /\ slots' = slots - 1 /\ enrichSem' = enrichSem - 1
  /\ SectionDone(r, s, "unavailable")
  /\ UNCHANGED <<config, ctx, pc, profile, answer, heard>>

\* release: the gate's slot goes back before the document is applied.
SectionFetched(r, s) ==
  /\ s \in Wanted /\ call[<<r, s>>].st = "returned" /\ call[<<r, s>>].err = "none"
  /\ slots' = slots - 1
  /\ SetCall(<<r, s>>, [call[<<r, s>>] EXCEPT !.st = "released"])
  /\ UNCHANGED <<config, ctx, pc, profile, sections, answer, enrichSem, heard>>

SectionApplied(r, s) ==
  /\ call[<<r, s>>].st = "released"
  /\ LET applied == ApplySection[s][call[<<r, s>>].doc]
     IN /\ profile' = [profile EXCEPT ![r][ProfileField(s)] = applied.entries]
        /\ SectionDone(r, s, applied.status)
  /\ enrichSem' = enrichSem - 1
  /\ UNCHANGED <<config, ctx, pc, answer, slots, heard>>

\* wg.Wait: every section has its status.
Enriched(r) ==
  /\ pc[r] = "enrich"
  /\ \A s \in Wanted : call[<<r, s>>].st = "done"
  /\ pc' = [pc EXCEPT ![r] = "done"]
  /\ answer' = [answer EXCEPT ![r] = "ok"]
  /\ UNCHANGED <<config, ctx, call, profile, sections, slots, enrichSem, heard>>

------------------------------------------------------------------------------
CallReturns(o) ==
  \/ \E status \in Statuses : StatusArrives(o, status)
  \/ \E doc \in CoreDocs \cup SectionDocs : BodyArrives(o, doc)
  \/ BodyUnreadable(o)
  \/ \E error \in NetworkErrors \cup {"expired", "gone"} : TransportFails(o, error)
  \/ \E jitter \in Jitters(call[o]) : BackoffElapses(o, jitter)
  \/ BackoffCut(o)

EnterGate(r) ==
  \/ \E code \in {"upstream_unavailable", "upstream_rate_limited"} : EnterRefused(r, code)
  \/ EnterAdmitted(r)

CoreReturns(r) == CoreFails(r) \/ CoreFetched(r)

SectionSteps(r, s) ==
  \/ SemaphoreTaken(r, s) \/ SectionAbandoned(r, s)
  \/ SectionRefused(r, s) \/ SectionAdmitted(r, s)
  \/ SectionFails(r, s) \/ SectionFetched(r, s) \/ SectionApplied(r, s)

Next ==
  \/ \E r \in Requests : \E how \in {"expired", "gone"} : ContextEnds(r, how)
  \/ \E o \in Ops : CallTimesOut(o) \/ CallReturns(o)
  \/ \E r \in Requests : EnterGate(r) \/ CoreReturns(r) \/ Enriched(r)
  \/ \E r \in Requests : \E s \in SectionNames : SectionSteps(r, s)

(***************************************************************************)
(* Fairness.  A request whose goroutines can go on does: one of them takes *)
(* a step.  Of LinkedIn and the network nothing is assumed: an attempt     *)
(* that is under way need not be answered.  What is assumed is that the    *)
(* request's deadline passes, as a timer does, and that a call returns     *)
(* once its context has ended.                                             *)
(***************************************************************************)
DeadlinePasses(r) == ContextEnds(r, "expired")

CallGivesUp(o) == TransportFails(o, ContextError(o)) \/ BackoffCut(o)

Proceeds(r) ==
  \/ EnterGate(r) \/ CoreReturns(r) \/ Enriched(r)
  \/ \E s \in Wanted : SectionSteps(r, s)
  \/ \E t \in {"core"} \cup Wanted : CallGivesUp(<<r, t>>)

Fairness == \A r \in Requests : WF_vars(DeadlinePasses(r)) /\ WF_vars(Proceeds(r))

Spec == Init /\ [][Next]_vars /\ Fairness

------------------------------------------------------------------------------
(* Properties.                                                              *)

\* Every slot of the gate is held by a call that has passed Enter and whose
\* release has not been called, and every slot of the enrichment semaphore by
\* a section's goroutine inside enrichSection, on all of their returns
\* (service/profile.go:192, 335-346): none is lost and none given back twice.
SlotsAccounted ==
  LET Holding(points, targets) ==
        Cardinality({o \in Ops : o[2] \in targets /\ call[o].st \in points})
      AtLinkedIn == {"sent", "unsent", "backoff", "returned"}
  IN /\ slots = Holding(AtLinkedIn, Targets)
     /\ enrichSem = Holding(AtLinkedIn \cup {"gate", "released"}, SectionNames)

\* A reply of LinkedIn's that no retry can change (a rejected session, a 429,
\* a missing profile, its bot wall: linkedin/errors.go:43-48) settles the
\* request: nothing more is sent for it, whatever the deadlines do, and it is
\* what the request is answered with.  And only LinkedIn can say that the
\* session is bad or the profile is missing, which the breaker, the marks of
\* caller sessions and the negative cache go by: no deadline, no client that
\* went away and no connection error is ever reported as one of them.
VerdictsFinal ==
  \A r \in Requests :
    /\ heard[r] # 0 =>
         /\ \A t \in Targets : call[<<r, t>>].st \notin {"sent", "unsent", "backoff"}
         /\ pc[r] = "done" => answer[r] = ClassifyStatus(heard[r])
    /\ answer[r] = "upstream_auth_failed" => heard[r] \in {401, 403} \cup 300..399
    /\ answer[r] = "profile_not_found" =>
         heard[r] = 404 \/ call[<<r, "core">>].doc \in CoreDocs \ {Malformed}

\* Entries are what LinkedIn's page lists: in its order, each the last item
\* of its URN, none of the usable ones left out.
EntriesFollowThePage(s, doc, entries) ==
  LET ItemsOf(urn) == {i \in DOMAIN doc.included : doc.included[i].urn = urn /\ urn # ""}
      Value(j) == LET item == doc.included[CHOOSE i \in ItemsOf(doc.elements[j]) :
                                             \A k \in ItemsOf(doc.elements[j]) : k <= i]
                  IN IF item.typed THEN Decode(s, item.object) ELSE [usable |-> FALSE]
      shown == {j \in DOMAIN doc.elements : ItemsOf(doc.elements[j]) # {} /\ Value(j).usable}
  IN /\ Len(entries) = Cardinality(shown)
     /\ \A j \in shown :
          entries[Cardinality({k \in shown : k <= j})] = Value(j).value

\* Parsing a section's document lists what the page does.
ParsedInOrder ==
  \A s \in SectionNames : \A doc \in SectionDocs \ {Malformed} :
    EntriesFollowThePage(s, doc, SectionEntries(s, doc))

\* What meta.sections says of a section, and its entries, are what its document was.
SectionTruthful(r, s) ==
  LET doc     == call[<<r, s>>].doc
      entries == profile[r][ProfileField(s)]
  IN CASE sections[r][s] = "unavailable" -> doc \in {NoDocument, Malformed} /\ entries = <<>>
       [] sections[r][s] = "empty" ->
            doc \in SectionDocs \ {Malformed} /\ entries = <<>>
            /\ EntriesFollowThePage(s, doc, entries)
       [] sections[r][s] = "ok" ->
            entries # <<>> /\ EntriesFollowThePage(s, doc, entries)

\* A request whose base profile was read is answered with it, whatever happens
\* to its sections, and meta.sections tells the truth about every one of them
\* that is configured: ok if and only if the field has entries, empty when
\* LinkedIn listed none, unavailable when no document could be read.  A
\* section that failed or came too late is never passed off as empty, also in
\* the result that is cached (service/profile.go:200-203, 306-358).
SectionsTruthful ==
  \A r \in Requests :
    LET core == call[<<r, "core">>].doc
    IN pc[r] = "done" /\ core \in CoreDocs =>
         IF ProfileError(core) # "none" THEN answer[r] = ProfileError(core)
         ELSE LET base == ParseProfile(core, r)
              IN /\ answer[r] = "ok"
                 /\ DOMAIN sections[r] = IF ProfileURN(core) = "" THEN {} ELSE Wanted
                 /\ \A f \in DOMAIN base \ {ProfileField(s) : s \in DOMAIN sections[r]} :
                      profile[r][f] = base[f]
                 /\ \A s \in DOMAIN sections[r] : SectionTruthful(r, s)

\* A backoff is a positive duration.  retryBackoff << attempt overflows for
\* many retries, and rand.Int64N panics on the bound that follows
\* (linkedin/client.go:229-230), inside the gate, where release would never be
\* called; but the deadline ends the call before the shift gets there.
BackoffPositive == \A o \in Ops : call[o].st = "backoff" => call[o].wait > 0

\* A request that asks LinkedIn is answered, though LinkedIn never replies,
\* the semaphore is full and its sections wait for each other's slots
\* (service/profile.go:182, 321, 335-340).
EveryRequestReturns == \A r \in Requests : pc[r] = "enter" ~> pc[r] = "done"
================================================================================
