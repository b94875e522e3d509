---------------------------- MODULE RequestPipeline ----------------------------
(***************************************************************************)
(* The HTTP API (internal/api) around the service: a request gets an id,   *)
(* is observed, recovered if it panics, audited, limited and handled, in   *)
(* this order; its record goes to the log and, later and perhaps never, to *)
(* the store that the administrators' usage query reads.                   *)
(*                                                                         *)
(* The requests of all clients run concurrently.  They share the rate      *)
(* limiter's map and the store.  What a profile request comes to in the    *)
(* service is free among what ServerLookup, CallerLookup and Retrieval     *)
(* allow, with the notes the service leaves on the request's event.        *)
(***************************************************************************)
EXTENDS ErrorCodes, RequestInputs, RateLimiter, UsageReport, TLC

CONSTANTS
  Requests,     \* numbered in the order they arrive
  Deployments,  \* a sequence of records, see below
  Tick          \* how far the clock advances

(***************************************************************************)
(* A deployment is an environment, whether the audit store opens, what     *)
(* each of its requests may be, how many of them are under way at a time   *)
(* at most, the time they have, the codes a retrieval fails with (a 401 of  *)
(* the API's own is none of them) and what the sections of a profile come  *)
(* to ("none": there is no URN to ask for them).                           *)
(***************************************************************************)

ASSUME PipelineAssumption ==
  /\ IsFiniteSet(Requests) /\ Requests = 1..Cardinality(Requests)
  /\ Tick \in Nat \ {0}
  /\ \A d \in DOMAIN Deployments :
       /\ DOMAIN Deployments[d].inputs \subseteq Requests
       /\ \A r \in DOMAIN Deployments[d].inputs : \A input \in Deployments[d].inputs[r] :
            /\ input.client \in STRING \ {""} /\ input.hops \in 0..Len(Proxies)
            /\ input.forwarded \in Seq(STRING)
            /\ input.window = Garbage \/ input.window \in Int
            /\ input.limit = Garbage \/ input.limit \in Int
       /\ Deployments[d].maxTime \in Nat
       /\ Deployments[d].errors \subseteq Codes \ {"unauthorized"}
       /\ Deployments[d].sections \subseteq {"ok", "empty", "unavailable", "none"}

VARIABLES
  deployment,  \* which of the deployments this is
  now,         \* the clock
  buckets, limiters,  \* the rate limiter
  allowance,   \* history: the bucket each client would have without evictions
  evicted,     \* history: the clients that lost a bucket that was not idle
  req,         \* the requests
  trail,       \* the audit records in the log
  pending,     \* those the audit writer has, and
  store        \* those it has stored

limiter == <<buckets, limiters, allowance, evicted>>
vars == <<deployment, now, limiter, req, trail, pending, store>>

\* The configuration each one runs with.
Configs ==
  [d \in DOMAIN Deployments |->
     [Load(Deployments[d].env) EXCEPT !.Sections = ProfileSections(@)]]

\* A setting that is read is a value of its type.
ASSUME ConfigAssumption ==
  \A d \in DOMAIN Deployments :
    /\ {Configs[d].TrustedProxyDepth, Configs[d].MaxRetries, Configs[d].RPS, Configs[d].Burst,
        Configs[d].Retention} \subseteq Int
    /\ {Configs[d].RateLimitEnabled, Configs[d].AuditEnabled} \subseteq BOOLEAN

config     == Configs[deployment]
inputs     == Deployments[deployment].inputs
requests   == DOMAIN inputs
together   == Deployments[deployment].together
maxTime    == Deployments[deployment].maxTime
storeOpens == Deployments[deployment].storeOpens
errors     == Deployments[deployment].errors

UsageQueries == <<"summary", "percentile", "outcomes", "profiles", "clients", "upstream">>

(***************************************************************************)
(* not yet arrived; at the limiter's map; holding a limiter; in the        *)
(* handler; at one of the usage queries; answered, with the audit          *)
(* middleware still to run; over.                                          *)
(***************************************************************************)
Points == {"idle", "limiter", "token", "handler", "answered", "done"} \cup ToSet(UsageQueries)

NoSections == <<>>

NewEvent ==
  [profileID |-> NoSlug, credential |-> [mode |-> "", fingerprint |-> <<>>], cached |-> FALSE,
   upstreamCalled |-> FALSE, upstreamOutcome |-> "", retries |-> 0,
   rateDecision |-> "allowed", errorClass |-> "", sections |-> NoSections]

NoResponse == [status |-> 0, code |-> ""]

Audited(path) ==
  path \in {"/v1/profile", "/v1/image"} /\ (config.AuditEnabled \/ storeOpens)

Limited(path) == path \in {"/v1/profile", "/v1/image"} /\ config.RateLimitEnabled

UsageServed == storeOpens /\ config.AdminKeys # <<>>

ClientOf(r) ==
  LET arrived == ForwardedBy(req[r].input.hops, req[r].input.forwarded, req[r].input.client)
  IN ClientIP(arrived.forwarded, arrived.remote, config.TrustedProxyDepth)

------------------------------------------------------------------------------
(* The program starts, with auditing that can open its store or not.        *)

Init ==
  /\ deployment \in DOMAIN Deployments
  /\ Starts(config)
  /\ storeOpens => config.AuditEnabled
  /\ now = 0
  /\ buckets = <<>> /\ limiters = <<>> /\ allowance = <<>> /\ evicted = {}
  /\ req = [r \in requests |-> [at |-> "idle"]]
  /\ trail = {} /\ pending = {} /\ store = {}

\* What observe counts and logs of a response.
Observed(r, status) == [route |-> RouteLabel(req[r].input.path), status |-> status]

\* What is remembered of a request that is over: the others have left nothing
\* that anything could be compared with.
Over(r, response) ==
  IF Audited(req[r].input.path)
  THEN [req[r] EXCEPT !.at = "done", !.response = response,
                      !.observed = <<Observed(r, response.status)>>]
  ELSE [at |-> "done"]

Goto(r, point) == req' = [req EXCEPT ![r].at = point]

\* The response is sent; the event is as it stands then.
Answer(r, status, code, event) ==
  req' = [req EXCEPT ![r].at = "answered", ![r].response = [status |-> status, code |-> code],
                     ![r].event = event]

\* writeError: the code on the event, and the status that goes with it.
WriteError(r, code, event) ==
  Answer(r, StatusFor(code), code, [event EXCEPT !.errorClass = code])

WriteOK(r, event) == Answer(r, 200, "", event)

\* requestID, observe and the audit middleware, up to the limiter.
Arrive(r) ==
  \E input \in inputs[r] :
    /\ req[r].at = "idle"
    /\ \A q \in requests : q < r => req[q].at # "idle"
    /\ Cardinality({q \in requests : req[q].at \notin {"idle", "done"}}) < together
    /\ req' = [req EXCEPT ![r] =
                 [at |-> IF Limited(input.path) THEN "limiter" ELSE "handler",
                  input |-> input, start |-> now, id |-> RequestID(input.id, ToString(r)),
                  event |-> NewEvent, response |-> NoResponse, holds |-> 0,
                  usage |-> <<>>, observed |-> <<>>]]
    /\ UNCHANGED <<deployment, now, limiter, trail, pending, store>>

------------------------------------------------------------------------------
(* The rate limiter: limiterFor under its lock, then Allow.                 *)

\* The limiters there is a reference to, with the map as it is left.
Held(left) ==
  {left[k].id : k \in DOMAIN left}
  \cup {req[q].holds : q \in {q \in requests : req[q].at = "token"}}

FindLimiter(r) ==
  /\ req[r].at = "limiter"
  /\ LET fresh == CHOOSE l \in 1..(Cardinality(Held(buckets)) + 1) : l \notin Held(buckets)
     IN \E left \in LimiterFor(buckets, ClientOf(r), fresh, now) :
          LET id == left[ClientOf(r)].id
          IN /\ buckets' = left
             /\ limiters' = [l \in Held(left) |-> IF l = fresh THEN Full(config.Burst) ELSE limiters[l]]
             /\ evicted' = evicted \cup (DOMAIN buckets \ (DOMAIN left \cup Idle(buckets, now)))
             /\ req' = [req EXCEPT ![r].at = "token", ![r].holds = id]
  /\ UNCHANGED <<deployment, now, allowance, trail, pending, store>>

Admit(r) ==
  /\ req[r].at = "token"
  /\ Allows(limiters[req[r].holds])
  /\ limiters' = [limiters EXCEPT ![req[r].holds] = @ - Token]
  /\ LET Own(c) == IF c \in DOMAIN allowance THEN allowance[c] ELSE Full(config.Burst)
     IN allowance' = [c \in DOMAIN allowance \cup {req[r].input.client} |->
                        IF c = req[r].input.client THEN Own(c) - Token ELSE Own(c)]
  /\ Goto(r, "handler")
  /\ UNCHANGED <<deployment, now, buckets, evicted, trail, pending, store>>

\* Mutant of RejectRate: the limiter is the outer layer, the audit middleware
\* the inner one.
RejectRateUnaudited(r) ==
  /\ req[r].at = "token"
  /\ ~Allows(limiters[req[r].holds])
  /\ req' = [req EXCEPT ![r] = Over(r, [status |-> 429, code |-> "rate_limited"])]
  /\ UNCHANGED <<deployment, now, limiter, trail, pending, store>>

RejectRate(r) ==
  /\ req[r].at = "token"
  /\ ~Allows(limiters[req[r].holds])
  /\ WriteError(r, "rate_limited", [req[r].event EXCEPT !.rateDecision = "ip_limited"])
  /\ UNCHANGED <<deployment, now, limiter, trail, pending, store>>

------------------------------------------------------------------------------
(***************************************************************************)
(* What a profile request may come to in the service, with what it notes   *)
(* on the event: an error code, "" for a profile; whether the profile came *)
(* from the cache; whether the gate let the retrieval through, and how it  *)
(* ended.  A request that waited for another one's retrieval shares its    *)
(* result, and notes nothing.                                              *)
(***************************************************************************)
GateErrors == {"upstream_unavailable", "upstream_rate_limited"}

Unaided(code, outcome) ==
  [code |-> code, notes |-> [upstreamOutcome |-> outcome]]

Hit == [code |-> "", notes |-> [cached |-> TRUE]]

Retrieved(code, outcome, retries) ==
  [code |-> code,
   notes |-> [upstreamCalled |-> TRUE, upstreamOutcome |-> outcome, retries |-> retries]]

\* The retries of the base profile and of every section count.
Fetched ==
  {Retrieved("", "ok", n) : n \in 0..config.MaxRetries * (1 + Len(config.Sections))}

Failed == {Retrieved(code, code, n) : code \in errors, n \in 0..config.MaxRetries}

FailedForCaller ==
  {IF code = "upstream_auth_failed"
   THEN Retrieved("caller_session_invalid", "caller_session_auth_failed", n)
   ELSE Retrieved(code, code, n) : code \in errors, n \in 0..config.MaxRetries}

ServerLookups ==
  {Hit, Unaided("profile_not_found", "")}
  \cup {Unaided(code, "") : code \in {""} \cup errors \cup GateErrors}
  \cup Fetched \cup Failed

CallerLookups ==
  {Unaided("caller_session_invalid", "caller_session_expired")}
  \cup {Unaided(code, "") : code \in GateErrors}
  \cup Fetched \cup FailedForCaller

Lookups(mode) == IF mode = "server_session" THEN ServerLookups ELSE CallerLookups

\* The outcomes of the sections asked for, in the order of their names.
SectionLists ==
  LET statuses == Deployments[deployment].sections
  IN [ToSet(config.Sections) -> statuses \ {"none"}]
     \cup (IF "none" \in statuses THEN {NoSections} ELSE {})

\* What the service notes replaces what the event says.
Noted(event, notes) ==
  [f \in DOMAIN event |-> IF f \in DOMAIN notes THEN notes[f] ELSE event[f]]

Handling(r, path) == req[r].at = "handler" /\ req[r].input.path = path

CredentialIn(r) ==
  LET in == req[r].input
  IN CredentialOf(in.liAt, in.jsession, in.userAgent, config.AllowCallerSession)

RefuseProfile(r) ==
  /\ Handling(r, "/v1/profile")
  /\ ParseURL(req[r].input.url) = NoSlug \/ CredentialIn(r) = <<>>
  /\ WriteError(r, "invalid_request", req[r].event)
  /\ UNCHANGED <<deployment, now, limiter, trail, pending, store>>

LookUpProfile(r) ==
  /\ Handling(r, "/v1/profile")
  /\ ParseURL(req[r].input.url) # NoSlug /\ CredentialIn(r) # <<>>
  /\ LET cred == CredentialIn(r)[1]
     IN \E found \in Lookups(cred.mode), sections \in SectionLists :
          LET noted == Noted([req[r].event EXCEPT !.profileID = ParseURL(req[r].input.url),
                                                  !.credential = cred], found.notes)
          IN IF found.code = "" THEN WriteOK(r, [noted EXCEPT !.sections = sections])
             ELSE WriteError(r, found.code, noted)
  /\ UNCHANGED <<deployment, now, limiter, trail, pending, store>>

\* Only LinkedIn's media host is asked, and only a small enough image passed on.
ProxyImage(r) ==
  /\ Handling(r, "/v1/image")
  /\ \/ /\ req[r].input.image # "https://media.licdn.com"
        /\ WriteError(r, "invalid_request", req[r].event)
     \/ /\ req[r].input.image = "https://media.licdn.com"
        /\ \/ WriteError(r, "upstream_unavailable", req[r].event)
           \/ WriteOK(r, req[r].event)
  /\ UNCHANGED <<deployment, now, limiter, trail, pending, store>>

\* Liveness, readiness, metrics and the files of the UI.
ServeOther(r) ==
  /\ \/ Handling(r, "/healthz") /\ Answer(r, 200, "", req[r].event)
     \/ \E status \in {200, 503} :
          Handling(r, "/readyz") /\ Answer(r, status, "", req[r].event)
     \/ \E path \in {"/metrics", "/index.html"}, status \in {200, 404} :
          Handling(r, path) /\ Answer(r, status, "", req[r].event)
  /\ UNCHANGED <<deployment, now, limiter, trail, pending, store>>

------------------------------------------------------------------------------
(* The usage query: one query of the store after the other.                 *)

AskUsage(r) ==
  /\ Handling(r, "/admin/usage")
  /\ LET in    == req[r].input
         valid == ValidKey(ExtractAPIKey(in.apiKey, in.bearer), config.AdminKeys)
     IN \/ ~UsageServed /\ Answer(r, 404, "", req[r].event)
        \/ UsageServed /\ ~valid /\ WriteError(r, "unauthorized", req[r].event)
        \/ /\ UsageServed /\ valid
           /\ req' = [req EXCEPT ![r].at = "summary",
                        ![r].usage = [since |-> now - ParseWindow(in.window),
                                      limit |-> ParseLimit(in.limit), until |-> now,
                                      answers |-> <<>>]]
  /\ UNCHANGED <<deployment, now, limiter, trail, pending, store>>

Query(name, rows, limit) ==
  CASE name = "summary"    -> Totals(rows)
    [] name = "percentile" -> Percentile(rows, 95)
    [] name = "outcomes"   -> Outcomes(rows)
    [] name = "profiles"   -> TopProfiles(rows, limit)
    [] name = "clients"    -> TopClients(rows, limit)
    [] name = "upstream"   -> TopUpstreamClients(rows, limit)

QueryAnswers(r) ==
  /\ req[r].at \in ToSet(UsageQueries)
  /\ LET asked  == req[r].usage
         n      == Len(asked.answers) + 1
         last   == n = Len(UsageQueries)
         answer == Query(UsageQueries[n], Within(store, asked.since), asked.limit)
     IN req' = [req EXCEPT
                  ![r].usage = [asked EXCEPT !.answers = Append(@, answer), !.until = now],
                  ![r].at = IF last THEN "answered" ELSE UsageQueries[n + 1],
                  ![r].response = IF last THEN [status |-> 200, code |-> ""] ELSE @]
  /\ UNCHANGED <<deployment, now, limiter, trail, pending, store>>

QueryFails(r) ==
  /\ req[r].at \in ToSet(UsageQueries)
  /\ WriteError(r, "internal_error", req[r].event)
  /\ UNCHANGED <<deployment, now, limiter, trail, pending, store>>

------------------------------------------------------------------------------
(***************************************************************************)
(* The way out.  The audit middleware takes its record after the handler   *)
(* has returned; a handler that panics does not return, and the recoverer, *)
(* outside the audit middleware, answers with an internal error.  No       *)
(* handler is known to panic: this is what the recoverer is there for.     *)
(***************************************************************************)
Record(r) ==
  LET event == req[r].event
      own   == [req |-> r, ts |-> req[r].start, requestID |-> req[r].id,
                clientIP |-> ClientOf(r), status |-> req[r].response.status,
                latency |-> now - req[r].start]
  IN [f \in DOMAIN own \cup DOMAIN event |-> IF f \in DOMAIN own THEN own[f] ELSE event[f]]

\* The table has no column for the sections.
Row(record) == Restrict(record, DOMAIN record \ {"sections"})

Finish(r) ==
  /\ req[r].at = "answered"
  /\ LET records == IF Audited(req[r].input.path) THEN {Record(r)} ELSE {}
     IN /\ trail' = trail \cup records
        /\ pending' = IF storeOpens THEN pending \cup records ELSE pending
  /\ req' = [req EXCEPT ![r] = Over(r, req[r].response)]
  /\ UNCHANGED <<deployment, now, limiter, store>>

InternalError == [status |-> StatusFor("internal_error"), code |-> "internal_error"]

Panic(r) ==
  /\ req[r].at = "handler"
  /\ req' = [req EXCEPT ![r] = Over(r, InternalError)]
  /\ UNCHANGED <<deployment, now, limiter, trail, pending, store>>

\* The audit writer stores a record or drops it, and purges the old ones.
Settle ==
  /\ \E record \in pending :
       /\ pending' = pending \ {record}
       /\ store' \in {store, store \cup {Row(record)}}
  /\ UNCHANGED <<deployment, now, limiter, req, trail>>

Purge ==
  /\ \E row \in store : row.ts < now - config.Retention
  /\ store' = {row \in store : row.ts >= now - config.Retention}
  /\ UNCHANGED <<deployment, now, limiter, req, trail, pending>>

\* Time passes, but no request stays between the limiter's two locks for it.
Advance ==
  /\ now + Tick <= maxTime
  /\ \A r \in requests : req[r].at # "token"
  /\ now' = now + Tick
  /\ LET Later(fills) ==
           [x \in DOMAIN fills |-> Refilled(fills[x], config.RPS, config.Burst, Tick)]
     IN limiters' = Later(limiters) /\ allowance' = Later(allowance)
  /\ UNCHANGED <<deployment, buckets, evicted, req, trail, pending, store>>

Handle(r) ==
  \/ RefuseProfile(r) \/ LookUpProfile(r)
  \/ ProxyImage(r) \/ ServeOther(r)
  \/ AskUsage(r) \/ QueryAnswers(r) \/ QueryFails(r)

Next ==
  \/ \E r \in requests :
       \/ Arrive(r)
       \/ FindLimiter(r) \/ Admit(r) \/ RejectRate(r)
       \/ Handle(r)
       \/ Finish(r) \/ Panic(r)
  \/ Settle \/ Purge \/ Advance

Spec == Init /\ [][Next]_vars

------------------------------------------------------------------------------
(* Properties.                                                              *)

Arrived == {r \in requests : req[r].at # "idle" /\ req[r] # [at |-> "done"]}

(***************************************************************************)
(* Types and bounds: the limiter's map never outgrows its cap, no bucket   *)
(* holds more than the burst, and every answer has a code and status that  *)
(* go together (internal/api/ratelimit.go:27-61, errors.go:27-46).         *)
(***************************************************************************)
TypeOK ==
  /\ now \in 0..maxTime
  /\ Cardinality(DOMAIN buckets) <= MaxKeys
  /\ \A k \in DOMAIN buckets :
       buckets[k].id \in DOMAIN limiters /\ buckets[k].lastSeen \in 0..now
  /\ \A l \in DOMAIN limiters : limiters[l] \in 0..Full(config.Burst)
  /\ \A r \in requests : req[r].at \in Points
  /\ \A r \in Arrived :
       /\ req[r].response.code \in Codes \cup {""}
       /\ req[r].response.code # "" =>
            req[r].response.status = StatusFor(req[r].response.code)
       /\ req[r].at = "done" =>
            req[r].observed = <<Observed(r, req[r].response.status)>>
  /\ \A record \in trail : record.req \in Arrived /\ record.latency \in 0..now
  /\ pending \subseteq trail /\ store \subseteq {Row(record) : record \in trail}

\* What there is to read of the request's client is what the proxies wrote.
WellAddressed(input) ==
  \/ input.hops = config.TrustedProxyDepth
  \/ input.hops <= config.TrustedProxyDepth /\ input.forwarded = <<>>

(***************************************************************************)
(* Behind as many proxies as are trusted, a request is limited and         *)
(* recorded under its own client's address, whatever X-Forwarded-For it    *)
(* brought along; behind fewer, if it brought none                         *)
(* (internal/api/middleware.go:86-112, ratelimit.go:82, audit.go:34).      *)
(***************************************************************************)
AddressedAsItself ==
  \A r \in Arrived : WellAddressed(req[r].input) =>
    /\ req[r].at = "token" =>
         \E k \in DOMAIN buckets \cup evicted : k = req[r].input.client
    /\ \A record \in trail : record.req = r => record.clientIP = req[r].input.client

(***************************************************************************)
(* A client that never lost a bucket it was using has exactly the tokens   *)
(* its requests so far have left it: dropping idle buckets gives nobody a  *)
(* second burst and takes nothing away, as long as a bucket fills up in    *)
(* the time it takes to become idle, which configuration does not check    *)
(* (internal/api/ratelimit.go:48-78).  A full map costs an arbitrary       *)
(* client its bucket, and that client is what the property leaves out.     *)
(***************************************************************************)
LimitedAsConfigured ==
  /\ Full(config.Burst) <= config.RPS * IdleTTL
  /\ \A input \in UNION Range(inputs) : WellAddressed(input)
  => \A c \in DOMAIN allowance \ evicted :
       allowance[c] = IF c \in DOMAIN buckets THEN limiters[buckets[c].id]
                      ELSE Full(config.Burst)

\* A request to the API, with auditing, that has got its answer.
Finished(r) == req[r].at = "done" /\ Audited(req[r].input.path)

RecordsOf(r) == {record \in trail : record.req = r}

\* The answer is the one for a handler that panicked.
Unhandled(r) == req[r].event.errorClass = "" /\ req[r].response.code = "internal_error"

\* What a record says of its request.
Agrees(record, r) ==
  /\ record.status = req[r].response.status /\ record.errorClass = req[r].response.code
  /\ (record.errorClass = "") = (record.status = 200)
  /\ record.requestID = req[r].id
  /\ record.rateDecision = "ip_limited" <=> record.status = 429 /\ record.profileID = ""
  /\ record.profileID = "" => ~record.upstreamCalled /\ ~record.cached
  /\ record.cached => /\ record.status = 200
                      /\ ~record.upstreamCalled /\ record.retries = 0
  /\ record.upstreamCalled => record.upstreamOutcome # ""
  /\ record.retries > 0 => record.upstreamCalled

(***************************************************************************)
(* The audit trail tells what happened: a request to the API that was      *)
(* answered by the limiter or a handler leaves one record, with the        *)
(* status, the error and the id the client was sent; one the limiter       *)
(* turned away did nothing else; what came from the cache did not go to    *)
(* LinkedIn, and what went there says how it ended.  No request leaves     *)
(* two records, or one before it is over.  Left out is whether one whose   *)
(* handler panicked leaves any: the code writes none, the documents speak  *)
(* of every request (docs/auditing.md:11, docs/security.md:105)            *)
(* (internal/api/audit.go:21-46, router.go:48-56, errors.go:51-65,         *)
(* internal/service/profile.go:150-252).                                   *)
(***************************************************************************)
TrailMatches ==
  \A r \in Arrived :
    /\ \/ Cardinality(RecordsOf(r)) = 1
       \/ Cardinality(RecordsOf(r)) = 0 /\ (Finished(r) => Unhandled(r))
    /\ \A record \in RecordsOf(r) : Finished(r) /\ Agrees(record, r)

(***************************************************************************)
(* The figures of a usage report are of one moment and fit together,       *)
(* whatever was recorded: hits, misses and rejections are different        *)
(* requests, and so are hits, rejections and what was not found or failed; *)
(* every call to LinkedIn is a miss; an administrator's own mistakes do    *)
(* not count; and no figure exceeds what the API ever answered             *)
(* (internal/audit/sqlite.go:191-225, internal/api/usage.go:46-80).        *)
(***************************************************************************)
TotalsConsistent ==
  \A r \in Arrived :
    LET usage  == req[r].usage
        Answered(Op(_)) == Cardinality({record \in trail : Op(record)})
        totals == usage.answers[1]
    IN usage # <<>> /\ usage.answers # <<>> =>
       /\ totals.cacheHits + totals.cacheMisses + totals.rateLimited <= totals.total
       /\ totals.cacheMisses = totals.upstreamHits
       /\ totals.notFound + totals.serverErrors + totals.cacheHits + totals.rateLimited
            <= totals.total
       /\ totals.authFailures = 0
       /\ totals.total <= Cardinality(trail)
       /\ totals.cacheHits <= Answered(Cached) /\ totals.upstreamHits <= Answered(Called)

(***************************************************************************)
(* A usage report is one query after the other while records come and go,  *)
(* yet its lists fit the figures: none is longer than asked for; and,      *)
(* unless a purge reached into the window, the calls counted first are     *)
(* among the outcomes and the clients counted later                        *)
(* (internal/api/usage.go:46-80, internal/audit/sqlite.go:226-295).        *)
(***************************************************************************)
ListsConsistent ==
  \A r \in Arrived :
    LET usage  == req[r].usage
        totals == usage.answers[1]
    IN usage # <<>> /\ Len(usage.answers) = Len(UsageQueries) =>
       /\ \A i \in 4..6 : Len(usage.answers[i]) <= usage.limit
       /\ usage.until - config.Retention <= usage.since =>
            /\ SumOf(usage.answers[3]) >= totals.upstreamHits
            /\ Cardinality({record.clientIP : record \in trail}) <= usage.limit =>
                 /\ CountSum(usage.answers[5]) >= totals.total
                 /\ CountSum(usage.answers[6]) >= totals.upstreamHits
================================================================================
