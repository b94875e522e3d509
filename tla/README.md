# Verification of linkedin-api

TLA+ specifications of the service in `src/`, model-checked with TLC, and proofs
checked with TLAPS. `PROJECT.json` maps every definition to the source lines it
stands for and lists the runs, the theorems, the hazards of the code and what was
found. Line numbers in the modules refer to `src/internal/...`.

## 1. The system

The service answers `GET /v1/profile?url=...` with a LinkedIn profile. A request
runs on the *server session* (the operator's cookies) or on a *caller session*
(cookies sent with the request).

    request -> requestID -> observe -> recoverer -> audit -> rate limiter -> handler
                                                                   |
                               ProfileService.GetProfile  <--------+
         server session: profile cache -> negative cache -> singleflight -> retrieve
         caller session: callerHealth ------------------------------------> retrieve
                               retrieve:  Guard.Enter -> LinkedIn client -> release
                                          then the sections, each through the Guard
         after the response:   audit record -> Writer's channel -> batches -> SQLite

| component (source) | state | operations | what is hard | what makes it correct |
|---|---|---|---|---|
| Upstream guard (`upstream/guard.go`) | two circuit breakers, a token bucket, a semaphore, two gauges | `Enter`, the release function | three separately locked steps per call; late results; cooldowns against calls that are still out; a probe that another limit turns away | slots and gauges are exact; one probe at a time and only its result closes; cooldowns end; nothing stays blocked for ever |
| Server lookups (`service/profile.go`, `cache/`) | profile cache, negative cache, singleflight calls | `getServer`, `retrieve`; `Get`, `Set`, `Blocked`, `Remember` | lookups, expiry, eviction and retrievals interleave; followers depend on a leader | one retrieval per profile; caches bounded; fresh entries stay; no stale "missing", short of an eviction; everyone is answered |
| Caller lookups (`service/profile.go`, `service/callerhealth.go`) | rejected sessions with an expiry, a gauge | `getCaller`, `unhealthy`, `markUnhealthy`, `clear` | uncoalesced requests of one session race | isolation of sessions; a mark keeps traffic away; bounded memory; gauge |
| Section enrichment (`service/profile.go`) | semaphore, results | `enrich`, `enrichSection` | fan-out against a deadline and the guard | a section's failure stays its own; slots come back |
| LinkedIn client (`linkedin/`) | none between calls | `get`, `attempt`, `sleepBackoff` | retries, backoff and one deadline | at most `maxRetries` retries, only of what may be retried, within the deadline |
| Audit writer (`audit/writer.go`) | channel, batch, store | `Record`, `run`, `flush`, `drain`, `purge`, `Close` | full buffer, failing store, shutdown racing producers | each record is written, counted as dropped, or lost with a failed batch |
| Audit store (`audit/sqlite.go`), usage query (`api/usage.go`) | table of records | `Insert`, `Purge`, the six queries of a report | inserts and purges between the queries of one report | retention, all-or-nothing batches, figures that fit together |
| Lifecycle (`cmd/server/main.go`) | readiness, server, writer | start, signal, `Shutdown`, flush | timeouts in a row at shutdown | buffered records survive a graceful stop |
| Request pipeline (`api/`) | the request's audit event | middleware chain, handlers | rejections, errors and panics in the middle of the chain | what a request leaves in the trail is true of it; and nothing is left twice (a request whose handler panics leaves nothing: section 5) |
| Per-client rate limiter (`api/ratelimit.go`) | bounded map of buckets | `limiterFor`, `middleware` | eviction at the cap | bounded; a client's burst |
| Client address (`api/middleware.go`) | none | `clientIP` | fewer hops than configured | never an address the client made up, with the right depth |
| Profile parsing (`linkedin/parse/`) | none | `Profile`, `ApplySection` | documents with missing, malformed and repeated items | the page's order, nothing lost, nothing made up |
| Configuration (`config/`), URLs (`urlx/`), credentials (`api/credential.go`, `api/apikey.go`) | none that outlives a request | `Load`, `Validate`, `Parse`, `callerCredential`, `valid` | many small checks whose combination decides | what is refused never gets past the handler |
| Image proxy, health, UI, deployment | none | | | |

Inside one process everything but the audit database is in memory: a restart
forgets breakers, caches and marks, and there is no replication to model.

## 2. The modules

| module | models | extends or uses |
|---|---|---|
| `SubBreaker` | type `subBreaker`: blocking, probing, tripping, closing, as operators on records | |
| `Guard` | `Guard.Enter`, its release function, the clock, the bucket's refill | `SubBreaker` |
| `CircuitBreaker` | abstract: what each of the two breakers promises | refined by `Guard` (`CB`, `SB`) |
| `ExpiringMap` | the bounded expiring maps: lookup, put, the two eviction rules, ageing | |
| `ServerLookup` | `getServer` and `retrieve` over both caches and singleflight | `ExpiringMap` |
| `CallerLookup` | `getCaller`, `callerHealth` and its gauge | `ExpiringMap` |
| `AuditWriter` | `audit.Writer` and the end of `main`: channel, batches, store, shutdown | |
| `AuditLog` | abstract: a bounded queue whose records are written, failed or dropped | refined by `AuditWriter` (`AL`) |
| `ErrorCodes` | the error codes: from LinkedIn's statuses and the transport's errors, whether to retry, the API's status | |
| `Parsing` | `linkedin/parse`: both documents and the eight section decoders, as operators | |
| `LinkedInClient` | one call to LinkedIn: attempts, backoff with its overflow, deadline, as operators on records | `ErrorCodes` |
| `Retrieval` | `fetchCore`, `enrich`, `enrichSection` with their calls, the gate's slots and the semaphore | `LinkedInClient`, `Parsing` |
| `Configuration` | `config.Load`, `Validate`, `profileSections` | |
| `RequestInputs` | `clientIP`, request ids, profile URLs, credentials, admin keys, the usage query's parameters | `Configuration` |
| `RateLimiter` | `limiterFor`, `evictLocked` and the token buckets, as operators on two tables | |
| `UsageReport` | the queries of the usage endpoint over a set of rows | |
| `RequestPipeline` | the middleware chain, the handlers, the audit trail and its store, for concurrent requests | `ErrorCodes`, `RequestInputs`, `RateLimiter`, `UsageReport` |
| `SubBreakerProofs`, `ExpiringMapProofs` | lemmas about the operators on breakers and on expiring maps | the module of that name, `TLAPS` |
| `GuardProofs`, `ServerLookupProofs`, `CallerLookupProofs`, `AuditWriterProofs`, `RetrievalProofs`, `RequestPipelineProofs` | the theorems about these components | the module of that name and, for the lookups and the guard, the lemmas |
| `MCGuard`, `MCServerLookup`, `MCCallerLookup`, `MCAuditWriter`, `MCRetrieval`, `MCRequestPipeline` | what the `.cfg` files need: symmetry sets, documents, deployments | |

**Guard.** A goroutine's `pc` says where in `Enter` or the release function it is.
The steps are those the code makes atomic: `blocked` (`Admit`,
`RejectCircuitOpen`) and `record` (`Record`) hold the breaker's mutex;
`limiter.Allow` (`Allow`, `RejectRate`) and the send on the semaphore (`Acquire`,
`RejectConcurrency`) are steps of their own, and so is the receive that gives the
slot back (`FreeSlot`). A rejection by limiter or semaphore leaves the breakers as
they are, as the code does. `openUntil` is kept as the ticks that are left; LinkedIn's
answers are `Outcomes`, what `classify` and `retryAfterOf` tell apart. The history
variable `probe` says which breaker's probe a call is; no guard reads it.

**ServerLookup.** One action per locked region: `TTLCache.Get` has two (the read
lock, and the second look under the write lock, `GetExpire`). `Store` and `Remember`
include the eviction the code makes first: of the soonest to expire in one, of any
in the other. `Return` is the end of singleflight's call: the leader and everybody
who waits get its answer. The history variables `found`, `evicted`,
`stillFound` and `wasEvicted` only serve `MissingIsCurrent`: which profiles the last
retrieval found, which of them the cache gave up while they were fresh, and the same for
each request since it began. Not in this module: the guard behind `GateAdmits` and
`GateRefuses`, enrichment (it changes none of this state and takes any time between
`Fetched` and `Store`; it is in `Retrieval`), counters, and disabled caches.

**CallerLookup.** `unhealthy`, `markUnhealthy`, `clear` and `tracked` are one step
each; the gauge is read in one and set in another. Fingerprints of caller sessions
are never empty (`linkedin/credential.go`), so the code's early returns for an empty
one are not modelled.

**AuditWriter.** Three kinds of actors: the handlers, which record without blocking;
the writer, whose `select` is one action per case and whose `flush` is a
transaction that begins and then commits or fails; and `main`, from the signal
through `srv.Shutdown` and `Writer.Close` to the exit. When `main` returns the
process is gone and every other action is disabled. Handlers are taken to return
normally, and which rows a purge deletes is left out: both are in `RequestPipeline`.

**Retrieval.** What lies between `GateAdmits` and `Store` in `ServerLookup`, or
`GateAdmits` and the end in `CallerLookup`. Each fetch, the base profile's and each
section's, is a record of `LinkedInClient`; an attempt is one step that ends in a
status, a body, an unreadable body or a transport error, and a backoff one that
elapses or is cut short. A section's goroutine takes the semaphore, enters the gate,
fetches, releases and applies, in this order, and leaves at every early return of
`enrichSection`; `select` may take the semaphore although the context has ended. A
request's context ends by its deadline or because the client left, at any time; each
call has a deadline of its own inside it. `CallTimesOut` and `ContextEnds` only mark
the contexts: what a call makes of it is its next step. The gate counts slots; its
limiter and its breakers (module `Guard`) may refuse at any time.

**Parsing.** Documents are small records of what the decoders look at: items with or
without a URN, of the right types or not, dates without a year, texts that are empty,
blank, or HTML entities that stand for something else. `json.Unmarshal`, and the text
of the URLs that are put together, are left out. `strings.TrimSpace` removes one blank
from the full name where `full_name` keeps the list of its words.

**Configuration, RequestInputs.** An environment maps variables to parsed values or
to `Garbage`; a URL is its length class, scheme, labels of its host and parts of its
path; a header is empty, well formed, or of the kind a check rejects. `ForwardedBy` is
external: what reverse proxies make of `X-Forwarded-For`.

**RequestPipeline.** A request's `at` says where in the chain it is. The steps are
those other requests can come between: `Arrive` (request id, `observe`, a new audit
event), `FindLimiter` (`limiterFor` under its lock, with the eviction), `Admit` or
`RejectRate` (`Allow`, later), the handler, each of the usage report's queries,
`Finish` (the audit record, the log, the writer's queue, `observe`'s observation) or
`Panic` (through the recoverer, past the audit middleware). What a profile lookup comes
to, and what it notes on the event, is any of `ServerLookups` or `CallerLookups`:
those are the outcomes `ServerLookup`, `CallerLookup` and `Retrieval` allow. `Settle`
is the writer in one step, for each record (`AuditWriter` has its inside). The history
variables `allowance` and `evicted` say what each client's bucket would be without
evictions, and who lost one in use.

Definitions marked "Mutant of ..." are used by no specification: each is a plausible
slip in the definition below it, and the property named in `PROJECT.json` fails with it.

## 3. The runs

| run | cfg | bounds | what it shows |
|---|---|---|---|
| `guard_safety` | `MCGuard.cfg` | 3 goroutines, 2 slots, bucket of 2, thresholds 2, cooldowns 3, calls up to 2 ticks, Retry-After 5, 4 strikes | books, gauges and breakers stay right; probes are alone and alone close; a lost probe is lost for good; both breakers implement `CircuitBreaker` |
| `guard_live` | `MCGuardLive.cfg` | 2 goroutines, 1 slot, calls may last as long as a cooldown | cooldowns end; a probe that reaches LinkedIn is resolved |
| `guard_wedge` | `MCGuardWedge.cfg` | 2 goroutines, 1 slot, bucket of 1 | finding: a session probe turned away by limiter or semaphore is never resolved |
| `guard_retry_after` | `MCGuardRetryAfter.cfg` | 2 goroutines, threshold 1 | finding: a late failure shortens a Retry-After |
| `guard_double` | `MCGuardDouble.cfg` | the default thresholds 5 and 2 and the default 4 slots | finding: the session cooldown doubles without a probe |
| `server_lookup` | `MCServerLookup.cfg` | 2 requests, 2 profiles, room for 1, TTLs 2 and 1 | caches, negative cache and coalescing agree, a profile found and still cached is not refused; every request is answered |
| `caller_lookup` | `MCCallerLookup.cfg` | 3 requests, 3 sessions, 2 marks, TTL 1 | isolation of sessions, marks last, traffic of a marked session stops |
| `audit_writer` | `MCAuditWriter.cfg` | 3 requests, buffer of 1, batches of 2 | every record is accounted for and settles; a stop that meets no deadline loses none; a signal ends the process; the writer implements `AuditLog` |
| `retrieval` | `MCRetrieval.cfg` | 1 or 2 requests, 2 gate slots and 2 semaphore slots, up to 3 sections of all 8, up to 5 retries, durations of 5 bits | no slot is lost on any early return; what LinkedIn settles is final and only LinkedIn settles it; every section's status is true and its entries are the page's; no backoff overflows; every request returns |
| `request_pipeline` | `MCRequestPipeline.cfg` | twelve deployments, below | a client is limited and recorded under its own address, gets the burst and rate that are configured, and leaves one true record if no handler panics; usage reports are consistent |
| `audit_shutdown` | `MCAuditShutdown.cfg` | 2 requests | finding: a slow request makes the shutdown skip the final flush |
| `caller_gauge` | `MCCallerGauge.cfg` | 1 request, 1 session | finding: the gauge counts sessions that are not fast-failed any more |

*Why the bounds are enough.* Three goroutines for two slots make both rejections
possible while two calls are inside, one of them the probe or a straggler. Four
strikes reach the end of the doubling. A Retry-After longer than a cooldown makes
the order of two failures matter. One slot in a map of the server lookups and two
profiles make every store of a second key an eviction, and two requests are a leader
and a follower, or a reader and a writer. What `FreshProfilesStay` says of the entries an
eviction keeps needs room for two: that part is the theorem's, which holds for every cap. A third caller session is needed to have
one marked, one evicted and one arriving. A buffer of one and batches of two make
records wait in both places and overflow the buffer with the third. Every counter is bounded by the code
itself: failures by the threshold, strikes by the cap, tokens by the burst, times by
their start value (`left`, the ticks of a map entry), `age` by `OpTimeout`.

`MCRetrieval` starts from one of several configurations: every pair of sections for one
request, so that every decoder meets every other; three sections for two slots; two
sections with a retry each; two requests that share the slots; and five retries with a
deadline that has time for two backoffs. `MaxDuration` is 8 instead of 2^63 - 1, so a
fourth doubling would overflow; `ClientAssumption` asks for no more room than that.
What keeps the backoff positive is the deadline alone, and the mutant without it
overflows. The page in `MCSectionDocs` lists its items out of order, one of them twice,
one that is missing, one with wrong types and one without a URN.

`MCRequestPipeline` has twelve deployments, each an environment and what its requests
may be: six with one request of every kind, through every check: with auditing, with a
store that does not open, without auditing and caller sessions, and three that must not
start (a burst of 0, an unknown section, production without a session); one with four
requests of three clients for a limiter of two buckets (`MaxKeys` is 2 instead of 10000,
`IdleTTL` one second instead of ten minutes), two under way at a time, while two ticks of
0.75 s pass; two with a report on three requests,
one of them with records that grow old and are purged during the report; three with
every number of proxies, trusted and real, and every header a client may send along.
Three clients for two buckets are what it takes to evict a bucket that is in use, and
a tick shorter than `IdleTTL` what it takes to have one idle and one not. Requests are
numbered in the order they arrive, and one that is over and that nothing is recorded
of is forgotten: neither removes a behaviour, only names for it. A rate and a burst of
one make a bucket empty after one request and full again after one second.
`LimitedAsConfigured` needs a bucket to fill within `IdleTTL`; its antecedent says so,
and that the proxies are as many as are trusted.

*Timing.* One clock ticks for everybody. It does not tick past a call that has
been inside for `OpTimeout`: every call runs under a deadline
(`linkedin/client.go:111`, `service/profile.go:182`). Whether calls are shorter than
the cooldowns (`ShortCalls`) is *not* assumed by the module: it holds for the default
settings (10 s against 30 s and 5 min) but configuration validates no such thing.
The properties that need it say so; `guard_live` runs without it.

*Fairness.* `Proceed(p)`: a goroutine inside the guard runs on, since its steps do
not block and its call has a deadline. `Tick` and `Refill`: time passes and the
bucket fills with it. `BusySpec` adds that requests in both modes which can be
admitted are at some point, which `guard_wedge` needs: without it a probe could go
unresolved because nobody asks. `ServerLookup` assumes the same of `Advance(r)`;
who waits is enabled by its leader's `Return`. No request is assumed to arrive there.
In `AuditWriter` the writer and the stopping `main` run on, because each call to
the store and each wait of the shutdown has a timeout, and the flush ticker ticks;
`TakeRecord`, `TakeFlush` and `TakeDone` are strongly fair because Go's `select` picks
at random among the cases that are ready. Nothing is assumed of handlers and signals.
`Retrieval` assumes that the profile deadline passes, as a timer does
(`service/profile.go:182`), and that some goroutine of a request which can go on
does; a call returns once its context has ended. Nothing is assumed of LinkedIn: an
attempt need never be answered. `RequestPipeline` has safety properties only.

Deadlock is checked except in `AuditWriter`, where the process really ends, and in
`Retrieval` and `RequestPipeline`, whose requests are finitely many and all end:
elsewhere the clock can tick, or a call that has reached its deadline can return.

## 4. The proofs

`SubBreakerProofs` has the lemmas about the record operators: what a trip, a close
and a report leave behind, and that all of them keep a breaker `WellFormed`.
`GuardProofs` proves, for every number of goroutines, all settings that
configuration accepts and a doubling cap of 1 to 4 (the code's is 4):

| theorem | states | assumes |
|---|---|---|
| `TypeCorrect`, `SlotsAlwaysHeld`, `GaugesAlwaysTruthful`, `BreakersAlwaysCoherent` | the invariants of the same names as the run's | `GuardAssumption` |
| `WedgedIsForever` | a lost probe is never resolved | `GuardAssumption` |
| `GeneralProbeAlwaysAlone`, `SessionProbeAlwaysAlone` | a probe has no company | `ShortCalls` too |
| `ProbeAlwaysDecides` | only the probe's result closes | `ShortCalls` too |
| `BreakersImplementCircuitBreaker` | the refinement of `CircuitBreaker`, by each breaker | `ShortCalls` too |

*The argument.* `Sound` collects types, the slot count, the gauges and, for each
breaker, `WellFormed`; it is inductive by itself. The exclusiveness of a probe is
not: nothing in the code looks at who is still out when the cooldown is over. It
follows from time. `Exclusive` strengthens it with `BackInTime`: while a breaker is
open, each call it gates, the probe excepted, has less time left to its deadline
(`OpTimeout - age`) than the cooldown has to its end. `ShortCalls` makes it true
when the breaker opens and a tick keeps it, so nobody is left when the cooldown is
over, and from then on the probe is alone. The refinement then is one step per
action: an admission maps to `Admit` or `Probe`, a recorded result to `Return` or
`Verdict`, a rejection behind the breaker to `Return` or `Lose`, the tick that ends
the cooldown to `CoolDown`. The session breaker refines the same specification for
the calls with the server's session, with one step more, `Decline`: the general breaker is
asked first, so its probe may pass a session breaker that is ready without being its
probe, and come back without having decided anything there. The mapping calls that
`"probing"`, because nobody else is out then either. It needs `CoolsAlone`: while the
session breaker cools down, the general breaker's probe is no server-session call.

`ServerLookupProofs` and `CallerLookupProofs`, for every number of requests, profiles
and sessions, every cap and every time to live:

| theorem | states | assumes |
|---|---|---|
| `TypeCorrect`, `SizesAlwaysBounded`, `AlwaysOneRetrievalPerId`, `FreshProfilesAlwaysStay` | the properties of the server lookups | `ServerLookupAssumption` |
| `MissingAlwaysCurrent` | `MissingIsCurrent` | `NegativeTTL <= CacheTTL` too |
| `TypeCorrect`, `InvalidAlwaysRejected`, `OnlyStragglersAlways`, `MarksAlwaysLast` | the properties of the caller lookups | `CallerLookupAssumption` |

*The argument.* The maps are `ExpiringMap`'s, so the lemmas about its operators do the
work: a map that is full loses at least one entry to either eviction, so `PutKeepsCap`;
`EvictSoonest` removes nothing that expires after an entry it keeps. `Bounded`
(of the marks, `TypeOK`) is inductive with them. `OneLeader` ties singleflight's table to the requests: an id is in
it exactly while the one request it names is at a point where it leads. `Current` is
what makes a remembered "missing" harmless: a profile that was found after the mark was
made lives at least as long as the mark, which is where the assumption comes in - unless
it is evicted while it is fresh. Then nothing keeps a request from the older mark, and
`MissingIsCurrent` says nothing of it; without the exemption TLC finds the sequence
(found, evicted, refused).
`CACHE_TTL` and `UPSTREAM_NEG_CACHE_TTL` are separate settings that nothing
compares; the defaults satisfy it. `Blameless` and `PassedBefore` say the same of callers'
sessions: only sessions that LinkedIn rejected are marked, and who is past the check
while its session is marked had passed it before the mark.

`AuditWriterProofs`, for every number of requests, any buffer and any batch size:
`TypeCorrect`, `AlwaysAccounted`, `CleanStopAlwaysLosesNothing`,
`StoreAlwaysOutlivesWriter`, and `AlwaysAnAuditLog`, the refinement of `AuditLog`.
`Collecting` bounds the batch at each point of the writer; `Stops` is the knowledge that
`main`, the writer and the handlers have of each other while the process stops: once
`done` is closed nobody records any more, so a channel that was found empty stays empty.
`OnePlaceEach` has every record in one place only, once. Each step leaves the waiting
records alone, or accepts, drops or settles some (`WaitingSteps`), and from that both
the accounting and the refinement follow.

`RetrievalProofs`, for every number of requests, every configuration, all documents and
all durations that satisfy `ClientAssumption` (first backoff and deadline together are
no more than half the largest duration, 146 years):

| theorem | states | inductive invariant |
|---|---|---|
| `BackoffAlwaysPositive` | a backoff never overflows | `CallsInTime` |
| `SlotsAlwaysAccounted` | no slot is lost or given back twice | `Sane`, `Balanced` |
| `TypeCorrect` | `TypeOK` | `Sane`, `Balanced`, `Tidy` |
| `VerdictsAlwaysFinal` | LinkedIn's verdict is final, and only LinkedIn's | `Sane`, `Tidy`, `Truth` |
| `SectionsAlwaysTruthful` | `meta.sections` and the entries are what the documents were | `Sane`, `Tidy`, `Paged` |

*The argument.* A positive backoff is not inductive: doubling may overflow. `InTime`
strengthens it with `wait <= waited + RetryBackoff` and `waited <= Timeout`. A backoff
is slept to its end only if that fits into the deadline, so a `wait` that is doubled was
at most `Timeout + RetryBackoff`, and it has just been added to `waited`, which keeps
the bound. `Sane` adds which calls a request can have out in which phase, and that a
call backs off only after an error that may pass and with an attempt left. `Balanced`
counts: each semaphore has as many filled slots as there are calls at the points that
hold one, and each action moves one call across that border exactly when it counts one
slot. `Truth` says that once LinkedIn has given its verdict the core call has returned
with it or the request was answered with it, and that no error of the core call blames
LinkedIn without a verdict. `Paged` says that the profile a request has assembled is the
base but for the sections that are over, each of which is what its own document says;
it needs that the sections fill different fields (`FieldsDiffer`) and that a call has a
document only if one arrived (`Carrying`). That the entries follow the page is
`ParsingKeepsOrder`. `ParseSection` is the code's loop, a recursive function over the
URNs; an induction shows that it exists (`LoopExists`) and that after each step the
values kept stand at the rank of their step (`LoopKeepsOrder`). The induction theorems of
the library take an operator, which the provers cannot instantiate, so the lemmas
use a set: one that has 0 and with each number its successor has them all
(`NaturalsAreReached`, from the well-foundedness of `<`). All it takes of a document
is that its two lists are sequences (`RetrievalAssumption`).

`RequestPipelineProofs`, for any deployment, any number of requests and any cap of the
limiter's map:

| theorem | states | inductive invariant |
|---|---|---|
| `AlwaysAddressedAsItself` | `AddressedAsItself` | `Shape` |
| `AlwaysLimitedAsConfigured` | `LimitedAsConfigured` | `Shape`, `Limits`, `Fair` |
| `TrailAlwaysMatches` | `TrailMatches` | `Shape`, `Limits`, `Trail` |
| `TypeCorrect` | `TypeOK` | `Shape`, `Limits`, `Trail` |
| `TotalsAlwaysConsistent` | `TotalsConsistent` | `Shape`, `Limits`, `Trail`, `Reports` |
| `ListsAlwaysConsistent` | `ListsConsistent` | `Shape`, `Limits`, `Trail`, `Reports` |

*The argument.* `Shape` says what a request at each point of the chain is made of.
`Limits` relates the limiter's two tables: every bucket has a limiter of its own, and
who has found one and not asked it yet (the code lets go of the lock in between) either
still has it in the map or its client lost it to an eviction (`evicted`). `Fair` is why
dropping an idle bucket gives nobody a second burst: a bucket is filled at least as far
as the time since its last use allows, so one that is idle for `IdleTTL` is full, and a
full one is what a new client gets. `Trail` follows the event: until the request is
answered it is untouched, then it agrees with the answer (`Fits`), and once the request
is over there is exactly the record made of both, or none after a panic (which is what the
code does; `TrailMatches` does not ask for it). `Reports` keeps
what each query of a report saw: a set of rows of records of the trail, which never lets
go of one, and the answer counted over them. That the totals fit together then is a
matter of cardinalities: `Trail` makes each record one of a hit, a call to LinkedIn or a
rejection, at most (`CountsOnce`), so the sets that are counted have nothing in common
(`FourApart`). `auth_failures` is 0 because no retrieval fails with the API's own
`unauthorized`, which `PipelineAssumption` says of a deployment's `errors`
(`domain.Unauthorized` is called in `apikey.go:35` only). For the lists, `Reports` also
says that the rows of a later query contain those of the earlier ones, unless a purge
reached into the window: what is stored stays, and the window is fixed when the report
begins. A tally's sum is the size of a disjoint union, so it is at least that of
what the tally counts (`OutcomesAddUp`, `ClientsAddUp`); and a list that is no shorter
than there are clients leaves none out (`TopOfAll`), as a finite set can be listed in the
order of any count (`RankingOrders`).

*What the proofs changed.* Two guards of a CASE in `Parsing` overlapped, which leaves
the value open; they are disjoint now. Sorting by a strict order has no result when two
elements tie, in `UsageReport` (records with equal counts) and in `Parsing` (pictures of
one width): reports choose a ranking now, which also says that SQLite may return
ties in any order, and pictures are sorted by `<=`. Functions of two arguments became
functions of functions.

*Only model-checked.* Liveness (`CooldownsEnd`, `ProbeAnswered`,
`EveryRequestAnswered`, `RecordsSettle`, `SignalStops`, `EveryRequestReturns`): it rests
on fairness, which the prover does not do. Every invariant and every action property
of the passing runs is a theorem. The decoders of single entries and `ParseProfile` are
definitions whose values the runs and theorems compare with what a request is answered,
not with another definition. No module declares a RECURSIVE operator.

## 5. What was found

1. **A turned-away probe wedges its breaker** (`guard.go:243`, run `guard_wedge`,
   theorem `WedgedIsForever`). `blocked` marks the probe as out before the limiter
   and the semaphore are asked. If one of them says no, no release function exists and
   nothing clears `probing`: the session breaker then refuses the server session, the
   general breaker all traffic, until a restart. `docs/security.md:67-68` promises
   that the service "recovers on its own once access returns".
2. **Retry-After can be shortened** (`guard.go:193`, run `guard_retry_after`):
   `trip` overwrites `openUntil`. `docs/security.md:49-50` says a 429's Retry-After
   extends the cooldown so that it is honored.
3. **The session cooldown doubles without a probe** (`guard.go:184`, run
   `guard_double`): failures of calls that were in flight count while the breaker is
   open. `docs/reverse-engineering.md:146`: "doubles on each failed probe".
4. **The gauge of caller sessions goes stale** (`profile.go:254`, run `caller_gauge`):
   an expired mark stays counted until the next mark or success.
   `docs/observability.md:49-50` says it is how many "are currently being fast-failed".

5. **A slow request loses other requests' audit records** (`main.go:183`, run
   `audit_shutdown`): when `srv.Shutdown` meets its deadline, `run` returns before
   `auditWriter.Close`. `docs/auditing.md:81`: "Buffered records are flushed on
   graceful shutdown"; `writer.go:145`: "nothing queued before shutdown is lost".

Smaller things met on the way, which no run is spent on:

- **A request whose handler panics is not audited** (`audit.go:29`): the middleware takes
  its record after the handler has returned, not in a deferred function, and the
  recoverer that answers the client with a 500 is outside it. This disagrees with
  `docs/auditing.md:11` ("One row is written per request"), `docs/security.md:105`
  ("Every API request is recorded"), `docs/architecture.md:68-69` and the comment at
  `audit.go:14-20`. The action `Panic` has it; `TrailMatches` leaves such requests out,
  since no handler is known to panic.
- `auth_failures` of the usage summary is always 0 (`TotalsConsistent` says so): it
  counts audited requests with the error `unauthorized` (`sqlite.go:202`), but only
  `/v1/profile` and `/v1/image` are audited and only the admin route answers so
  (`router.go:46-62`, `apikey.go:25-37`). `cache_misses` always equals
  `upstream_requests`.
- A request that waits for another one's retrieval records no upstream outcome, and
  `retries` adds up those of the base profile and of all sections.
- `docs/auditing.md:11` speaks of one row per `/v1/profile` request; `/v1/image`
  requests have rows too. The `sections` of a record are logged, not stored.
- `docs/auditing.md:18` says that `client_ip` is from the connection, "not a spoofable
  header". With `TRUSTED_PROXY_DEPTH` > 0 it is from `X-Forwarded-For`
  (`middleware.go:86-112`), and cannot be spoofed only behind that many proxies, as
  `docs/security.md:25-30` says and `AddressedAsItself` states.
- A profile that is found after it was marked as missing is refused again once the cache
  has evicted it, until the mark expires (`profile.go:158`, `ttl.go:62-86`): `Set` does
  not take the mark away. `MissingIsCurrent` leaves this case out.
- A `PROFILE_SECTIONS` of blanks leaves the default in place (`config.go:347-352`), so
  configuration cannot switch enrichment off.
- Eviction of idle buckets is invisible to clients only if burst <= rps x 10 min, which
  configuration does not check (`ratelimit.go:17-20`, `config.go:223`).
- A body that breaks off because the deadline passes is `upstream_parse_error`
  (`linkedin/errors.go:68-77`), not `upstream_timeout`; a client that goes away is
  counted as `upstream_unavailable`.
- A request that misses the cache just before a leader stores its result leads a
  second retrieval: `group.Do` is not preceded by a second look (`profile.go:164`).

## 6. The plan

Done: the guard with its abstract specification, for both breakers; both kinds of
lookup; the audit writer with its abstract specification; retrievals with parsing and the
client; the API with configuration, limiter, audit trail and usage report; and of each
component the proofs of section 4. Left:

1. More about the operators: what `clientIP` returns for every chain of proxies (so far
   only what `AddressedAsItself` needs of it), and what `Validate` refuses, as lemmas
   about `RequestInputs` and `Configuration`.
2. That the outcomes `RequestPipeline` lets a lookup have (`ServerLookups`,
   `CallerLookups`) are those of the lookup modules is argued in section 2, not proved.

Not modelled: the browser client and deployment files, which have no program logic of
the service; logging, counters and histograms, which change nothing; headers and
request URLs towards LinkedIn; `Retry-After` parsing; opening the database and adding
columns to an older one; the mean latency of a report; methods other than GET; the
text that JSON and URLs are made of. Rates are whole numbers: that `ParseFloat` also
reads fractions, infinities and NaN, which `RPS <= 0` does not reject, is left out.
SQLite and the token bucket of `golang.org/x/time/rate` are taken to do what their
interfaces say.
