------------------------- MODULE RequestPipelineProofs -------------------------
(***************************************************************************)
(* Theorems about the request pipeline, for every deployment, any number   *)
(* of requests and clients, and every size of the rate limiter's map.      *)
(***************************************************************************)
EXTENDS RequestPipeline, FiniteSetTheorems, FunctionTheorems, SequenceTheorems, TLAPS

------------------------------------------------------------------------------
(* The client's address.                                                    *)

LEMMA ConfigFacts ==
  ASSUME deployment \in DOMAIN Deployments
  PROVE  /\ config.TrustedProxyDepth \in Int /\ config.MaxRetries \in Int
         /\ config.RPS \in Int /\ config.Burst \in Int /\ config.Retention \in Int
         /\ config.RateLimitEnabled \in BOOLEAN /\ config.AuditEnabled \in BOOLEAN
         /\ maxTime \in Nat /\ Tick \in Nat \ {0}
BY ConfigAssumption, PipelineAssumption DEF config, maxTime

LEMMA InputFacts ==
  ASSUME deployment \in DOMAIN Deployments, NEW r \in requests, NEW input \in inputs[r]
  PROVE  /\ input.client \in STRING \ {""} /\ input.hops \in 0..2
         /\ input.forwarded \in Seq(STRING) /\ r \in Requests
BY PipelineAssumption DEF requests, inputs, Proxies

\* Behind proxies, the one header there is ends with the client and all the proxies
\* but the last.
LEMMA ForwardedFacts ==
  ASSUME NEW hops \in 1..2, NEW S, NEW sent \in Seq(S), NEW client,
         NEW header, header = ForwardedBy(hops, sent, client).forwarded
  PROVE  /\ Len(header) = Len(sent) + hops
         /\ header[Len(sent) + 1] = client
<1> DEFINE passed == SubSeq(Proxies, 1, hops - 1)
           begun == sent \o <<client>>
           T == S \cup {client, Proxies[1]}
<1>0. sent \in Seq(T)
  BY SeqMonotonic
<1>1. header = begun \o passed
  BY DEF ForwardedBy
<1>2. \A i \in 1..hops - 1 : Proxies[i] \in T
  <2>1. Proxies[1] \in T
    OBVIOUS
  <2>2. CASE hops = 1
    BY <2>2
  <2>3. CASE hops = 2
    <3>1. 1..hops - 1 = {1}
      BY <2>3
    <3> QED BY <2>1, <3>1
  <2>4. hops = 1 \/ hops = 2
    OBVIOUS
  <2> QED BY <2>2, <2>3, <2>4
<1>3. passed \in Seq(T) /\ Len(passed) = hops - 1
  <2>1. 1 \in Int /\ hops - 1 \in Int
    OBVIOUS
  <2>2. /\ passed \in Seq(T)
        /\ Len(passed) = IF 1 <= hops - 1 THEN (hops - 1) - 1 + 1 ELSE 0
    BY <1>2, <2>1, SubSeqProperties
  <2> QED BY <2>2
<1>4. <<client>> \in Seq(T) /\ Len(<<client>>) = 1 /\ <<client>>[1] = client
  OBVIOUS
<1>5. Len(sent) \in Nat
  BY <1>0, LenProperties
<1>6. /\ begun \in Seq(T) /\ Len(begun) = Len(sent) + Len(<<client>>)
      /\ \A i \in 1..Len(sent) + Len(<<client>>) :
           begun[i] = IF i <= Len(sent) THEN sent[i] ELSE <<client>>[i - Len(sent)]
  BY <1>0, <1>4, ConcatProperties
<1> HIDE DEF passed
<1>7. begun[Len(sent) + 1] = client
  <2>1. Len(sent) + 1 \in 1..Len(sent) + Len(<<client>>)
    BY <1>4, <1>5
  <2>2. begun[Len(sent) + 1] = <<client>>[Len(sent) + 1 - Len(sent)]
    BY <1>5, <1>6, <2>1
  <2>3. Len(sent) + 1 - Len(sent) = 1
    BY <1>5
  <2> QED BY <1>4, <2>2, <2>3
<1> HIDE DEF begun
<1>8. Len(begun) = Len(sent) + 1
  BY <1>4, <1>6
<1>9. /\ Len(header) = Len(begun) + Len(passed)
      /\ \A i \in 1..Len(begun) + Len(passed) :
           header[i] = IF i <= Len(begun) THEN begun[i] ELSE passed[i - Len(begun)]
  BY <1>1, <1>3, <1>6, ConcatProperties
<1>10. header[Len(sent) + 1] = begun[Len(sent) + 1]
  BY <1>3, <1>5, <1>8, <1>9
<1> QED BY <1>3, <1>5, <1>7, <1>8, <1>9, <1>10

\* Where the header is read: at the client that the proxies found.
LEMMA ReadAtClient ==
  ASSUME NEW hops \in 0..2, NEW depth \in Nat, NEW sent \in Nat,
         hops # 0, hops = depth \/ (hops <= depth /\ sent = 0)
  PROVE  LET last == (sent + hops) - depth + 1
         IN /\ (IF last < 1 THEN 1 ELSE last) = sent + 1
            /\ depth > 0 /\ hops \in 1..2
OBVIOUS

LEMMA AddressFound ==
  ASSUME deployment \in DOMAIN Deployments, NEW r \in requests, NEW input \in inputs[r],
         config.TrustedProxyDepth >= 0, WellAddressed(input),
         NEW arrived, arrived = ForwardedBy(input.hops, input.forwarded, input.client)
  PROVE  ClientIP(arrived.forwarded, arrived.remote, config.TrustedProxyDepth) = input.client
<1> DEFINE depth == config.TrustedProxyDepth
           hops == input.hops
           sent == Len(input.forwarded)
           header == arrived.forwarded
<1>1. input.client \in STRING /\ input.client # "" /\ input.forwarded \in Seq(STRING)
  BY InputFacts
<1>2. hops \in 0..2
  BY InputFacts
<1>3. depth \in Nat
  <2>1. depth \in Int
    BY ConfigFacts
  <2> QED BY <2>1
<1>4. sent \in Nat /\ (input.forwarded = <<>> => sent = 0)
  <2>1. sent \in Nat
    BY <1>1, LenProperties
  <2>2. Len(<<>>) = 0
    OBVIOUS
  <2> QED BY <2>1, <2>2
<1>5. hops = depth \/ (hops <= depth /\ input.forwarded = <<>>)
  BY DEF WellAddressed
<1>6. CASE hops = 0
  <2>1. arrived.forwarded = input.forwarded /\ arrived.remote = input.client
    BY <1>6 DEF ForwardedBy
  <2>2. ~(depth > 0) \/ arrived.forwarded = <<>>
    BY <1>3, <1>5, <1>6, <2>1
  <2> QED BY <2>1, <2>2 DEF ClientIP
<1>7. CASE hops # 0
  <2> HIDE DEF depth, hops, sent
  <2>1. /\ (IF (sent + hops) - depth + 1 < 1 THEN 1 ELSE (sent + hops) - depth + 1) = sent + 1
        /\ depth > 0 /\ hops \in 1..2
    <3>1. hops = depth \/ (hops <= depth /\ sent = 0)
      BY <1>4, <1>5
    <3> QED BY <1>2, <1>3, <1>4, <1>7, <3>1, ReadAtClient
  <2>2. Len(header) = sent + hops /\ header[sent + 1] = input.client
    <3>1. header = ForwardedBy(hops, input.forwarded, input.client).forwarded
      BY DEF hops, header
    <3>2. hops \in 1..2
      BY <2>1
    <3> HIDE DEF header, hops
    <3>3. /\ Len(header) = Len(input.forwarded) + hops
          /\ header[Len(input.forwarded) + 1] = input.client
      <4> DEFINE Names == STRING
                 given == input.forwarded
                 client == input.client
      <4>1. given \in Seq(Names) /\ header = ForwardedBy(hops, given, client).forwarded
        BY <1>1, <3>1
      <4> HIDE DEF Names, given, client
      <4>2. Len(header) = Len(given) + hops /\ header[Len(given) + 1] = client
        BY <3>2, <4>1, ForwardedFacts
      <4> QED BY <4>2 DEF given, client
    <3> QED BY <3>3 DEF sent
  <2>3. header # <<>>
    <3>1. Len(header) # 0
      BY <1>4, <2>1, <2>2
    <3>2. Len(<<>>) = 0
      OBVIOUS
    <3> QED BY <3>1, <3>2
  <2> HIDE DEF header
  <2>4. ClientIP(header, arrived.remote, depth) = input.client
    <3> DEFINE last == Len(header) - depth + 1
               ip == header[IF last < 1 THEN 1 ELSE last]
    <3>1. (IF last < 1 THEN 1 ELSE last) = sent + 1
      BY <2>1, <2>2
    <3>2. ip = input.client
      BY <2>2, <3>1
    <3>3. ClientIP(header, arrived.remote, depth)
            = IF depth > 0 /\ header # <<>> /\ ip # "" THEN ip ELSE arrived.remote
      BY DEF ClientIP
    <3> HIDE DEF ip
    <3> QED BY <1>1, <2>1, <2>3, <3>2, <3>3
  <2> QED BY <2>4 DEF header, depth
<1> QED BY <1>6, <1>7

------------------------------------------------------------------------------
(***************************************************************************)
(* The inductive invariant, in three parts.  The first is the shape of the *)
(* state: a request that is under way has all its fields, is one of those  *)
(* the deployment has, and is at the limiter only when it is limited.      *)
(***************************************************************************)
VisitFields == {"at", "input", "start", "id", "event", "response", "holds", "usage", "observed"}

Gone == {[at |-> "idle"], [at |-> "done"]}

\* A sequence of n, and a usage query n of whose answers are there.
Listed(s, n) == s = [i \in 1..n |-> s[i]]

UsageFields == {"since", "limit", "until", "answers"}

Asking(r, n) ==
  /\ req[r].at = UsageQueries[n + 1]
  /\ DOMAIN req[r].usage = UsageFields /\ Listed(req[r].usage.answers, n)

Visiting(r) ==
  /\ DOMAIN req[r] = VisitFields
  /\ req[r].at \in Points \ {"idle"}
  /\ req[r].input \in inputs[r]
  /\ req[r].start \in 0..now
  /\ req[r].at \in {"limiter", "token"} => Limited(req[r].input.path)
  /\ req[r].at = "done" => Audited(req[r].input.path)
  /\ req[r].at \in ToSet(UsageQueries) => \E n \in 0..5 : Asking(r, n)

Shape ==
  /\ deployment \in DOMAIN Deployments /\ Starts(config)
  /\ storeOpens => config.AuditEnabled
  /\ now \in 0..maxTime
  /\ DOMAIN req = requests
  /\ \A r \in requests : req[r] \in Gone \/ Visiting(r)

(***************************************************************************)
(* The limiter's tables: every bucket has a limiter of its own, filled at  *)
(* least as far as the time since it was last used allows; whoever holds a *)
(* limiter shares it with nobody else's bucket, and lost its bucket only   *)
(* to an eviction.                                                         *)
(***************************************************************************)
BucketFields == {"id", "lastSeen"}

Bucketed ==
  /\ IsFiniteSet(DOMAIN buckets) /\ Cardinality(DOMAIN buckets) <= MaxKeys
  /\ \A k \in DOMAIN buckets :
       /\ DOMAIN buckets[k] = BucketFields
       /\ buckets[k].id \in DOMAIN limiters /\ buckets[k].lastSeen \in 0..now
  /\ \A l \in DOMAIN limiters : limiters[l] \in 0..Full(config.Burst)
  /\ DOMAIN limiters # {} \/ DOMAIN allowance # {} => config.RateLimitEnabled
  /\ \A j, k \in DOMAIN buckets : buckets[j].id = buckets[k].id => j = k

Holding(r) ==
  /\ req[r].holds \in DOMAIN limiters
  /\ \A k \in DOMAIN buckets :
       buckets[k].id = req[r].holds => k = ClientOf(r) /\ buckets[k].lastSeen = now
  /\ \/ ClientOf(r) \in evicted
     \/ ClientOf(r) \in DOMAIN buckets /\ buckets[ClientOf(r)].id = req[r].holds

Limits ==
  /\ Bucketed
  /\ \A r \in requests : req[r].at = "token" => Holding(r)

\* What a client has left, and what its bucket holds.
Left(c) == IF c \in DOMAIN allowance THEN allowance[c] ELSE Full(config.Burst)

Filled(c) == IF c \in DOMAIN buckets THEN limiters[buckets[c].id] ELSE Full(config.Burst)

Configured ==
  /\ Full(config.Burst) <= config.RPS * IdleTTL
  /\ \A r \in requests : \A input \in inputs[r] : WellAddressed(input)

Fair ==
  Configured =>
    /\ \A c \in (DOMAIN allowance \cup DOMAIN buckets) \ evicted : Left(c) = Filled(c)
    /\ \A k \in DOMAIN buckets :
         LET fill == limiters[buckets[k].id]
         IN fill = Full(config.Burst) \/ fill >= config.RPS * (now - buckets[k].lastSeen)

(***************************************************************************)
(* The trail: what a request's event says fits its answer, and a record    *)
(* says what the event and the answer of a request that is over do.        *)
(***************************************************************************)
Blank == ""

EventFields == DOMAIN NewEvent

Consistent(code, status, decision, slug, called, cached, outcome, retries) ==
  /\ code # "unauthorized" /\ decision \in {"allowed", "ip_limited"}
  /\ (code = Blank) = (status = 200)
  /\ decision = "ip_limited" <=> status = 429 /\ slug = Blank
  /\ slug = Blank => ~called /\ ~cached
  /\ cached => status = 200 /\ ~called /\ retries = 0
  /\ called => outcome # Blank
  /\ retries > 0 => called

Fits(event, response) ==
  /\ DOMAIN event = EventFields /\ event.errorClass = response.code
  /\ Consistent(response.code, response.status, event.rateDecision, event.profileID,
                event.upstreamCalled, event.cached, event.upstreamOutcome, event.retries)

Coded(response) ==
  /\ response.code \in Codes \cup {Blank}
  /\ response.code # Blank => response.status = StatusFor(response.code)

Panicked(r) == req[r].event.errorClass = Blank /\ req[r].response.code = "internal_error"

Told(r) ==
  /\ Coded(req[r].response)
  /\ req[r].at \notin {"answered", "done"} =>
       req[r].event = NewEvent /\ req[r].response = NoResponse
  /\ req[r].at \in ToSet(UsageQueries) => req[r].input.path = "/admin/usage"
  /\ req[r].at \in {"answered", "done"} /\ Audited(req[r].input.path) =>
       \/ Fits(req[r].event, req[r].response)
       \/ req[r].at = "done" /\ req[r].event = NewEvent /\ req[r].response = InternalError
  /\ req[r].at = "done" => req[r].observed = <<Observed(r, req[r].response.status)>>

\* The record of a request, taken after a while.
RecordAfter(r, latency) ==
  LET event == req[r].event
      own   == [req |-> r, ts |-> req[r].start, requestID |-> req[r].id,
                clientIP |-> ClientOf(r), status |-> req[r].response.status,
                latency |-> latency]
  IN [f \in DOMAIN own \cup DOMAIN event |-> IF f \in DOMAIN own THEN own[f] ELSE event[f]]

Recorded(r) ==
  IF req[r] \notin Gone /\ req[r].at = "done" /\ ~Panicked(r)
  THEN \E latency \in 0..now : RecordsOf(r) = {RecordAfter(r, latency)}
  ELSE RecordsOf(r) = {}

Trail ==
  /\ \A r \in requests : req[r] \in Gone \/ Told(r)
  /\ \A r \in requests : Recorded(r)
  /\ \A record \in trail : record.req \in requests
  /\ pending \subseteq trail /\ store \subseteq {Row(record) : record \in trail}

------------------------------------------------------------------------------
(* The rate limiter's tables.                                               *)

\* Eviction makes room for one bucket.
LEMMA RoomMade ==
  ASSUME NEW table, IsFiniteSet(DOMAIN table), Cardinality(DOMAIN table) <= MaxKeys,
         NEW at, NEW rest \in AfterEviction(table, at)
  PROVE  /\ DOMAIN rest \subseteq DOMAIN table
         /\ \A k \in DOMAIN rest : rest[k] = table[k]
         /\ IsFiniteSet(DOMAIN rest) /\ Cardinality(DOMAIN rest) < MaxKeys
<1> DEFINE active == Without(table, Idle(table, at))
<1>1. /\ DOMAIN active \subseteq DOMAIN table
      /\ \A k \in DOMAIN active : active[k] = table[k]
  BY DEF Without, Restrict
<1>2. /\ IsFiniteSet(DOMAIN active) /\ Cardinality(DOMAIN active) \in Nat
      /\ Cardinality(DOMAIN active) <= Cardinality(DOMAIN table)
      /\ Cardinality(DOMAIN table) \in Nat /\ MaxKeys \in Nat
  BY <1>1, FS_Subset, FS_CardinalityType, RateLimiterAssumption
<1> HIDE DEF active
<1>3. CASE Cardinality(DOMAIN active) >= MaxKeys
  <2>1. rest \in {Without(active, {k}) : k \in DOMAIN active}
    BY <1>3 DEF AfterEviction, active
  <2>2. PICK k \in DOMAIN active : rest = Without(active, {k})
    BY <2>1
  <2>3. DOMAIN rest = DOMAIN active \ {k} /\ \A j \in DOMAIN rest : rest[j] = active[j]
    BY <2>2 DEF Without, Restrict
  <2>4. /\ IsFiniteSet(DOMAIN active \ {k})
        /\ Cardinality(DOMAIN active \ {k}) = Cardinality(DOMAIN active) - 1
    BY <1>2, FS_RemoveElement
  <2>5. Cardinality(DOMAIN rest) < MaxKeys
    BY <1>2, <2>3, <2>4
  <2> QED BY <1>1, <2>3, <2>4, <2>5
<1>4. CASE ~(Cardinality(DOMAIN active) >= MaxKeys)
  <2>1. rest = active
    BY <1>4 DEF AfterEviction, active
  <2> QED BY <1>1, <1>2, <1>4, <2>1
<1> QED BY <1>3, <1>4

(***************************************************************************)
(* What limiterFor leaves: the client has a bucket that was seen now, its  *)
(* own if it had one, and the others are as they were, or gone.            *)
(***************************************************************************)
LEMMA LimiterForFacts ==
  ASSUME NEW table, IsFiniteSet(DOMAIN table), Cardinality(DOMAIN table) <= MaxKeys,
         \A k \in DOMAIN table : DOMAIN table[k] = BucketFields,
         NEW key, NEW id, NEW at, NEW left \in LimiterFor(table, key, id, at)
  PROVE  /\ key \in DOMAIN left /\ DOMAIN left[key] = BucketFields
         /\ left[key].lastSeen = at
         /\ left[key].id = IF key \in DOMAIN table THEN table[key].id ELSE id
         /\ \A k \in DOMAIN left \ {key} : k \in DOMAIN table /\ left[k] = table[k]
         /\ key \in DOMAIN table => DOMAIN left = DOMAIN table
         /\ IsFiniteSet(DOMAIN left) /\ Cardinality(DOMAIN left) <= MaxKeys
<1>1. CASE key \in DOMAIN table
  <2>1. left = Found(table, key, at)
    BY <1>1 DEF LimiterFor
  <2>2. /\ DOMAIN left = DOMAIN table
        /\ left[key] = [table[key] EXCEPT !.lastSeen = at]
        /\ \A k \in DOMAIN left \ {key} : left[k] = table[k]
    BY <1>1, <2>1 DEF Found
  <2>3. DOMAIN table[key] = BucketFields
    BY <1>1
  <2>4. DOMAIN left[key] = BucketFields /\ left[key].lastSeen = at
    BY <2>2, <2>3 DEF BucketFields
  <2>5. left[key].id = table[key].id
    BY <2>2, <2>3 DEF BucketFields
  <2> QED BY <1>1, <2>2, <2>4, <2>5
<1>2. CASE key \notin DOMAIN table
  <2> DEFINE room == IF Cardinality(DOMAIN table) >= MaxKeys
                     THEN AfterEviction(table, at) ELSE {table}
  <2>1. PICK rest \in room : left = With(rest, key, id, at)
    BY <1>2 DEF LimiterFor
  <2>2. MaxKeys \in Nat /\ Cardinality(DOMAIN table) \in Nat
    BY FS_CardinalityType, RateLimiterAssumption
  <2>3. /\ DOMAIN rest \subseteq DOMAIN table
        /\ \A k \in DOMAIN rest : rest[k] = table[k]
        /\ IsFiniteSet(DOMAIN rest) /\ Cardinality(DOMAIN rest) < MaxKeys
    <3>1. CASE Cardinality(DOMAIN table) >= MaxKeys
      BY <3>1, RoomMade
    <3>2. CASE ~(Cardinality(DOMAIN table) >= MaxKeys)
      BY <2>2, <3>2
    <3> QED BY <3>1, <3>2
  <2> HIDE DEF room
  <2>4. /\ DOMAIN left = DOMAIN rest \cup {key}
        /\ left[key] = [id |-> id, lastSeen |-> at]
        /\ \A k \in DOMAIN left \ {key} : k \in DOMAIN rest /\ left[k] = rest[k]
    BY <2>1 DEF With
  <2>5. DOMAIN left[key] = BucketFields /\ left[key].lastSeen = at /\ left[key].id = id
    BY <2>4 DEF BucketFields
  <2>6. /\ IsFiniteSet(DOMAIN rest \cup {key})
        /\ Cardinality(DOMAIN rest \cup {key}) <= Cardinality(DOMAIN rest) + 1
    <3>1. /\ IsFiniteSet(DOMAIN rest \cup {key})
          /\ Cardinality(DOMAIN rest \cup {key}) =
               IF key \in DOMAIN rest THEN Cardinality(DOMAIN rest) ELSE Cardinality(DOMAIN rest) + 1
      BY <2>3, FS_AddElement
    <3>2. Cardinality(DOMAIN rest) \in Nat
      BY <2>3, FS_CardinalityType
    <3> QED BY <3>1, <3>2
  <2>7. Cardinality(DOMAIN left) <= MaxKeys
    <3>1. Cardinality(DOMAIN rest) \in Nat /\ Cardinality(DOMAIN rest \cup {key}) \in Nat
      BY <2>3, <2>6, FS_CardinalityType
    <3> QED BY <2>2, <2>3, <2>4, <2>6, <3>1
  <2> QED BY <1>2, <2>3, <2>4, <2>5, <2>6, <2>7
<1> QED BY <1>1, <1>2

\* There is always a number for a new limiter.
LEMMA AFreshOne ==
  ASSUME NEW S, IsFiniteSet(S)
  PROVE  \E l \in 1..(Cardinality(S) + 1) : l \notin S
<1> SUFFICES ASSUME 1..(Cardinality(S) + 1) \subseteq S PROVE FALSE
  OBVIOUS
<1>1. Cardinality(S) \in Nat
  BY FS_CardinalityType
<1>2. Cardinality(1..(Cardinality(S) + 1)) = Cardinality(S) + 1
  BY <1>1, FS_Interval
<1>3. Cardinality(1..(Cardinality(S) + 1)) <= Cardinality(S)
  BY FS_Subset
<1> QED BY <1>1, <1>2, <1>3

------------------------------------------------------------------------------
(* What a step does to the requests.                                        *)

\* What a step of a request that is under way leaves as it is.
Kept(r) ==
  /\ DOMAIN req' = DOMAIN req /\ \A q \in DOMAIN req \ {r} : req'[q] = req[q]
  /\ DOMAIN req'[r] = VisitFields
  /\ req'[r].input = req[r].input /\ req'[r].start = req[r].start /\ req'[r].id = req[r].id

LEMMA AnswerKeeps ==
  ASSUME NEW r \in DOMAIN req, DOMAIN req[r] = VisitFields,
         NEW status, NEW code, NEW event, Answer(r, status, code, event)
  PROVE  /\ Kept(r) /\ req'[r].at = "answered" /\ req'[r].event = event
         /\ req'[r].response = [status |-> status, code |-> code]
         /\ req'[r].observed = req[r].observed /\ req'[r].holds = req[r].holds
BY DEF Answer, Kept, VisitFields

LEMMA GotoKeeps ==
  ASSUME NEW r \in DOMAIN req, DOMAIN req[r] = VisitFields, NEW point, Goto(r, point)
  PROVE  /\ Kept(r) /\ req'[r].at = point /\ req'[r].event = req[r].event
         /\ req'[r].response = req[r].response
         /\ req'[r].observed = req[r].observed /\ req'[r].holds = req[r].holds
BY DEF Goto, Kept, VisitFields

LEMMA HeldKeeps ==
  ASSUME NEW r \in DOMAIN req, DOMAIN req[r] = VisitFields, NEW id,
         req' = [req EXCEPT ![r].at = "token", ![r].holds = id]
  PROVE  /\ Kept(r) /\ req'[r].at = "token" /\ req'[r].event = req[r].event
         /\ req'[r].response = req[r].response
         /\ req'[r].observed = req[r].observed /\ req'[r].holds = id
BY DEF Kept, VisitFields

LEMMA AskKeeps ==
  ASSUME NEW r \in DOMAIN req, DOMAIN req[r] = VisitFields, NEW usage,
         req' = [req EXCEPT ![r].at = "summary", ![r].usage = usage]
  PROVE  /\ Kept(r) /\ req'[r].at = "summary" /\ req'[r].event = req[r].event
         /\ req'[r].response = req[r].response
         /\ req'[r].observed = req[r].observed /\ req'[r].holds = req[r].holds
BY DEF Kept, VisitFields

LEMMA QueryKeeps ==
  ASSUME NEW r \in DOMAIN req, DOMAIN req[r] = VisitFields,
         NEW usage, NEW point, NEW response,
         req' = [req EXCEPT ![r].usage = usage, ![r].at = point, ![r].response = response]
  PROVE  /\ Kept(r) /\ req'[r].at = point /\ req'[r].event = req[r].event
         /\ req'[r].response = response
         /\ req'[r].observed = req[r].observed /\ req'[r].holds = req[r].holds
BY DEF Kept, VisitFields

\* A request that is over keeps what it was, if it is one that is audited.
LEMMA OverKeeps ==
  ASSUME NEW r \in DOMAIN req, DOMAIN req[r] = VisitFields, NEW response,
         req' = [req EXCEPT ![r] = Over(r, response)], Audited(req[r].input.path)
  PROVE  /\ Kept(r) /\ req'[r].at = "done" /\ req'[r].event = req[r].event
         /\ req'[r].response = response
         /\ req'[r].observed = <<Observed(r, response.status)>>
BY DEF Over, Kept, VisitFields

LEMMA OverForgets ==
  ASSUME NEW r \in DOMAIN req, NEW response,
         req' = [req EXCEPT ![r] = Over(r, response)], ~Audited(req[r].input.path)
  PROVE  /\ DOMAIN req' = DOMAIN req /\ \A q \in DOMAIN req \ {r} : req'[q] = req[q]
         /\ req'[r] = [at |-> "done"]
BY DEF Over

\* The fields of a request that is under way, or the only one of another.
LEMMA NotGone ==
  ASSUME NEW r, DOMAIN req[r] = VisitFields
  PROVE  req[r] \notin Gone
<1>1. "input" \in DOMAIN req[r]
  BY DEF VisitFields
<1>2. "input" \notin DOMAIN [at |-> "idle"] /\ "input" \notin DOMAIN [at |-> "done"]
  OBVIOUS
<1> QED BY <1>1, <1>2, Zenon DEF Gone

LEMMA UnderWay ==
  ASSUME Shape, NEW r \in requests, req[r].at \notin {"idle", "done"}
  PROVE  Visiting(r)
BY DEF Shape, Gone

\* The points of the usage query are none of the others.
LEMMA QueryPoints ==
  /\ ToSet(UsageQueries) = {"summary", "percentile", "outcomes", "profiles", "clients", "upstream"}
  /\ Len(UsageQueries) = 6
  /\ \A n \in 1..6 : UsageQueries[n] \in ToSet(UsageQueries)
BY DEF ToSet, UsageQueries

(***************************************************************************)
(* The answers: by the limiter, by a handler, or by a query that fails.    *)
(***************************************************************************)
Replies(r) ==
  \/ RejectRate(r) \/ RefuseProfile(r) \/ LookUpProfile(r) \/ ProxyImage(r) \/ ServeOther(r)
  \/ QueryFails(r)
  \/ AskUsage(r) /\ req'[r].at = "answered"

LEMMA RepliesAnswer ==
  ASSUME NEW r \in DOMAIN req, DOMAIN req[r] = VisitFields, Replies(r)
  PROVE  /\ Kept(r) /\ req'[r].at = "answered"
         /\ req'[r].observed = req[r].observed /\ req'[r].holds = req[r].holds
<1>1. CASE RejectRate(r)
  BY <1>1, AnswerKeeps DEF RejectRate, WriteError
<1>2. CASE RefuseProfile(r) \/ QueryFails(r)
  BY <1>2, AnswerKeeps DEF RefuseProfile, QueryFails, WriteError
<1>3. CASE LookUpProfile(r)
  <2> DEFINE cred == CredentialIn(r)[1]
             event(found) ==
               Noted([req[r].event EXCEPT !.profileID = ParseURL(req[r].input.url),
                                          !.credential = cred], found.notes)
  <2>1. PICK found \in Lookups(cred.mode), sections \in SectionLists :
          IF found.code = "" THEN WriteOK(r, [event(found) EXCEPT !.sections = sections])
          ELSE WriteError(r, found.code, event(found))
    BY <1>3, Zenon DEF LookUpProfile
  <2> HIDE DEF event
  <2>2. CASE WriteOK(r, [event(found) EXCEPT !.sections = sections])
    BY <2>2 DEF WriteOK, Answer, Kept, VisitFields
  <2>3. CASE WriteError(r, found.code, event(found))
    BY <2>3, AnswerKeeps DEF WriteError
  <2> QED BY <2>1, <2>2, <2>3
<1>4. CASE ProxyImage(r)
  <2>1. \/ \E code \in {"invalid_request", "upstream_unavailable"} :
             WriteError(r, code, req[r].event)
        \/ WriteOK(r, req[r].event)
    BY <1>4, Zenon DEF ProxyImage
  <2>2. CASE \E code \in {"invalid_request", "upstream_unavailable"} :
               WriteError(r, code, req[r].event)
    BY <2>2, AnswerKeeps DEF WriteError
  <2>3. CASE WriteOK(r, req[r].event)
    BY <2>3 DEF WriteOK, Answer, Kept, VisitFields
  <2> QED BY <2>1, <2>2, <2>3
<1>5. CASE ServeOther(r)
  <2>1. CASE Handling(r, "/healthz") /\ Answer(r, 200, "", req[r].event)
    BY <2>1 DEF Answer, Kept, VisitFields
  <2>2. CASE \E status \in {200, 503} :
               Handling(r, "/readyz") /\ Answer(r, status, "", req[r].event)
    <3>1. PICK status \in {200, 503} :
            Handling(r, "/readyz") /\ Answer(r, status, "", req[r].event)
      BY <2>2
    <3> QED BY <3>1 DEF Answer, Kept, VisitFields
  <2>3. CASE \E path \in {"/metrics", "/index.html"}, status \in {200, 404} :
               Handling(r, path) /\ Answer(r, status, "", req[r].event)
    <3>1. PICK path \in {"/metrics", "/index.html"}, status \in {200, 404} :
            Handling(r, path) /\ Answer(r, status, "", req[r].event)
      BY <2>3
    <3> QED BY <3>1 DEF Answer, Kept, VisitFields
  <2> QED BY <1>5, <2>1, <2>2, <2>3, Zenon DEF ServeOther
<1>6. CASE AskUsage(r) /\ req'[r].at = "answered"
  <2> DEFINE in    == req[r].input
             valid == ValidKey(ExtractAPIKey(in.apiKey, in.bearer), config.AdminKeys)
             usage == [since |-> now - ParseWindow(in.window),
                       limit |-> ParseLimit(in.limit), until |-> now, answers |-> <<>>]
  <2>1. \/ Answer(r, 404, "", req[r].event)
        \/ WriteError(r, "unauthorized", req[r].event)
        \/ req' = [req EXCEPT ![r].at = "summary", ![r].usage = usage]
    BY <1>6, Zenon DEF AskUsage
  <2> HIDE DEF usage
  <2>2. ~(req' = [req EXCEPT ![r].at = "summary", ![r].usage = usage])
    BY <1>6, AskKeeps
  <2>3. CASE Answer(r, 404, "", req[r].event)
    BY <2>3 DEF Answer, Kept, VisitFields
  <2>4. CASE WriteError(r, "unauthorized", req[r].event)
    BY <2>4, AnswerKeeps DEF WriteError
  <2> QED BY <2>1, <2>2, <2>3, <2>4
<1> QED BY <1>1, <1>2, <1>3, <1>4, <1>5, <1>6 DEF Replies

------------------------------------------------------------------------------
(* The shape of the state.                                                  *)

LEMMA SameConfig ==
  ASSUME UNCHANGED deployment
  PROVE  /\ config' = config /\ inputs' = inputs /\ requests' = requests
         /\ maxTime' = maxTime /\ storeOpens' = storeOpens
         /\ \A path : Audited(path)' = Audited(path) /\ Limited(path)' = Limited(path)
BY DEF config, inputs, requests, maxTime, storeOpens, Audited, Limited

LEMMA ShapeKept ==
  ASSUME Shape, UNCHANGED <<deployment, now>>, NEW r \in requests, Visiting(r), Kept(r),
         req'[r].at \in Points \ {"idle"},
         req'[r].at \in {"limiter", "token"} => Limited(req[r].input.path),
         req'[r].at = "done" => Audited(req[r].input.path),
         req'[r].at \in ToSet(UsageQueries) => \E n \in 0..5 : Asking(r, n)'
  PROVE  Shape'
<1> USE SameConfig
<1>1. DOMAIN req' = requests /\ DOMAIN req = requests
  BY DEF Shape, Kept
<1>2. Visiting(r)'
  BY DEF Visiting, Kept, Audited, Limited, config, storeOpens
<1>3. ASSUME NEW q \in requests, q # r PROVE req'[q] \in Gone \/ Visiting(q)'
  <2>1. req'[q] = req[q]
    BY <1>1, <1>3 DEF Kept
  <2>2. req[q] \in Gone \/ Visiting(q)
    BY DEF Shape
  <2> QED BY <2>1, <2>2 DEF Visiting, Asking, Audited, Limited, config, storeOpens
<1> QED BY <1>1, <1>2, <1>3 DEF Shape

LEMMA ListedLength ==
  ASSUME NEW n \in Nat, NEW s, Listed(s, n)
  PROVE  Len(s) = n
<1> DEFINE S == {s[i] : i \in 1..n}
<1>1. s \in [1..n -> S]
  BY DEF Listed
<1>2. s \in Seq(S)
  BY <1>1
<1> QED BY <1>1, <1>2

LEMMA ListedLonger ==
  ASSUME NEW n \in Nat, NEW s, Listed(s, n), NEW e
  PROVE  Listed(Append(s, e), n + 1)
<1> DEFINE S == {s[i] : i \in 1..n} \cup {e}
<1>1. s \in [1..n -> S]
  BY DEF Listed
<1>2. s \in Seq(S)
  BY <1>1
<1>3. Len(s) = n
  BY <1>1, <1>2
<1>4. e \in S
  OBVIOUS
<1> HIDE DEF S
<1>5. Append(s, e) \in Seq(S) /\ Len(Append(s, e)) = n + 1
  BY <1>2, <1>3, <1>4, AppendProperties
<1>6. Append(s, e) \in [1..n + 1 -> S]
  BY <1>5, LenProperties
<1> QED BY <1>6 DEF Listed

\* The points a query can be at next.
LEMMA QueryGoesOn ==
  ASSUME NEW r \in DOMAIN req, DOMAIN req[r] = VisitFields,
         NEW n \in 0..5, Asking(r, n), QueryAnswers(r)
  PROVE  /\ Kept(r)
         /\ req'[r].event = req[r].event /\ req'[r].observed = req[r].observed
         /\ \/ req'[r].at = "answered" /\ req'[r].response = [status |-> 200, code |-> ""]
            \/ n + 1 \in 0..5 /\ Asking(r, n + 1)' /\ req'[r].response = req[r].response
<1> DEFINE asked  == req[r].usage
           answer == Query(UsageQueries[n + 1], Within(store, asked.since), asked.limit)
           usage  == [asked EXCEPT !.answers = Append(@, answer), !.until = now]
<1>1. Len(asked.answers) = n /\ Listed(asked.answers, n)
  <2>1. Listed(asked.answers, n)
    BY DEF Asking
  <2>2. n \in Nat
    OBVIOUS
  <2> HIDE DEF asked
  <2> QED BY <2>1, <2>2, ListedLength
<1>2. /\ Kept(r) /\ req'[r].event = req[r].event /\ req'[r].observed = req[r].observed
      /\ req'[r].usage = usage
      /\ req'[r].at = IF n + 1 = 6 THEN "answered" ELSE UsageQueries[n + 2]
      /\ req'[r].response = IF n + 1 = 6 THEN [status |-> 200, code |-> ""]
                            ELSE req[r].response
  <2>1. Len(asked.answers) + 1 = n + 1 /\ Len(asked.answers) + 1 + 1 = n + 2
    BY <1>1
  <2>2. req' = [req EXCEPT
                  ![r].usage = usage,
                  ![r].at = IF n + 1 = 6 THEN "answered" ELSE UsageQueries[n + 2],
                  ![r].response = IF n + 1 = 6 THEN [status |-> 200, code |-> ""] ELSE @]
    BY <2>1, QueryPoints DEF QueryAnswers
  <2> HIDE DEF usage
  <2> QED BY <2>2 DEF Kept, VisitFields
<1>3. DOMAIN usage = UsageFields /\ Listed(usage.answers, n + 1)
  <2>1. DOMAIN usage = UsageFields /\ usage.answers = Append(asked.answers, answer)
    BY DEF Asking, UsageFields
  <2> HIDE DEF asked, answer, usage
  <2> QED BY <1>1, <2>1, ListedLonger
<1> HIDE DEF usage, asked
<1>4. CASE n = 5
  <2>1. n + 1 = 6
    BY <1>4
  <2>2. req'[r].at = "answered" /\ req'[r].response = [status |-> 200, code |-> ""]
    BY <1>2, <2>1
  <2> QED BY <1>2, <2>2
<1>5. CASE n # 5
  <2>1. n + 1 \in 0..5 /\ (n + 1) + 1 = n + 2 /\ n + 1 # 6
    BY <1>5
  <2>2. req'[r].at = UsageQueries[(n + 1) + 1] /\ req'[r].response = req[r].response
    BY <1>2, <2>1
  <2>3. Asking(r, n + 1)'
    BY <1>2, <1>3, <2>2 DEF Asking
  <2> QED BY <1>2, <2>1, <2>2, <2>3
<1> QED BY <1>4, <1>5

LEMMA PointsDiffer ==
  /\ ToSet(UsageQueries) \cap {"idle", "limiter", "token", "handler", "answered", "done"} = {}
  /\ \A n \in 0..5 : UsageQueries[n + 1] \in ToSet(UsageQueries)
  /\ ToSet(UsageQueries) \subseteq Points
<1>1. \A n \in 0..5 : n + 1 \in 1..6
  OBVIOUS
<1> QED BY <1>1, QueryPoints DEF Points

LEMMA ShapeStep ==
  ASSUME Shape, Next
  PROVE  Shape'
<1> USE SameConfig
<1>0. DOMAIN req = requests /\ now \in 0..maxTime
  BY DEF Shape
<1>1. ASSUME NEW r \in requests, Arrive(r) PROVE Shape'
  <2>1. PICK input \in inputs[r] :
          req' = [req EXCEPT ![r] =
                   [at |-> IF Limited(input.path) THEN "limiter" ELSE "handler",
                    input |-> input, start |-> now, id |-> RequestID(input.id, ToString(r)),
                    event |-> NewEvent, response |-> NoResponse, holds |-> 0,
                    usage |-> <<>>, observed |-> <<>>]]
    BY <1>1 DEF Arrive
  <2>2. UNCHANGED <<deployment, now>>
    BY <1>1 DEF Arrive
  <2>3. /\ DOMAIN req' = requests /\ \A q \in requests \ {r} : req'[q] = req[q]
        /\ DOMAIN req'[r] = VisitFields /\ req'[r].input = input /\ req'[r].start = now
        /\ req'[r].at = IF Limited(input.path) THEN "limiter" ELSE "handler"
    BY <1>0, <2>1 DEF VisitFields
  <2>4. Visiting(r)'
    BY <1>0, <2>2, <2>3, PointsDiffer DEF Visiting, Limited, config, Points
  <2>5. ASSUME NEW q \in requests, q # r PROVE req'[q] \in Gone \/ Visiting(q)'
    <3>1. req'[q] = req[q] /\ (req[q] \in Gone \/ Visiting(q))
      BY <2>3, <2>5 DEF Shape
    <3> QED BY <2>2, <3>1 DEF Visiting, Asking, Audited, Limited, config, storeOpens
  <2> QED BY <2>2, <2>3, <2>4, <2>5 DEF Shape
<1>2. ASSUME NEW r \in requests, FindLimiter(r) PROVE Shape'
  <2>1. Visiting(r) /\ UNCHANGED <<deployment, now>>
    BY <1>2, UnderWay DEF FindLimiter
  <2>2. PICK id : req' = [req EXCEPT ![r].at = "token", ![r].holds = id]
    BY <1>2 DEF FindLimiter
  <2>3. Kept(r) /\ req'[r].at = "token"
    BY <1>0, <2>1, <2>2, HeldKeeps DEF Visiting
  <2>4. Limited(req[r].input.path)
    BY <1>2, <2>1 DEF Visiting, FindLimiter
  <2> QED BY <2>1, <2>3, <2>4, ShapeKept, PointsDiffer DEF Points
<1>3. ASSUME NEW r \in requests, Admit(r) PROVE Shape'
  <2>1. Visiting(r) /\ UNCHANGED <<deployment, now>>
    BY <1>3, UnderWay DEF Admit
  <2>2. Kept(r) /\ req'[r].at = "handler"
    BY <1>0, <1>3, <2>1 DEF Visiting, Admit, Goto, Kept, VisitFields
  <2> QED BY <2>1, <2>2, ShapeKept, PointsDiffer DEF Points
<1>4. ASSUME NEW r \in requests, Replies(r) PROVE Shape'
  <2>1. req[r].at \notin {"idle", "done"} /\ UNCHANGED <<deployment, now>>
    BY <1>4, PointsDiffer DEF Replies, RejectRate, RefuseProfile, LookUpProfile, ProxyImage, ServeOther,
      AskUsage, QueryFails, Handling
  <2>2. Visiting(r)
    BY <2>1, UnderWay
  <2>3. Kept(r) /\ req'[r].at = "answered"
    BY <1>0, <1>4, <2>2, RepliesAnswer DEF Visiting
  <2> QED BY <2>1, <2>2, <2>3, ShapeKept, PointsDiffer DEF Points
<1>5. ASSUME NEW r \in requests, AskUsage(r) PROVE Shape'
  <2>1. Visiting(r) /\ UNCHANGED <<deployment, now>>
    BY <1>5, UnderWay DEF AskUsage, Handling
  <2> DEFINE in    == req[r].input
             valid == ValidKey(ExtractAPIKey(in.apiKey, in.bearer), config.AdminKeys)
             usage == [since |-> now - ParseWindow(in.window),
                       limit |-> ParseLimit(in.limit), until |-> now, answers |-> <<>>]
  <2>2. \/ Answer(r, 404, "", req[r].event)
        \/ WriteError(r, "unauthorized", req[r].event)
        \/ req' = [req EXCEPT ![r].at = "summary", ![r].usage = usage]
    BY <1>5, Zenon DEF AskUsage
  <2>3. CASE req' = [req EXCEPT ![r].at = "summary", ![r].usage = usage]
    <3>1. DOMAIN usage = UsageFields /\ Listed(usage.answers, 0)
      BY DEF UsageFields, Listed
    <3> HIDE DEF usage
    <3>2. Kept(r) /\ req'[r].at = "summary" /\ req'[r].usage = usage
      BY <1>0, <2>1, <2>3 DEF Visiting, Kept, VisitFields
    <3>3. UsageQueries[0 + 1] = "summary" /\ 0 \in 0..5
      BY DEF UsageQueries
    <3>4. Asking(r, 0)'
      BY <3>1, <3>2, <3>3 DEF Asking
    <3> QED BY <2>1, <3>2, <3>3, <3>4, ShapeKept, PointsDiffer DEF Points
  <2>4. CASE Answer(r, 404, "", req[r].event) \/ WriteError(r, "unauthorized", req[r].event)
    <3>1. Kept(r) /\ req'[r].at = "answered"
      <4>1. r \in DOMAIN req /\ DOMAIN req[r] = VisitFields
        BY <1>0, <2>1 DEF Visiting
      <4>2. CASE Answer(r, 404, "", req[r].event)
        BY <4>1, <4>2 DEF Answer, Kept, VisitFields
      <4>3. CASE WriteError(r, "unauthorized", req[r].event)
        BY <4>1, <4>3, AnswerKeeps DEF WriteError
      <4> QED BY <2>4, <4>2, <4>3
    <3> QED BY <2>1, <3>1, ShapeKept, PointsDiffer DEF Points
  <2> QED BY <2>2, <2>3, <2>4
<1>6. ASSUME NEW r \in requests, QueryAnswers(r) PROVE Shape'
  <2>1. UNCHANGED <<deployment, now>> /\ req[r].at \in ToSet(UsageQueries)
    BY <1>6 DEF QueryAnswers
  <2>2. Visiting(r)
    BY <2>1, PointsDiffer, UnderWay
  <2>3. PICK n \in 0..5 : Asking(r, n)
    BY <2>1, <2>2 DEF Visiting
  <2>4. /\ Kept(r)
        /\ req'[r].at = "answered" \/ (n + 1 \in 0..5 /\ Asking(r, n + 1)')
    BY <1>0, <1>6, <2>2, <2>3, QueryGoesOn DEF Visiting
  <2>5. CASE req'[r].at = "answered"
    BY <2>1, <2>2, <2>4, <2>5, ShapeKept, PointsDiffer DEF Points
  <2>6. CASE n + 1 \in 0..5 /\ Asking(r, n + 1)'
    <3>1. req'[r].at \in ToSet(UsageQueries)
      BY <2>6, PointsDiffer DEF Asking
    <3>2. req'[r].at \in Points \ {"idle", "limiter", "token", "done"}
      BY <3>1, PointsDiffer
    <3> QED BY <2>1, <2>2, <2>4, <2>6, <3>2, ShapeKept
  <2> QED BY <2>4, <2>5, <2>6
<1>7. ASSUME NEW r \in requests, Finish(r) \/ Panic(r) PROVE Shape'
  <2>1. Visiting(r) /\ UNCHANGED <<deployment, now>>
    BY <1>7, UnderWay DEF Finish, Panic
  <2>2. PICK response : req' = [req EXCEPT ![r] = Over(r, response)]
    BY <1>7 DEF Finish, Panic
  <2>3. CASE Audited(req[r].input.path)
    <3>1. Kept(r) /\ req'[r].at = "done"
      BY <1>0, <2>1, <2>2, <2>3, OverKeeps DEF Visiting
    <3> QED BY <2>1, <2>3, <3>1, ShapeKept, PointsDiffer DEF Points
  <2>4. CASE ~Audited(req[r].input.path)
    <3>1. /\ DOMAIN req' = requests /\ \A q \in requests \ {r} : req'[q] = req[q]
          /\ req'[r] = [at |-> "done"]
      BY <1>0, <2>2, <2>4, OverForgets
    <3>2. ASSUME NEW q \in requests PROVE req'[q] \in Gone \/ Visiting(q)'
      <4>1. CASE q = r
        BY <3>1, <4>1 DEF Gone
      <4>2. CASE q # r
        <5>1. req'[q] = req[q] /\ (req[q] \in Gone \/ Visiting(q))
          BY <3>1, <4>2 DEF Shape
        <5> QED BY <2>1, <5>1 DEF Visiting, Asking, Audited, Limited, config, storeOpens
      <4> QED BY <4>1, <4>2
    <3> QED BY <2>1, <3>1, <3>2 DEF Shape
  <2> QED BY <2>3, <2>4
<1>8. ASSUME Settle \/ Purge PROVE Shape'
  <2>1. UNCHANGED <<deployment, now, req>>
    BY <1>8 DEF Settle, Purge
  <2> QED BY <2>1 DEF Shape, Visiting, Asking, Audited, Limited, config, storeOpens
<1>9. ASSUME Advance PROVE Shape'
  <2>1. UNCHANGED <<deployment, req>> /\ now' = now + Tick /\ now + Tick <= maxTime
    BY <1>9 DEF Advance
  <2>2. now' \in 0..maxTime /\ now <= now'
    BY <1>0, <2>1, ConfigFacts DEF Shape
  <2>3. ASSUME NEW r \in requests, Visiting(r) PROVE Visiting(r)'
    <3>1. req'[r].start \in 0..now'
      BY <1>0, <2>1, <2>2, <2>3, ConfigFacts DEF Visiting, Shape
    <3> QED BY <2>1, <2>3, <3>1 DEF Visiting, Asking, Audited, Limited, config, storeOpens
  <2>4. ASSUME NEW r \in requests PROVE req'[r] \in Gone \/ Visiting(r)'
    BY <2>1, <2>3 DEF Shape
  <2> QED BY <2>1, <2>2, <2>4 DEF Shape
<1> QED BY <1>1, <1>2, <1>3, <1>4, <1>5, <1>6, <1>7, <1>8, <1>9, Zenon DEF Next, Handle, Replies

------------------------------------------------------------------------------
(* The limiter's tables.                                                    *)

LEMMA RateFacts ==
  ASSUME Shape
  PROVE  /\ config.RPS \in Int /\ config.Burst \in Int /\ Full(config.Burst) \in Int
         /\ config.TrustedProxyDepth >= 0
         /\ config.RateLimitEnabled =>
              /\ config.RPS \in Nat \ {0} /\ config.Burst \in Nat \ {0}
              /\ Full(config.Burst) \in Nat /\ Full(config.Burst) >= Token
<1>1. Valid(config) /\ deployment \in DOMAIN Deployments
  BY DEF Shape, Starts
<1>2. config.RPS \in Int /\ config.Burst \in Int
  BY <1>1, ConfigFacts
<1>3. config.TrustedProxyDepth >= 0
  BY <1>1 DEF Valid
<1>4. config.RateLimitEnabled => config.RPS > 0 /\ config.Burst >= 1
  BY <1>1 DEF Valid
<1> QED BY <1>2, <1>3, <1>4 DEF Full, Token

LEMMA ImageFinite ==
  ASSUME NEW S, IsFiniteSet(S), NEW f, DOMAIN f = S
  PROVE  IsFiniteSet({f[x] : x \in S})
<1> DEFINE T == {f[x] : x \in S}
           g == [x \in S |-> f[x]]
<1>1. g \in Surjection(S, T)
  BY DEF Surjection
<1> QED BY <1>1, FS_Surjection

LEMMA RequestsFinite ==
  ASSUME Shape
  PROVE  IsFiniteSet(requests)
<1>1. requests \in SUBSET Requests /\ IsFiniteSet(Requests)
  BY PipelineAssumption DEF Shape, requests, inputs
<1> QED BY <1>1, FS_Subset

LEMMA HeldFinite ==
  ASSUME Shape, IsFiniteSet(DOMAIN buckets)
  PROVE  IsFiniteSet(Held(buckets))
<1> DEFINE holders == {q \in requests : req[q].at = "token"}
           ids     == [k \in DOMAIN buckets |-> buckets[k].id]
           held    == [q \in holders |-> req[q].holds]
<1>1. IsFiniteSet({ids[k] : k \in DOMAIN buckets})
  BY ImageFinite
<1>2. IsFiniteSet(holders)
  <2>1. holders \in SUBSET requests
    OBVIOUS
  <2> QED BY <2>1, RequestsFinite, FS_Subset
<1>3. IsFiniteSet({held[q] : q \in holders})
  BY <1>2, ImageFinite
<1>4. Held(buckets) = {ids[k] : k \in DOMAIN buckets} \cup {held[q] : q \in holders}
  BY DEF Held
<1> DEFINE A == {ids[k] : k \in DOMAIN buckets}
           B == {held[q] : q \in holders}
<1>5. IsFiniteSet(A) /\ IsFiniteSet(B) /\ Held(buckets) = A \cup B
  BY <1>1, <1>3, <1>4
<1> HIDE DEF A, B
<1> QED BY <1>5, FS_Union

LEMMA RefilledFacts ==
  ASSUME NEW fill \in Int, NEW rps \in Nat, NEW burst \in Nat, NEW elapsed \in Nat,
         fill <= Full(burst)
  PROVE  /\ Refilled(fill, rps, burst, elapsed) \in Int
         /\ Refilled(fill, rps, burst, elapsed) <= Full(burst)
         /\ fill <= Refilled(fill, rps, burst, elapsed)
         /\ Refilled(fill, rps, burst, elapsed) \in {Full(burst), fill + rps * elapsed}
<1>1. rps * elapsed \in Nat
  OBVIOUS
<1>2. Full(burst) \in Int
  BY DEF Full, Token
<1> DEFINE more == rps * elapsed
<1> HIDE DEF more
<1>3. Refilled(fill, rps, burst, elapsed)
        = IF fill + more > Full(burst) THEN Full(burst) ELSE fill + more
  BY DEF Refilled, more
<1>4. more \in Nat
  BY <1>1 DEF more
<1> QED BY <1>2, <1>3, <1>4 DEF more

\* What finding a limiter does.
LEMMA Finding ==
  ASSUME Shape, Limits, NEW r \in requests, FindLimiter(r), NEW c, c = ClientOf(r)
  PROVE  \E fresh :
           /\ fresh \notin Held(buckets)
           /\ c \in DOMAIN buckets' /\ DOMAIN buckets'[c] = BucketFields
           /\ buckets'[c].lastSeen = now
           /\ buckets'[c].id = IF c \in DOMAIN buckets THEN buckets[c].id ELSE fresh
           /\ \A k \in DOMAIN buckets' \ {c} : k \in DOMAIN buckets /\ buckets'[k] = buckets[k]
           /\ c \in DOMAIN buckets => DOMAIN buckets' = DOMAIN buckets
           /\ IsFiniteSet(DOMAIN buckets') /\ Cardinality(DOMAIN buckets') <= MaxKeys
           /\ DOMAIN limiters' = Held(buckets')
           /\ \A l \in DOMAIN limiters' :
                limiters'[l] = IF l = fresh THEN Full(config.Burst) ELSE limiters[l]
           /\ evicted' = evicted \cup (DOMAIN buckets \ (DOMAIN buckets' \cup Idle(buckets, now)))
           /\ Kept(r) /\ req'[r].at = "token" /\ req'[r].holds = buckets'[c].id
           /\ UNCHANGED <<deployment, now, allowance>>
<1> DEFINE fresh == CHOOSE l \in 1..(Cardinality(Held(buckets)) + 1) : l \notin Held(buckets)
<1>1. fresh \notin Held(buckets)
  <2>1. \E l \in 1..(Cardinality(Held(buckets)) + 1) : l \notin Held(buckets)
    BY HeldFinite, AFreshOne DEF Limits, Bucketed
  <2> QED BY <2>1
<1>2. /\ buckets' \in LimiterFor(buckets, c, fresh, now)
      /\ limiters' = [l \in Held(buckets') |-> IF l = fresh THEN Full(config.Burst) ELSE limiters[l]]
      /\ evicted' = evicted \cup (DOMAIN buckets \ (DOMAIN buckets' \cup Idle(buckets, now)))
      /\ req' = [req EXCEPT ![r].at = "token", ![r].holds = buckets'[c].id]
      /\ UNCHANGED <<deployment, now, allowance>>
  BY DEF FindLimiter
<1> HIDE DEF fresh
<1>3. /\ c \in DOMAIN buckets' /\ DOMAIN buckets'[c] = BucketFields
      /\ buckets'[c].lastSeen = now
      /\ buckets'[c].id = IF c \in DOMAIN buckets THEN buckets[c].id ELSE fresh
      /\ \A k \in DOMAIN buckets' \ {c} : k \in DOMAIN buckets /\ buckets'[k] = buckets[k]
      /\ c \in DOMAIN buckets => DOMAIN buckets' = DOMAIN buckets
      /\ IsFiniteSet(DOMAIN buckets') /\ Cardinality(DOMAIN buckets') <= MaxKeys
  BY <1>2, LimiterForFacts DEF Limits, Bucketed
<1>4. Kept(r) /\ req'[r].at = "token" /\ req'[r].holds = buckets'[c].id
  <2>1. Visiting(r) /\ r \in DOMAIN req
    BY UnderWay DEF FindLimiter, Shape
  <2> QED BY <1>2, <2>1, HeldKeeps DEF Visiting
<1> QED BY <1>1, <1>2, <1>3, <1>4

\* What is held by a bucket or by a request.
LEMMA HeldFacts ==
  ASSUME NEW table
  PROVE  /\ \A k \in DOMAIN table : table[k].id \in Held(table)
         /\ \A q \in requests : req[q].at = "token" => req[q].holds \in Held(table)
         /\ \A l \in Held(table) :
              \/ \E k \in DOMAIN table : l = table[k].id
              \/ \E q \in requests : req[q].at = "token" /\ l = req[q].holds
BY DEF Held

LEMMA LimitedRates ==
  ASSUME Shape, NEW r \in requests, req[r].at \in {"limiter", "token"}
  PROVE  /\ Visiting(r) /\ config.RateLimitEnabled
         /\ config.RPS \in Nat \ {0} /\ config.Burst \in Nat \ {0}
         /\ Full(config.Burst) \in Nat
<1>1. Visiting(r)
  BY UnderWay
<1>2. config.RateLimitEnabled
  BY <1>1 DEF Visiting, Limited
<1> QED BY <1>1, <1>2, RateFacts

LEMMA LimitsFound ==
  ASSUME Shape, Limits, NEW r \in requests, FindLimiter(r)
  PROVE  Limits'
<1> DEFINE c == ClientOf(r)
<1>1. PICK fresh :
           /\ fresh \notin Held(buckets)
           /\ c \in DOMAIN buckets' /\ DOMAIN buckets'[c] = BucketFields
           /\ buckets'[c].lastSeen = now
           /\ buckets'[c].id = IF c \in DOMAIN buckets THEN buckets[c].id ELSE fresh
           /\ \A k \in DOMAIN buckets' \ {c} : k \in DOMAIN buckets /\ buckets'[k] = buckets[k]
           /\ c \in DOMAIN buckets => DOMAIN buckets' = DOMAIN buckets
           /\ IsFiniteSet(DOMAIN buckets') /\ Cardinality(DOMAIN buckets') <= MaxKeys
           /\ DOMAIN limiters' = Held(buckets')
           /\ \A l \in DOMAIN limiters' :
                limiters'[l] = IF l = fresh THEN Full(config.Burst) ELSE limiters[l]
           /\ evicted' = evicted \cup (DOMAIN buckets \ (DOMAIN buckets' \cup Idle(buckets, now)))
           /\ Kept(r) /\ req'[r].at = "token" /\ req'[r].holds = buckets'[c].id
           /\ UNCHANGED <<deployment, now, allowance>>
  BY Finding
<1>2. /\ Visiting(r) /\ config.RateLimitEnabled /\ Full(config.Burst) \in Nat
      /\ now \in Nat /\ IdleTTL \in Nat
  BY LimitedRates, ConfigFacts, RateLimiterAssumption DEF FindLimiter, Shape
<1>3. \A q \in requests : ClientOf(q)' = ClientOf(q)
  BY <1>1 DEF Kept, ClientOf, config, Shape
<1>4. config' = config /\ requests' = requests
  BY <1>1, SameConfig
<1> HIDE DEF c
<1>5. /\ \A k \in DOMAIN buckets : buckets[k].id # fresh
      /\ \A q \in requests : req[q].at = "token" => req[q].holds # fresh
  BY <1>1, HeldFacts
<1>6. \A k \in DOMAIN buckets' :
        /\ DOMAIN buckets'[k] = BucketFields /\ buckets'[k].id \in DOMAIN limiters'
        /\ buckets'[k].lastSeen \in 0..now'
  <2> TAKE k \in DOMAIN buckets'
  <2>1. buckets'[k].id \in DOMAIN limiters'
    BY <1>1, HeldFacts
  <2>2. CASE k = c
    BY <1>1, <1>2, <2>1, <2>2
  <2>3. CASE k # c
    BY <1>1, <2>1, <2>3 DEF Limits, Bucketed
  <2> QED BY <2>2, <2>3
<1>7. \A l \in DOMAIN limiters' : limiters'[l] \in 0..Full(config.Burst)
  <2> TAKE l \in DOMAIN limiters'
  <2>1. CASE l = fresh
    BY <1>1, <1>2, <2>1
  <2>2. CASE l # fresh
    <3>1. l \in DOMAIN limiters
      <4>1. CASE \E k \in DOMAIN buckets' : l = buckets'[k].id
        BY <1>1, <2>2, <4>1 DEF Limits, Bucketed
      <4>2. CASE \E q \in requests : req[q].at = "token" /\ l = req[q].holds
        BY <4>2 DEF Limits, Holding
      <4> QED BY <1>1, <4>1, <4>2, HeldFacts
    <3> QED BY <1>1, <2>2, <3>1 DEF Limits, Bucketed
  <2> QED BY <2>1, <2>2
<1>8. \A j, k \in DOMAIN buckets' : buckets'[j].id = buckets'[k].id => j = k
  <2>1. ASSUME NEW k \in DOMAIN buckets', k # c PROVE buckets'[k].id # buckets'[c].id
    BY <1>1, <1>5, <2>1 DEF Limits, Bucketed
  <2>2. ASSUME NEW j \in DOMAIN buckets', NEW k \in DOMAIN buckets', j # c, k # c,
               buckets'[j].id = buckets'[k].id
        PROVE  j = k
    BY <1>1, <2>2 DEF Limits, Bucketed
  <2> QED BY <2>1, <2>2
<1>9. ASSUME NEW q \in requests, req'[q].at = "token" PROVE Holding(q)'
  <2>1. CASE q = r
    <3>1. \A k \in DOMAIN buckets' : buckets'[k].id = buckets'[c].id => k = c
      BY <1>1, <1>8
    <3>2. ClientOf(q)' = c
      BY <1>3, <2>1 DEF c
    <3> QED BY <1>1, <1>6, <2>1, <3>1, <3>2 DEF Holding
  <2>2. CASE q # r
    <3>1. req'[q] = req[q] /\ req[q].at = "token" /\ Holding(q)
      BY <1>1, <1>9, <2>2 DEF Kept, Shape, Limits
    <3> DEFINE d == ClientOf(q)
               holds == req[q].holds
    <3>2. ClientOf(q)' = d /\ req'[q].holds = holds
      BY <1>3, <3>1
    <3>3. holds \in DOMAIN limiters'
      BY <1>1, <3>1, HeldFacts
    <3>4. /\ \A k \in DOMAIN buckets : buckets[k].id = holds => k = d /\ buckets[k].lastSeen = now
          /\ d \in evicted \/ (d \in DOMAIN buckets /\ buckets[d].id = holds)
          /\ holds # fresh
      BY <1>5, <3>1 DEF Holding
    <3> HIDE DEF d, holds
    <3>5. \A k \in DOMAIN buckets' : buckets'[k].id = holds => k = d /\ buckets'[k].lastSeen = now
      BY <1>1, <3>4
    <3>6. CASE d \in DOMAIN buckets /\ buckets[d].id = holds
      <4>1. d \notin Idle(buckets, now)
        BY <1>2, <3>4, <3>6 DEF Idle
      <4>2. d \in DOMAIN buckets' => buckets'[d].id = holds
        BY <1>1, <3>6
      <4>3. d \notin DOMAIN buckets' => d \in evicted'
        BY <1>1, <3>6, <4>1
      <4> QED BY <1>1, <3>2, <3>3, <3>5, <4>2, <4>3 DEF Holding
    <3>7. CASE d \in evicted
      BY <1>1, <3>2, <3>3, <3>5, <3>7 DEF Holding
    <3> QED BY <3>4, <3>6, <3>7
  <2> QED BY <2>1, <2>2
<1> QED BY <1>1, <1>2, <1>4, <1>6, <1>7, <1>8, <1>9 DEF Limits, Bucketed

LEMMA LimitsAdmitted ==
  ASSUME Shape, Limits, NEW r \in requests, Admit(r)
  PROVE  Limits'
<1> DEFINE h == req[r].holds
<1>1. /\ Visiting(r) /\ config.RateLimitEnabled /\ Full(config.Burst) \in Nat /\ Holding(r)
  BY LimitedRates DEF Admit, Limits
<1>2. /\ limiters' = [limiters EXCEPT ![h] = @ - Token]
      /\ UNCHANGED <<deployment, now, buckets, evicted>> /\ limiters[h] >= Token
      /\ req' = [req EXCEPT ![r].at = "handler"]
  BY DEF Admit, Goto, Allows
<1>3. config' = config /\ requests' = requests
  BY <1>2, SameConfig
<1>4. h \in DOMAIN limiters /\ limiters[h] \in 0..Full(config.Burst)
  BY <1>1 DEF Holding, Limits, Bucketed
<1> HIDE DEF h
<1>5. limiters[h] - Token \in 0..Full(config.Burst)
  BY <1>1, <1>2, <1>4 DEF Token
<1>6. /\ DOMAIN limiters' = DOMAIN limiters
      /\ \A l \in DOMAIN limiters' : limiters'[l] \in 0..Full(config.Burst)
  BY <1>2, <1>4, <1>5 DEF Limits, Bucketed
<1>7. Bucketed'
  BY <1>1, <1>2, <1>3, <1>6 DEF Limits, Bucketed
<1>8. ASSUME NEW q \in requests, req'[q].at = "token" PROVE Holding(q)'
  <2>1. q # r /\ req'[q] = req[q]
    BY <1>1, <1>2, <1>8 DEF Shape, Visiting, VisitFields
  <2> QED BY <1>2, <1>3, <1>6, <1>8, <2>1 DEF Limits, Holding, ClientOf
<1> QED BY <1>3, <1>7, <1>8 DEF Limits

LEMMA LimitsAdvanced ==
  ASSUME Shape, Limits, Advance
  PROVE  Limits'
<1>1. /\ UNCHANGED <<deployment, buckets, evicted, req>>
      /\ now' = now + Tick /\ \A r \in requests : req[r].at # "token"
      /\ limiters' = [l \in DOMAIN limiters |->
                        Refilled(limiters[l], config.RPS, config.Burst, Tick)]
      /\ DOMAIN allowance' = DOMAIN allowance
  BY DEF Advance
<1>2. config' = config /\ requests' = requests
  BY <1>1, SameConfig
<1>3. now \in Nat /\ Tick \in Nat
  BY ConfigFacts DEF Shape
<1>4. \A l \in DOMAIN limiters' : limiters'[l] \in 0..Full(config.Burst)
  <2> TAKE l \in DOMAIN limiters'
  <2>1. l \in DOMAIN limiters /\ limiters[l] \in 0..Full(config.Burst) /\ config.RateLimitEnabled
    BY <1>1 DEF Limits, Bucketed
  <2>2. config.RPS \in Nat /\ config.Burst \in Nat /\ Full(config.Burst) \in Nat
    BY <2>1, RateFacts
  <2> DEFINE new == Refilled(limiters[l], config.RPS, config.Burst, Tick)
  <2>3. new \in Int /\ new <= Full(config.Burst) /\ limiters[l] <= new
    <3> DEFINE fill == limiters[l]
               rps == config.RPS
               burst == config.Burst
    <3>1. fill \in Int /\ rps \in Nat /\ burst \in Nat /\ fill <= Full(burst)
      BY <2>1, <2>2
    <3> HIDE DEF fill, rps, burst
    <3>2. LET next == Refilled(fill, rps, burst, Tick)
          IN next \in Int /\ next <= Full(burst) /\ fill <= next
      BY <1>3, <3>1, RefilledFacts
    <3> QED BY <3>2 DEF fill, rps, burst
  <2>4. limiters'[l] = new
    BY <1>1
  <2> HIDE DEF new
  <2> QED BY <2>1, <2>2, <2>3, <2>4
<1>5. \A k \in DOMAIN buckets' : buckets'[k].lastSeen \in 0..now'
  BY <1>1, <1>3 DEF Limits, Bucketed
<1> QED BY <1>1, <1>2, <1>4, <1>5 DEF Limits, Bucketed

\* The steps that leave the limiter alone.
Others(r) ==
  Arrive(r) \/ Replies(r) \/ AskUsage(r) \/ QueryAnswers(r) \/ Finish(r) \/ Panic(r)

LEMMA OthersMove ==
  ASSUME Shape, NEW r \in requests, Others(r)
  PROVE  /\ UNCHANGED <<deployment, now, buckets, limiters, allowance, evicted>>
         /\ \A q \in requests \ {r} : req'[q] = req[q]
         /\ req'[r].at # "token"
<1>0. DOMAIN req = requests
  BY DEF Shape
<1>1. CASE Arrive(r)
  BY <1>0, <1>1 DEF Arrive, limiter
<1>2. CASE Replies(r)
  <2>1. req[r].at \notin {"idle", "done"}
        /\ UNCHANGED <<deployment, now, buckets, limiters, allowance, evicted>>
    BY <1>2, PointsDiffer DEF Replies, RejectRate, RefuseProfile, LookUpProfile, ProxyImage,
      ServeOther, AskUsage, QueryFails, Handling, limiter
  <2> QED BY <1>0, <1>2, <2>1, UnderWay, RepliesAnswer DEF Visiting, Kept
<1>3. CASE AskUsage(r)
  <2>1. Visiting(r) /\ UNCHANGED <<deployment, now, buckets, limiters, allowance, evicted>>
    BY <1>3, UnderWay DEF AskUsage, Handling, limiter
  <2>2. CASE req'[r].at = "answered"
    BY <1>0, <1>3, <2>1, <2>2, RepliesAnswer DEF Visiting, Kept, Replies
  <2>3. CASE req'[r].at # "answered"
    <3> DEFINE in    == req[r].input
               valid == ValidKey(ExtractAPIKey(in.apiKey, in.bearer), config.AdminKeys)
               usage == [since |-> now - ParseWindow(in.window),
                         limit |-> ParseLimit(in.limit), until |-> now, answers |-> <<>>]
    <3>1. \/ Answer(r, 404, "", req[r].event)
          \/ WriteError(r, "unauthorized", req[r].event)
          \/ req' = [req EXCEPT ![r].at = "summary", ![r].usage = usage]
      BY <1>3, Zenon DEF AskUsage
    <3> HIDE DEF usage
    <3>2. ~Answer(r, 404, "", req[r].event)
      <4>1. r \in DOMAIN req /\ DOMAIN req[r] = VisitFields
        BY <1>0, <2>1 DEF Visiting
      <4>2. ASSUME Answer(r, 404, "", req[r].event) PROVE req'[r].at = "answered"
        BY <4>1, <4>2 DEF Answer, VisitFields
      <4> QED BY <2>3, <4>2
    <3>3. ~WriteError(r, "unauthorized", req[r].event)
      BY <1>0, <2>1, <2>3, AnswerKeeps DEF WriteError, Visiting
    <3>4. req' = [req EXCEPT ![r].at = "summary", ![r].usage = usage]
      BY <3>1, <3>2, <3>3
    <3> QED BY <1>0, <2>1, <3>4, AskKeeps DEF Visiting, Kept
  <2> QED BY <2>2, <2>3
<1>4. CASE QueryAnswers(r)
  <2>1. /\ req[r].at \in ToSet(UsageQueries)
        /\ UNCHANGED <<deployment, now, buckets, limiters, allowance, evicted>>
    BY <1>4 DEF QueryAnswers, limiter
  <2>2. Visiting(r)
    BY <2>1, PointsDiffer, UnderWay
  <2>3. PICK n \in 0..5 : Asking(r, n)
    BY <2>1, <2>2 DEF Visiting
  <2>4. Kept(r) /\ (req'[r].at = "answered" \/ (n + 1 \in 0..5 /\ Asking(r, n + 1)'))
    BY <1>0, <1>4, <2>2, <2>3, QueryGoesOn DEF Visiting
  <2>5. req'[r].at \in ToSet(UsageQueries) \cup {"answered"}
    BY <2>4, PointsDiffer DEF Asking
  <2> QED BY <1>0, <2>1, <2>4, <2>5, PointsDiffer DEF Kept
<1>5. CASE Finish(r) \/ Panic(r)
  <2>1. Visiting(r) /\ UNCHANGED <<deployment, now, buckets, limiters, allowance, evicted>>
    BY <1>5, UnderWay DEF Finish, Panic, limiter
  <2>2. PICK response : req' = [req EXCEPT ![r] = Over(r, response)]
    BY <1>5 DEF Finish, Panic
  <2>3. CASE Audited(req[r].input.path)
    BY <1>0, <2>1, <2>2, <2>3, OverKeeps DEF Visiting, Kept
  <2>4. CASE ~Audited(req[r].input.path)
    <3>1. (\A q \in requests \ {r} : req'[q] = req[q]) /\ req'[r] = [at |-> "done"]
      BY <1>0, <2>2, <2>4, OverForgets
    <3>2. req'[r].at = "done"
      BY <3>1
    <3> QED BY <2>1, <3>1, <3>2
  <2> QED BY <2>3, <2>4
<1> QED BY <1>1, <1>2, <1>3, <1>4, <1>5 DEF Others

LEMMA NextKinds ==
  ASSUME Next
  PROVE  \/ \E r \in requests : FindLimiter(r) \/ Admit(r) \/ Others(r)
         \/ Settle \/ Purge \/ Advance
BY Zenon DEF Next, Handle, Others, Replies

LEMMA LimitsLeftAlone ==
  ASSUME Shape, Limits,
         UNCHANGED <<deployment, now, buckets, limiters, allowance, evicted>>,
         \A q \in requests : req'[q].at = "token" => req'[q] = req[q]
  PROVE  Limits'
<1>1. config' = config /\ requests' = requests
  BY SameConfig
<1>2. ASSUME NEW q \in requests, req'[q].at = "token" PROVE Holding(q)'
  <2>1. req'[q] = req[q] /\ Holding(q)
    BY <1>2 DEF Limits
  <2> QED BY <1>1, <2>1 DEF Holding, ClientOf
<1> QED BY <1>1, <1>2 DEF Limits, Bucketed

LEMMA LimitsStep ==
  ASSUME Shape, Limits, Next
  PROVE  Limits'
<1>1. ASSUME NEW r \in requests, Others(r) PROVE Limits'
  BY <1>1, OthersMove, LimitsLeftAlone
<1>2. CASE Settle \/ Purge
  <2>1. UNCHANGED <<deployment, now, buckets, limiters, allowance, evicted, req>>
    BY <1>2 DEF Settle, Purge, limiter
  <2> QED BY <2>1, LimitsLeftAlone
<1> QED BY <1>1, <1>2, NextKinds, LimitsFound, LimitsAdmitted, LimitsAdvanced

------------------------------------------------------------------------------
(* No second burst.                                                         *)

LEMMA MoreTime ==
  ASSUME NEW rps \in Nat, NEW a \in Nat, NEW b \in Nat, a <= b
  PROVE  rps * a <= rps * b
OBVIOUS

LEMMA AddedTime ==
  ASSUME NEW rps \in Nat, NEW a \in Nat, NEW b \in Nat
  PROVE  rps * (a + b) = rps * a + rps * b
OBVIOUS

LEMMA SameClient ==
  ASSUME Shape, Configured, NEW r \in requests, Visiting(r)
  PROVE  ClientOf(r) = req[r].input.client
<1>1. WellAddressed(req[r].input) /\ req[r].input \in inputs[r]
  BY DEF Configured, Visiting
<1>2. deployment \in DOMAIN Deployments /\ config.TrustedProxyDepth >= 0
  BY RateFacts DEF Shape
<1> QED BY <1>1, <1>2, AddressFound DEF ClientOf

LEMMA FairFound ==
  ASSUME Shape, Limits, Limits', Fair, NEW r \in requests, FindLimiter(r)
  PROVE  Fair'
<1> DEFINE c == ClientOf(r)
<1>1. PICK fresh :
           /\ fresh \notin Held(buckets)
           /\ c \in DOMAIN buckets' /\ DOMAIN buckets'[c] = BucketFields
           /\ buckets'[c].lastSeen = now
           /\ buckets'[c].id = IF c \in DOMAIN buckets THEN buckets[c].id ELSE fresh
           /\ \A k \in DOMAIN buckets' \ {c} : k \in DOMAIN buckets /\ buckets'[k] = buckets[k]
           /\ c \in DOMAIN buckets => DOMAIN buckets' = DOMAIN buckets
           /\ IsFiniteSet(DOMAIN buckets') /\ Cardinality(DOMAIN buckets') <= MaxKeys
           /\ DOMAIN limiters' = Held(buckets')
           /\ \A l \in DOMAIN limiters' :
                limiters'[l] = IF l = fresh THEN Full(config.Burst) ELSE limiters[l]
           /\ evicted' = evicted \cup (DOMAIN buckets \ (DOMAIN buckets' \cup Idle(buckets, now)))
           /\ Kept(r) /\ req'[r].at = "token" /\ req'[r].holds = buckets'[c].id
           /\ UNCHANGED <<deployment, now, allowance>>
  BY Finding
<1> HIDE DEF c
<1>2. config' = config /\ requests' = requests /\ inputs' = inputs
  BY <1>1, SameConfig
<1>3. /\ config.RPS \in Nat /\ Full(config.Burst) \in Nat /\ now \in Nat /\ IdleTTL \in Nat
  BY LimitedRates, ConfigFacts, RateLimiterAssumption DEF FindLimiter, Shape
<1> SUFFICES ASSUME Configured'
             PROVE  /\ \A d \in (DOMAIN allowance' \cup DOMAIN buckets') \ evicted' :
                         Left(d)' = Filled(d)'
                    /\ \A k \in DOMAIN buckets' :
                         \/ limiters'[buckets'[k].id] = Full(config.Burst)
                         \/ limiters'[buckets'[k].id] >= config.RPS * (now - buckets'[k].lastSeen)
  BY <1>1, <1>2 DEF Fair
<1>4. Configured
  BY <1>2 DEF Configured, WellAddressed
<1>5. /\ \A d \in (DOMAIN allowance \cup DOMAIN buckets) \ evicted : Left(d) = Filled(d)
      /\ \A k \in DOMAIN buckets :
           \/ limiters[buckets[k].id] = Full(config.Burst)
           \/ limiters[buckets[k].id] >= config.RPS * (now - buckets[k].lastSeen)
  BY <1>4 DEF Fair
<1>6. \A k \in DOMAIN buckets : buckets[k].id # fresh
  BY <1>1, HeldFacts
<1>7. \A k \in DOMAIN buckets' : buckets'[k].id \in DOMAIN limiters'
  BY <1>1, HeldFacts
<1>8. \A d : Left(d)' = Left(d)
  BY <1>1, <1>2 DEF Left
\* A bucket that goes although nobody lost it is full.
<1>9. ASSUME NEW d \in DOMAIN buckets, d \in Idle(buckets, now)
      PROVE  limiters[buckets[d].id] = Full(config.Burst)
  <2> DEFINE fill == limiters[buckets[d].id]
             since == now - buckets[d].lastSeen
  <2>1. fill \in 0..Full(config.Burst)
    BY DEF Limits, Bucketed
  <2>2. since \in Nat /\ IdleTTL <= since
    BY <1>3, <1>9 DEF Limits, Bucketed, Idle
  <2>3. fill = Full(config.Burst) \/ fill >= config.RPS * since
    BY <1>5
  <2>4. Full(config.Burst) <= config.RPS * IdleTTL
    BY <1>4 DEF Configured
  <2> HIDE DEF fill, since
  <2>5. config.RPS * IdleTTL <= config.RPS * since
    BY <1>3, <2>2, MoreTime
  <2>6. config.RPS * IdleTTL \in Nat /\ config.RPS * since \in Nat
    BY <1>3, <2>2
  <2>7. fill = Full(config.Burst)
    <3> DEFINE full == Full(config.Burst)
               idle == config.RPS * IdleTTL
               gone == config.RPS * since
    <3>1. /\ full \in Nat /\ idle \in Nat /\ gone \in Nat /\ fill \in 0..full
          /\ full <= idle /\ idle <= gone /\ (fill = full \/ fill >= gone)
      BY <1>3, <2>1, <2>3, <2>4, <2>5, <2>6
    <3> HIDE DEF full, idle, gone
    <3>2. fill = full
      BY <3>1
    <3> QED BY <3>2 DEF full
  <2> QED BY <2>7 DEF fill
<1>10. ASSUME NEW d \in (DOMAIN allowance' \cup DOMAIN buckets') \ evicted'
       PROVE  Left(d)' = Filled(d)'
  <2>1. d \notin evicted
    BY <1>1
  <2>2. Left(d) = Filled(d)
    <3>1. d \in DOMAIN allowance \cup DOMAIN buckets => Left(d) = Filled(d)
      BY <1>5, <2>1
    <3>2. d \notin DOMAIN allowance \cup DOMAIN buckets => Left(d) = Filled(d)
      BY DEF Left, Filled
    <3> QED BY <3>1, <3>2
  <2>3. CASE d \in DOMAIN buckets'
    <3>1. CASE d \in DOMAIN buckets
      <4>1. buckets'[d].id = buckets[d].id
        BY <1>1, <2>3, <3>1
      <4>2. limiters'[buckets'[d].id] = limiters[buckets[d].id]
        BY <1>1, <1>6, <1>7, <2>3, <3>1, <4>1
      <4> QED BY <1>8, <2>2, <2>3, <3>1, <4>2 DEF Filled
    <3>2. CASE d \notin DOMAIN buckets
      <4>1. buckets'[d].id = fresh
        BY <1>1, <2>3, <3>2
      <4>2. limiters'[buckets'[d].id] = Full(config.Burst)
        BY <1>1, <1>7, <2>3, <4>1
      <4> QED BY <1>8, <2>2, <2>3, <3>2, <4>2 DEF Filled
    <3> QED BY <3>1, <3>2
  <2>4. CASE d \notin DOMAIN buckets'
    <3>1. Filled(d)' = Full(config.Burst)
      BY <1>2, <2>4 DEF Filled
    <3>2. CASE d \in DOMAIN buckets
      <4>1. d \in Idle(buckets, now)
        BY <1>1, <2>4, <3>2
      <4> QED BY <1>8, <1>9, <2>2, <3>1, <3>2, <4>1 DEF Filled
    <3>3. CASE d \notin DOMAIN buckets
      BY <1>8, <2>2, <3>1, <3>3 DEF Filled
    <3> QED BY <3>2, <3>3
  <2> QED BY <2>3, <2>4
<1>11. ASSUME NEW k \in DOMAIN buckets'
       PROVE  \/ limiters'[buckets'[k].id] = Full(config.Burst)
              \/ limiters'[buckets'[k].id] >= config.RPS * (now - buckets'[k].lastSeen)
  <2>1. CASE k = c
    <3>1. limiters'[buckets'[k].id] \in 0..Full(config.Burst)
      BY <1>2, <1>7 DEF Limits, Bucketed
    <3>2. now - buckets'[k].lastSeen = 0
      BY <1>1, <1>3, <2>1
    <3>3. config.RPS * (now - buckets'[k].lastSeen) = 0
      BY <1>3, <3>2
    <3> QED BY <1>3, <3>1, <3>3
  <2>2. CASE k # c
    <3>1. k \in DOMAIN buckets /\ buckets'[k] = buckets[k]
      BY <1>1, <2>2
    <3>2. limiters'[buckets'[k].id] = limiters[buckets[k].id]
      BY <1>1, <1>6, <1>7, <3>1
    <3> QED BY <1>5, <3>1, <3>2
  <2> QED BY <2>1, <2>2
<1> QED BY <1>10, <1>11

LEMMA FairAdmitted ==
  ASSUME Shape, Limits, Fair, NEW r \in requests, Admit(r)
  PROVE  Fair'
<1> DEFINE h == req[r].holds
           c == req[r].input.client
<1>1. /\ limiters' = [limiters EXCEPT ![h] = @ - Token]
      /\ allowance' = [d \in DOMAIN allowance \cup {c} |-> IF d = c THEN Left(c) - Token ELSE Left(d)]
      /\ UNCHANGED <<deployment, now, buckets, evicted>> /\ limiters[h] >= Token
  BY DEF Admit, Left, Allows
<1>2. config' = config /\ requests' = requests /\ inputs' = inputs
  BY <1>1, SameConfig
<1>3. /\ config.RPS \in Nat /\ Full(config.Burst) \in Nat /\ now \in Nat /\ Visiting(r)
      /\ Holding(r) /\ h \in DOMAIN limiters /\ limiters[h] \in 0..Full(config.Burst)
  BY LimitedRates, ConfigFacts DEF Admit, Shape, Limits, Bucketed, Holding
<1> SUFFICES ASSUME Configured'
             PROVE  /\ \A d \in (DOMAIN allowance' \cup DOMAIN buckets') \ evicted' :
                         Left(d)' = Filled(d)'
                    /\ \A k \in DOMAIN buckets' :
                         \/ limiters'[buckets'[k].id] = Full(config.Burst)
                         \/ limiters'[buckets'[k].id] >= config.RPS * (now - buckets'[k].lastSeen)
  BY <1>1, <1>2 DEF Fair
<1>4. Configured
  BY <1>2 DEF Configured, WellAddressed
<1>5. /\ \A d \in (DOMAIN allowance \cup DOMAIN buckets) \ evicted : Left(d) = Filled(d)
      /\ \A k \in DOMAIN buckets :
           \/ limiters[buckets[k].id] = Full(config.Burst)
           \/ limiters[buckets[k].id] >= config.RPS * (now - buckets[k].lastSeen)
  BY <1>4 DEF Fair
<1>6. /\ \A k \in DOMAIN buckets : buckets[k].id = h => k = c /\ buckets[k].lastSeen = now
      /\ c \in evicted \/ (c \in DOMAIN buckets /\ buckets[c].id = h)
  BY <1>3, <1>4, SameClient DEF Holding
<1>7. \A k \in DOMAIN buckets : buckets[k].id \in DOMAIN limiters
  BY DEF Limits, Bucketed
<1> HIDE DEF h, c
<1>8. ASSUME NEW d \in (DOMAIN allowance' \cup DOMAIN buckets') \ evicted'
      PROVE  Left(d)' = Filled(d)'
  <2>1. Left(d) = Filled(d)
    <3>1. d \in DOMAIN allowance \cup DOMAIN buckets => Left(d) = Filled(d)
      BY <1>1, <1>5
    <3>2. d \notin DOMAIN allowance \cup DOMAIN buckets => Left(d) = Filled(d)
      BY DEF Left, Filled
    <3> QED BY <3>1, <3>2
  <2>2. CASE d = c
    <3>1. c \in DOMAIN buckets /\ buckets[c].id = h
      BY <1>1, <1>6, <2>2
    <3>2. Left(d)' = Left(c) - Token
      BY <1>1, <2>2 DEF Left
    <3>3. Filled(d)' = limiters[h] - Token /\ Filled(d) = limiters[h]
      BY <1>1, <1>3, <2>2, <3>1 DEF Filled
    <3> QED BY <2>1, <2>2, <3>2, <3>3
  <2>3. CASE d # c
    <3>1. Left(d)' = Left(d)
      BY <1>1, <1>2, <2>3 DEF Left
    <3>2. Filled(d)' = Filled(d)
      <4>1. CASE d \in DOMAIN buckets
        <5>1. limiters'[buckets[d].id] = limiters[buckets[d].id]
          BY <1>1, <1>6, <1>7, <2>3, <4>1
        <5> QED BY <1>1, <4>1, <5>1 DEF Filled
      <4>2. CASE d \notin DOMAIN buckets
        BY <1>1, <1>2, <4>2 DEF Filled
      <4> QED BY <4>1, <4>2
    <3> QED BY <2>1, <3>1, <3>2
  <2> QED BY <2>2, <2>3
<1>9. ASSUME NEW k \in DOMAIN buckets'
      PROVE  \/ limiters'[buckets'[k].id] = Full(config.Burst)
             \/ limiters'[buckets'[k].id] >= config.RPS * (now - buckets'[k].lastSeen)
  <2>1. CASE buckets[k].id = h
    <3>1. now - buckets'[k].lastSeen = 0
      BY <1>1, <1>3, <1>6, <2>1
    <3>2. config.RPS * (now - buckets'[k].lastSeen) = 0
      BY <1>3, <3>1
    <3>3. limiters'[buckets'[k].id] = limiters[h] - Token
      BY <1>1, <1>3, <2>1
    <3>4. limiters[h] - Token >= 0
      BY <1>1, <1>3 DEF Token
    <3> QED BY <3>2, <3>3, <3>4
  <2>2. CASE buckets[k].id # h
    <3>1. limiters'[buckets'[k].id] = limiters[buckets[k].id] /\ buckets' = buckets
      BY <1>1, <1>7, <2>2
    <3> QED BY <1>5, <3>1
  <2> QED BY <2>1, <2>2
<1> QED BY <1>8, <1>9

LEMMA FairAdvanced ==
  ASSUME Shape, Limits, Fair, Advance
  PROVE  Fair'
<1> DEFINE Later(fill) == Refilled(fill, config.RPS, config.Burst, Tick)
<1>1. /\ UNCHANGED <<deployment, buckets, evicted, req>>
      /\ now' = now + Tick
      /\ limiters' = [l \in DOMAIN limiters |-> Later(limiters[l])]
      /\ allowance' = [d \in DOMAIN allowance |-> Later(allowance[d])]
  BY DEF Advance
<1>2. config' = config /\ requests' = requests /\ inputs' = inputs
  BY <1>1, SameConfig
<1>3. now \in Nat /\ Tick \in Nat
  BY ConfigFacts DEF Shape
<1> SUFFICES ASSUME Configured'
             PROVE  /\ \A d \in (DOMAIN allowance' \cup DOMAIN buckets') \ evicted' :
                         Left(d)' = Filled(d)'
                    /\ \A k \in DOMAIN buckets' :
                         \/ limiters'[buckets'[k].id] = Full(config.Burst)
                         \/ limiters'[buckets'[k].id] >= config.RPS * (now' - buckets'[k].lastSeen)
  BY <1>1, <1>2 DEF Fair
<1>4. Configured
  BY <1>2 DEF Configured, WellAddressed
<1>5. /\ \A d \in (DOMAIN allowance \cup DOMAIN buckets) \ evicted : Left(d) = Filled(d)
      /\ \A k \in DOMAIN buckets :
           \/ limiters[buckets[k].id] = Full(config.Burst)
           \/ limiters[buckets[k].id] >= config.RPS * (now - buckets[k].lastSeen)
  BY <1>4 DEF Fair
<1>6. DOMAIN limiters # {} \/ DOMAIN allowance # {} =>
        config.RPS \in Nat /\ config.Burst \in Nat /\ Full(config.Burst) \in Nat
  BY RateFacts DEF Limits, Bucketed
<1>7. ASSUME DOMAIN limiters # {} \/ DOMAIN allowance # {}
      PROVE  /\ Later(Full(config.Burst)) = Full(config.Burst)
             /\ \A fill \in 0..Full(config.Burst) :
                  /\ Later(fill) \in Int /\ Later(fill) <= Full(config.Burst) /\ fill <= Later(fill)
                  /\ Later(fill) \in {Full(config.Burst), fill + config.RPS * Tick}
  <2> DEFINE rps == config.RPS
             burst == config.Burst
  <2>1. rps \in Nat /\ burst \in Nat /\ Full(burst) \in Nat
    BY <1>6, <1>7
  <2>2. \A fill \in 0..Full(burst) : fill \in Int /\ fill <= Full(burst)
    BY <2>1
  <2>3. Full(burst) \in 0..Full(burst)
    BY <2>1
  <2> HIDE DEF rps, burst
  <2>4. \A fill \in 0..Full(burst) :
          LET next == Refilled(fill, rps, burst, Tick)
          IN /\ next \in Int /\ next <= Full(burst) /\ fill <= next
             /\ next \in {Full(burst), fill + rps * Tick}
    BY <1>3, <2>1, <2>2, RefilledFacts
  <2>5. Refilled(Full(burst), rps, burst, Tick) = Full(burst)
    BY <2>1, <2>3, <2>4
  <2> QED BY <2>4, <2>5 DEF rps, burst
<1> HIDE DEF Later
<1>8. ASSUME NEW d \in (DOMAIN allowance' \cup DOMAIN buckets') \ evicted'
      PROVE  Left(d)' = Filled(d)'
  <2>1. d \in DOMAIN allowance \cup DOMAIN buckets /\ Left(d) = Filled(d)
    BY <1>1, <1>5
  <2>2. d \in DOMAIN buckets => buckets[d].id \in DOMAIN limiters
    BY DEF Limits, Bucketed
  <2>3. DOMAIN limiters # {} \/ DOMAIN allowance # {}
    BY <2>1, <2>2
  <2>4. Later(Full(config.Burst)) = Full(config.Burst)
    BY <1>7, <2>3
  <2>5. Left(d)' = Later(Left(d))
    BY <1>1, <1>2, <2>4 DEF Left
  <2>6. Filled(d)' = Later(Filled(d))
    BY <1>1, <1>2, <2>2, <2>4 DEF Filled
  <2> QED BY <2>1, <2>5, <2>6
<1>9. ASSUME NEW k \in DOMAIN buckets'
      PROVE  \/ limiters'[buckets'[k].id] = Full(config.Burst)
             \/ limiters'[buckets'[k].id] >= config.RPS * (now' - buckets'[k].lastSeen)
  <2> DEFINE fill == limiters[buckets[k].id]
             since == now - buckets[k].lastSeen
             full == Full(config.Burst)
  <2>1. /\ k \in DOMAIN buckets /\ buckets[k].id \in DOMAIN limiters
        /\ fill \in 0..full /\ since \in Nat
    BY <1>1, <1>3 DEF Limits, Bucketed
  <2>2. config.RPS \in Nat /\ full \in Nat
    BY <1>6, <2>1
  <2>3. /\ Later(fill) \in Int /\ Later(fill) <= full /\ fill <= Later(fill)
        /\ Later(fill) = full \/ Later(fill) = fill + config.RPS * Tick
    BY <1>7, <2>1
  <2>4. limiters'[buckets'[k].id] = Later(fill) /\ now' - buckets'[k].lastSeen = since + Tick
    BY <1>1, <1>3, <2>1 DEF Limits, Bucketed
  <2>5. fill = full \/ fill >= config.RPS * since
    BY <1>5, <2>1
  <2> HIDE DEF fill, since, full
  <2>6. config.RPS * (since + Tick) = config.RPS * since + config.RPS * Tick
    BY <1>3, <2>1, <2>2, AddedTime
  <2>7. config.RPS * since \in Nat /\ config.RPS * Tick \in Nat
    BY <1>3, <2>1, <2>2
  <2>8. Later(fill) = full \/ Later(fill) >= config.RPS * (since + Tick)
    <3> DEFINE x == config.RPS * since
               y == config.RPS * Tick
               new == Later(fill)
    <3>1. /\ x \in Nat /\ y \in Nat /\ new \in Int /\ full \in Nat /\ fill \in 0..full
          /\ new <= full /\ fill <= new /\ (new = full \/ new = fill + y)
          /\ (fill = full \/ fill >= x)
      BY <2>1, <2>2, <2>3, <2>5, <2>7
    <3> HIDE DEF x, y, new
    <3>2. new = full \/ new >= x + y
      BY <3>1
    <3> QED BY <2>6, <3>2 DEF x, y, new
  <2> QED BY <2>4, <2>8 DEF full
<1> QED BY <1>8, <1>9

LEMMA FairLeftAlone ==
  ASSUME Fair, UNCHANGED <<deployment, now, buckets, limiters, allowance, evicted>>
  PROVE  Fair'
<1>1. config' = config /\ requests' = requests /\ inputs' = inputs
  BY SameConfig
<1> QED BY <1>1 DEF Fair, Configured, WellAddressed, Left, Filled

LEMMA FairStep ==
  ASSUME Shape, Limits, Limits', Fair, Next
  PROVE  Fair'
<1>1. ASSUME NEW r \in requests, Others(r) PROVE Fair'
  BY <1>1, OthersMove, FairLeftAlone
<1>2. CASE Settle \/ Purge
  <2>1. UNCHANGED <<deployment, now, buckets, limiters, allowance, evicted>>
    BY <1>2 DEF Settle, Purge, limiter
  <2> QED BY <2>1, FairLeftAlone
<1> QED BY <1>1, <1>2, NextKinds, FairFound, FairAdmitted, FairAdvanced

------------------------------------------------------------------------------
(* What holds whenever the program runs.                                    *)

LEMMA AtFirst ==
  ASSUME Init
  PROVE  Shape /\ Limits /\ Fair
<1>1. Shape
  <2>1. maxTime \in Nat
    BY ConfigFacts DEF Init
  <2>2. \A r \in requests : req[r] \in Gone
    BY DEF Init, Gone
  <2> QED BY <2>1, <2>2 DEF Init, Shape
<1>2. DOMAIN buckets = {} /\ DOMAIN limiters = {} /\ DOMAIN allowance = {}
  BY DEF Init
<1>3. \A r \in requests : req[r].at = "idle"
  BY DEF Init
<1>4. Limits
  <2>1. IsFiniteSet(DOMAIN buckets) /\ Cardinality(DOMAIN buckets) = 0
    BY <1>2, FS_EmptySet
  <2>2. Cardinality(DOMAIN buckets) <= MaxKeys
    BY <2>1, RateLimiterAssumption
  <2> QED BY <1>2, <1>3, <2>1, <2>2 DEF Limits, Bucketed
<1>5. Fair
  BY <1>2 DEF Fair
<1> QED BY <1>1, <1>4, <1>5

LEMMA Stuttering ==
  ASSUME Shape, Limits, Fair, UNCHANGED vars
  PROVE  Shape' /\ Limits' /\ Fair'
<1>1. UNCHANGED <<deployment, now, buckets, limiters, allowance, evicted, req>>
  BY DEF vars, limiter
<1>2. Shape'
  BY <1>1 DEF Shape, Visiting, Asking, Starts, Audited, Limited, config, storeOpens, inputs,
    requests, maxTime
<1> QED BY <1>1, <1>2, LimitsLeftAlone, FairLeftAlone

(***************************************************************************)
(* The shape of the state, the limiter's tables and what is left in the    *)
(* buckets are preserved together by every step.                           *)
(***************************************************************************)
THEOREM LimiterInvariant == Spec => [](Shape /\ Limits /\ Fair)
<1>1. ASSUME Shape /\ Limits /\ Fair, [Next]_vars PROVE (Shape /\ Limits /\ Fair)'
  <2>1. CASE Next
    BY <1>1, <2>1, ShapeStep, LimitsStep, FairStep
  <2>2. CASE UNCHANGED vars
    BY <1>1, <2>2, Stuttering
  <2> QED BY <1>1, <2>1, <2>2
<1> QED BY AtFirst, <1>1, PTL DEF Spec

LEMMA FairLimits ==
  ASSUME Fair
  PROVE  LimitedAsConfigured
<1> SUFFICES ASSUME Full(config.Burst) <= config.RPS * IdleTTL,
                    \A input \in UNION Range(inputs) : WellAddressed(input),
                    NEW c \in DOMAIN allowance \ evicted
             PROVE  allowance[c] = IF c \in DOMAIN buckets THEN limiters[buckets[c].id]
                                   ELSE Full(config.Burst)
  BY DEF LimitedAsConfigured
<1>1. Configured
  <2>1. ASSUME NEW r \in requests, NEW input \in inputs[r] PROVE WellAddressed(input)
    <3>1. input \in UNION Range(inputs)
      BY DEF Range, requests
    <3> QED BY <3>1
  <2> QED BY <2>1 DEF Configured
<1>2. Left(c) = Filled(c)
  BY <1>1 DEF Fair
<1> QED BY <1>2 DEF Left, Filled

(***************************************************************************)
(* Behind the proxies that are trusted, a client that lost no bucket it    *)
(* was using has exactly the tokens its own requests have left it, however *)
(* many clients there are, however large the limiter's map is and however  *)
(* the requests interleave between the two locks: dropping idle buckets    *)
(* gives nobody a second burst (internal/api/ratelimit.go:48-78).          *)
(***************************************************************************)
THEOREM AlwaysLimitedAsConfigured == Spec => []LimitedAsConfigured
<1>1. Shape /\ Limits /\ Fair => LimitedAsConfigured
  BY FairLimits
<1> QED BY LimiterInvariant, <1>1, PTL

------------------------------------------------------------------------------
(* The trail: what the answers tell.                                        *)

LEMMA Statuses ==
  /\ StatusFor("rate_limited") = 429 /\ StatusFor("invalid_request") = 400
  /\ StatusFor("internal_error") = 500 /\ StatusFor("upstream_unavailable") = 503
  /\ StatusFor("unauthorized") = 401
  /\ \A code \in Codes : StatusFor(code) # 200
  /\ {"rate_limited", "invalid_request", "internal_error", "upstream_unavailable",
      "unauthorized"} \subseteq Codes
  /\ Blank \notin Codes
BY DEF StatusFor, Codes, Blank

\* A new event, field by field.
LEMMA NewEventFields ==
  /\ NewEvent.profileID = Blank /\ NewEvent.cached = FALSE
  /\ NewEvent.upstreamCalled = FALSE /\ NewEvent.upstreamOutcome = Blank
  /\ NewEvent.retries = 0 /\ NewEvent.rateDecision = "allowed" /\ NewEvent.errorClass = Blank
  /\ EventFields = {"profileID", "credential", "cached", "upstreamCalled", "upstreamOutcome",
                    "retries", "rateDecision", "errorClass", "sections"}
  /\ NewEvent = [f \in EventFields |-> NewEvent[f]]
BY DEF NewEvent, EventFields, Blank, NoSlug

\* What a request that has just been answered tells.
LEMMA ToldAnswered ==
  ASSUME UNCHANGED deployment, NEW r, Kept(r), req'[r].at = "answered",
         Coded(req'[r].response),
         Audited(req[r].input.path) => Fits(req'[r].event, req'[r].response)
  PROVE  Told(r)'
<1>1. req'[r].input = req[r].input
  BY DEF Kept
<1> QED BY <1>1, PointsDiffer DEF Told, Audited, config, storeOpens

\* What a request tells that goes on.
LEMMA ToldOn ==
  ASSUME NEW r \in requests, Visiting(r), Told(r), Kept(r),
         req[r].at \notin {"answered", "done"}, req'[r].at \notin {"answered", "done"},
         req'[r].event = req[r].event, req'[r].response = req[r].response,
         req'[r].at \in ToSet(UsageQueries) => req[r].input.path = "/admin/usage"
  PROVE  Told(r)'
<1>1. req'[r].input = req[r].input
  BY DEF Kept
<1> QED BY <1>1 DEF Told, Coded

LEMMA ToldStill ==
  ASSUME UNCHANGED deployment, NEW q, req'[q] = req[q], Told(q)
  PROVE  Told(q)'
BY DEF Told, Audited, config, storeOpens, Observed

LEMMA RecordedStill ==
  ASSUME UNCHANGED deployment, now \in Nat, now' \in Nat, now <= now',
         NEW q, req'[q] = req[q], RecordsOf(q)' = RecordsOf(q), Recorded(q)
  PROVE  Recorded(q)'
<1>1. \A latency : RecordAfter(q, latency)' = RecordAfter(q, latency)
  BY DEF RecordAfter, ClientOf, config
<1>2. Panicked(q)' = Panicked(q)
  BY DEF Panicked
<1>3. \A latency \in 0..now : latency \in 0..now'
  OBVIOUS
<1> QED BY <1>1, <1>2, <1>3 DEF Recorded

\* A request that is not over has no record.
LEMMA Unrecorded ==
  ASSUME Trail, NEW r \in requests, req[r].at # "done"
  PROVE  RecordsOf(r) = {}
BY DEF Trail, Recorded

\* A step of one request that writes no record.
LEMMA TrailMoved ==
  ASSUME Shape, Trail, UNCHANGED <<deployment, now, trail, pending, store>>, NEW r \in requests,
         \A q \in requests \ {r} : req'[q] = req[q],
         req'[r] \in Gone \/ Told(r)',
         RecordsOf(r) = {}, req'[r] \in Gone \/ req'[r].at # "done" \/ Panicked(r)'
  PROVE  Trail'
<1>1. requests' = requests /\ now \in Nat /\ now' = now
  BY SameConfig, ConfigFacts DEF Shape
<1>2. \A q : RecordsOf(q)' = RecordsOf(q)
  BY DEF RecordsOf
<1>3. ASSUME NEW q \in requests PROVE (req'[q] \in Gone \/ Told(q)') /\ Recorded(q)'
  <2>1. CASE q = r
    BY <1>2, <2>1 DEF Recorded
  <2>2. CASE q # r
    <3>1. req'[q] = req[q] /\ (req[q] \in Gone \/ Told(q)) /\ Recorded(q)
      BY <2>2 DEF Trail
    <3> QED BY <1>1, <1>2, <3>1, ToldStill, RecordedStill
  <2> QED BY <2>1, <2>2
<1>4. /\ \A record \in trail' : record.req \in requests
      /\ pending' \subseteq trail' /\ store' \subseteq {Row(record) : record \in trail'}
  BY DEF Trail
<1> QED BY <1>1, <1>3, <1>4 DEF Trail

\* The notes of a lookup: from the cache, of a retrieval that was let through, or of
\* one that was not.
Noting(found) ==
  /\ found.code \in (Codes \cup {Blank}) \ {"unauthorized"}
  /\ \/ /\ DOMAIN found.notes = {"cached"} /\ found.notes["cached"] = TRUE
        /\ found.code = Blank
     \/ DOMAIN found.notes = {"upstreamOutcome"}
     \/ /\ DOMAIN found.notes = {"upstreamCalled", "upstreamOutcome", "retries"}
        /\ found.notes["upstreamCalled"] = TRUE /\ found.notes["upstreamOutcome"] # Blank

\* What the service may find, and note.
LEMMA FoundNotes ==
  ASSUME deployment \in DOMAIN Deployments, NEW mode, NEW found \in Lookups(mode)
  PROVE  Noting(found)
<1> DEFINE Ends == Codes \ {"unauthorized"}
<1>1. errors \subseteq Ends
  BY PipelineAssumption DEF errors
<1>2. GateErrors \subseteq Ends
  BY DEF GateErrors, Codes
<1>3. Noting(Hit)
  BY DEF Noting, Hit, Blank
<1>4. ASSUME NEW code \in Ends \cup {Blank}, NEW outcome PROVE Noting(Unaided(code, outcome))
  BY Statuses DEF Noting, Unaided
<1>5. ASSUME NEW code \in Ends \cup {Blank}, NEW outcome, outcome # Blank, NEW n
      PROVE  Noting(Retrieved(code, outcome, n))
  BY <1>5, Statuses DEF Noting, Retrieved
<1>6. /\ Blank \notin Ends /\ {"profile_not_found", "caller_session_invalid"} \subseteq Ends
      /\ "ok" # Blank /\ "caller_session_auth_failed" # Blank
  BY DEF Codes, Blank
<1>7. ASSUME NEW code \in {Blank} \cup errors \cup GateErrors, NEW outcome,
             found = Unaided(code, outcome)
      PROVE  Noting(found)
  BY <1>1, <1>2, <1>4, <1>7
<1>8. ASSUME NEW code \in errors, NEW n, found = Retrieved(code, code, n) PROVE Noting(found)
  BY <1>1, <1>5, <1>6, <1>8
<1>9. CASE found \in Fetched
  <2>1. PICK n : found = Retrieved(Blank, "ok", n)
    BY <1>9, Zenon DEF Fetched, Blank
  <2> QED BY <1>5, <1>6, <2>1
<1>10. CASE found \in Failed
  BY <1>8, <1>10 DEF Failed
<1>11. CASE found \in FailedForCaller
  <2>1. PICK code \in errors, n \in 0..config.MaxRetries :
          found = IF code = "upstream_auth_failed"
                  THEN Retrieved("caller_session_invalid", "caller_session_auth_failed", n)
                  ELSE Retrieved(code, code, n)
    BY <1>11 DEF FailedForCaller
  <2>2. CASE found = Retrieved("caller_session_invalid", "caller_session_auth_failed", n)
    BY <1>5, <1>6, <2>2
  <2>3. CASE found = Retrieved(code, code, n)
    BY <1>8, <2>3
  <2> QED BY <2>1, <2>2, <2>3
<1>12. CASE found \in ServerLookups
  <2>1. \/ found = Hit \/ found = Unaided("profile_not_found", Blank)
        \/ \E code \in {Blank} \cup errors \cup GateErrors : found = Unaided(code, Blank)
        \/ found \in Fetched \/ found \in Failed
    BY <1>12, Zenon DEF ServerLookups, Blank
  <2> QED BY <1>3, <1>4, <1>6, <1>7, <1>9, <1>10, <2>1
<1>13. CASE found \in CallerLookups
  <2>1. \/ found = Unaided("caller_session_invalid", "caller_session_expired")
        \/ \E code \in GateErrors : found = Unaided(code, Blank)
        \/ found \in Fetched \/ found \in FailedForCaller
    BY <1>13, Zenon DEF CallerLookups, Blank
  <2> QED BY <1>4, <1>6, <1>7, <1>9, <1>11, <2>1
<1> QED BY <1>12, <1>13 DEF Lookups

\* What an event may say of a request that did not go to LinkedIn; or that did.
LEMMA ConsistentValues ==
  ASSUME NEW code \in Codes \cup {Blank}, NEW status, NEW decision, NEW slug,
         NEW called, NEW cached, NEW outcome, NEW retries,
         code # "unauthorized", decision \in {"allowed", "ip_limited"},
         status = IF code = Blank THEN 200 ELSE StatusFor(code),
         decision = "ip_limited" => status = 429 /\ slug = Blank,
         status = 429 /\ slug = Blank => decision = "ip_limited"
  PROVE  /\ called = FALSE /\ cached = FALSE /\ retries = 0
              => Consistent(code, status, decision, slug, called, cached, outcome, retries)
         /\ called = FALSE /\ cached = TRUE /\ retries = 0 /\ slug # Blank /\ code = Blank
              => Consistent(code, status, decision, slug, called, cached, outcome, retries)
         /\ called = TRUE /\ cached = FALSE /\ slug # Blank /\ outcome # Blank
              => Consistent(code, status, decision, slug, called, cached, outcome, retries)
<1>1. (code = Blank) = (status = 200)
  <2>1. code = Blank => status = 200
    OBVIOUS
  <2>2. code # Blank => status # 200
    BY Statuses
  <2> QED BY <2>1, <2>2
<1>2. retries = 0 => ~(retries > 0)
  OBVIOUS
<1> QED BY <1>1, <1>2, Zenon DEF Consistent

\* A profile request's event when it is answered: whatever was found, it fits.
LEMMA ProfileFits ==
  ASSUME NEW found, Noting(found), NEW id, id # NoSlug, NEW begun,
         DOMAIN begun = EventFields, begun.profileID = id,
         \A f \in EventFields \ {"profileID", "credential"} : begun[f] = NewEvent[f],
         NEW event, NEW response, DOMAIN event = EventFields, event.errorClass = response.code,
         \A f \in EventFields \ {"errorClass", "sections"} :
           event[f] = IF f \in DOMAIN found.notes THEN found.notes[f] ELSE begun[f],
         response.code = found.code,
         response.status = IF found.code = Blank THEN 200 ELSE StatusFor(found.code)
  PROVE  Fits(event, response)
<1> DEFINE notes == found.notes
           code == response.code
           status == response.status
           decision == event.rateDecision
           slug == event.profileID
           called == event.upstreamCalled
           cached == event.cached
           outcome == event.upstreamOutcome
           retries == event.retries
<1>1. /\ begun.cached = FALSE /\ begun.upstreamCalled = FALSE
      /\ begun.retries = 0 /\ begun.rateDecision = "allowed" /\ id # Blank
  BY NewEventFields DEF NoSlug, Blank
<1>2. {"profileID", "cached", "upstreamCalled", "upstreamOutcome", "retries", "rateDecision"}
        \subseteq EventFields \ {"errorClass", "sections"}
  BY NewEventFields
<1>3. \A f \in EventFields \ {"errorClass", "sections"} :
        event[f] = IF f \in DOMAIN notes THEN notes[f] ELSE begun[f]
  OBVIOUS
<1>4. /\ code \in Codes \cup {Blank} /\ code # "unauthorized"
      /\ status = IF code = Blank THEN 200 ELSE StatusFor(code)
  BY DEF Noting
<1>5. Fits(event, response)
        <=> Consistent(code, status, decision, slug, called, cached, outcome, retries)
  BY Zenon DEF Fits
<1>6. \/ DOMAIN notes = {"cached"} /\ notes["cached"] = TRUE /\ code = Blank
      \/ DOMAIN notes = {"upstreamOutcome"}
      \/ /\ DOMAIN notes = {"upstreamCalled", "upstreamOutcome", "retries"}
         /\ notes["upstreamCalled"] = TRUE /\ notes["upstreamOutcome"] # Blank
  BY DEF Noting
<1> HIDE DEF notes, code, status
<1>7. CASE DOMAIN notes = {"cached"} /\ notes["cached"] = TRUE /\ code = Blank
  <2>1. slug = id /\ cached = TRUE /\ called = FALSE /\ retries = 0 /\ decision = "allowed"
    BY <1>1, <1>2, <1>3, <1>7
  <2> HIDE DEF decision, slug, called, cached, outcome, retries
  <2> QED BY <1>1, <1>4, <1>5, <1>7, <2>1, ConsistentValues
<1>8. CASE DOMAIN notes = {"upstreamOutcome"}
  <2>1. slug = id /\ cached = FALSE /\ called = FALSE /\ retries = 0 /\ decision = "allowed"
    BY <1>1, <1>2, <1>3, <1>8
  <2> HIDE DEF decision, slug, called, cached, outcome, retries
  <2> QED BY <1>1, <1>4, <1>5, <2>1, ConsistentValues
<1>9. CASE /\ DOMAIN notes = {"upstreamCalled", "upstreamOutcome", "retries"}
           /\ notes["upstreamCalled"] = TRUE /\ notes["upstreamOutcome"] # Blank
  <2>1. slug = id /\ cached = FALSE /\ called = TRUE /\ outcome # Blank /\ decision = "allowed"
    BY <1>1, <1>2, <1>3, <1>9
  <2> HIDE DEF decision, slug, called, cached, outcome, retries
  <2> QED BY <1>1, <1>4, <1>5, <2>1, ConsistentValues
<1> QED BY <1>6, <1>7, <1>8, <1>9

\* An event on which nothing but the code, and perhaps the limiter's decision, is noted.
Plain(event, response) ==
  /\ DOMAIN event = EventFields /\ event.errorClass = response.code
  /\ \A f \in EventFields \ {"rateDecision", "errorClass"} : event[f] = NewEvent[f]
  /\ response.code \in Codes \cup {Blank}
  /\ response.status = IF response.code = Blank THEN 200 ELSE StatusFor(response.code)
  /\ event.rateDecision \in {"allowed", "ip_limited"}
  /\ event.rateDecision = "ip_limited" => response.status = 429
  /\ response.status = 429 => event.rateDecision = "ip_limited"

LEMMA PlainFits ==
  ASSUME NEW event, NEW response, Plain(event, response)
  PROVE  /\ Coded(response)
         /\ response.code # "unauthorized" => Fits(event, response)
<1> DEFINE code == response.code
           status == response.status
           decision == event.rateDecision
           slug == event.profileID
           called == event.upstreamCalled
           cached == event.cached
           outcome == event.upstreamOutcome
           retries == event.retries
<1>1. {"profileID", "cached", "upstreamCalled", "retries"}
        \subseteq EventFields \ {"rateDecision", "errorClass"}
  BY NewEventFields
<1>2. slug = Blank /\ cached = FALSE /\ called = FALSE
  BY <1>1, NewEventFields DEF Plain
<1>3. retries = 0
  BY <1>1, NewEventFields DEF Plain
<1>4. Fits(event, response)
        <=> Consistent(code, status, decision, slug, called, cached, outcome, retries)
  BY Zenon DEF Fits, Plain
<1>5. Coded(response)
  BY DEF Coded, Plain
<1>6. code \in Codes \cup {Blank} /\ status = IF code = Blank THEN 200 ELSE StatusFor(code)
  BY DEF Plain
<1>7. /\ decision \in {"allowed", "ip_limited"}
      /\ (decision = "ip_limited" => status = 429) /\ (status = 429 => decision = "ip_limited")
  BY DEF Plain
<1> HIDE DEF code, status, decision, slug, called, cached, outcome, retries
<1>8. code # "unauthorized"
        => Consistent(code, status, decision, slug, called, cached, outcome, retries)
  <2>1. (code = Blank) = (status = 200)
    <3>1. code = Blank => status = 200
      BY <1>6
    <3>2. code # Blank => status # 200
      BY <1>6, Statuses
    <3> QED BY <3>1, <3>2
  <2>2. retries = 0 => ~(retries > 0)
    OBVIOUS
  <2> QED BY <1>2, <1>3, <1>7, <2>1, <2>2, Zenon DEF Consistent
<1> QED BY <1>4, <1>5, <1>8 DEF code

\* What is known of a request that is not yet answered.
LEMMA Untold ==
  ASSUME Shape, Trail, NEW r \in requests, req[r].at \notin {"idle", "answered", "done"}
  PROVE  /\ Visiting(r) /\ Told(r) /\ RecordsOf(r) = {}
         /\ req[r].event = NewEvent /\ req[r].response = NoResponse /\ r \in DOMAIN req
<1>1. Visiting(r) /\ r \in DOMAIN req
  BY UnderWay DEF Shape
<1>2. Told(r)
  <2>1. req[r] \notin Gone
    BY <1>1, NotGone DEF Visiting
  <2> QED BY <2>1 DEF Trail
<1> QED BY <1>1, <1>2, Unrecorded DEF Told

\* An error on a new event, without and with the limiter's decision.
LEMMA PlainError ==
  ASSUME NEW code \in Codes, StatusFor(code) # 429, NEW event, NEW response,
         event = [NewEvent EXCEPT !.errorClass = code],
         response = [status |-> StatusFor(code), code |-> code]
  PROVE  Plain(event, response)
<1>1. /\ DOMAIN event = EventFields /\ event.errorClass = code
      /\ \A f \in EventFields \ {"rateDecision", "errorClass"} : event[f] = NewEvent[f]
      /\ event.rateDecision = "allowed"
  BY NewEventFields
<1>2. response.code = code /\ response.status = StatusFor(code)
  OBVIOUS
<1>3. code # Blank
  BY Statuses
<1> QED BY <1>1, <1>2, <1>3 DEF Plain

LEMMA PlainLimited ==
  ASSUME NEW event, NEW response,
         event = [[NewEvent EXCEPT !.rateDecision = "ip_limited"] EXCEPT !.errorClass = "rate_limited"],
         response = [status |-> StatusFor("rate_limited"), code |-> "rate_limited"]
  PROVE  Plain(event, response)
<1>1. /\ DOMAIN event = EventFields /\ event.errorClass = "rate_limited"
      /\ \A f \in EventFields \ {"rateDecision", "errorClass"} : event[f] = NewEvent[f]
      /\ event.rateDecision = "ip_limited"
  BY NewEventFields
<1>2. response.code = "rate_limited" /\ response.status = StatusFor("rate_limited")
  OBVIOUS
<1>3. "rate_limited" \in Codes /\ "rate_limited" # Blank /\ StatusFor("rate_limited") = 429
  BY Statuses
<1> QED BY <1>1, <1>2, <1>3 DEF Plain

LEMMA PlainOK ==
  ASSUME NEW response, response = [status |-> 200, code |-> Blank]
  PROVE  Plain(NewEvent, response)
<1>1. /\ DOMAIN NewEvent = EventFields /\ NewEvent.errorClass = Blank
      /\ NewEvent.rateDecision = "allowed"
  BY NewEventFields
<1>2. response.code = Blank /\ response.status = 200
  OBVIOUS
<1> QED BY <1>1, <1>2 DEF Plain

\* An error that is written on a new event is told.
LEMMA ErrorTold ==
  ASSUME NEW r \in DOMAIN req, DOMAIN req[r] = VisitFields, UNCHANGED deployment,
         NEW code \in Codes, StatusFor(code) # 429,
         code = "unauthorized" => ~Audited(req[r].input.path),
         req[r].event = NewEvent, WriteError(r, code, req[r].event)
  PROVE  Told(r)'
<1>1. /\ Kept(r) /\ req'[r].at = "answered" /\ req'[r].event = [NewEvent EXCEPT !.errorClass = code]
      /\ req'[r].response = [status |-> StatusFor(code), code |-> code]
  BY AnswerKeeps DEF WriteError
<1>2. /\ Coded(req'[r].response)
      /\ code # "unauthorized" => Fits(req'[r].event, req'[r].response)
  BY <1>1, PlainError, PlainFits
<1> QED BY <1>1, <1>2, ToldAnswered

\* A success on a new event, or an answer to a request that is not audited.
LEMMA BlankKeeps ==
  ASSUME NEW r \in DOMAIN req, DOMAIN req[r] = VisitFields, NEW status, NEW event,
         Answer(r, status, "", event)
  PROVE  /\ Kept(r) /\ req'[r].at = "answered" /\ req'[r].event = event
         /\ req'[r].response = [status |-> status, code |-> Blank]
BY Zenon DEF Answer, Kept, VisitFields, Blank

LEMMA SuccessTold ==
  ASSUME UNCHANGED deployment, NEW r, NEW status, Kept(r), req'[r].at = "answered",
         req'[r].event = NewEvent, req'[r].response = [status |-> status, code |-> Blank],
         Audited(req[r].input.path) => status = 200
  PROVE  Told(r)'
<1>1. Coded(req'[r].response)
  BY DEF Coded
<1>2. status = 200 => Fits(req'[r].event, req'[r].response)
  BY PlainOK, PlainFits, Statuses
<1> QED BY <1>1, <1>2, ToldAnswered

\* Every answer is told.
LEMMA RepliesTold ==
  ASSUME Shape, Trail, NEW r \in requests, Replies(r)
  PROVE  Told(r)'
<1>0. UNCHANGED deployment
  BY Zenon DEF Replies, RejectRate, RefuseProfile, LookUpProfile, ProxyImage, ServeOther,
    AskUsage, QueryFails
<1>1. req[r].at \notin {"idle", "answered", "done"}
  BY PointsDiffer DEF Replies, RejectRate, RefuseProfile, LookUpProfile, ProxyImage, ServeOther,
    AskUsage, QueryFails, Handling
<1>2. /\ Told(r) /\ req[r].event = NewEvent /\ r \in DOMAIN req /\ DOMAIN req[r] = VisitFields
      /\ deployment \in DOMAIN Deployments
  BY <1>1, Untold DEF Visiting, Shape
<1>3. /\ StatusFor("invalid_request") # 429 /\ StatusFor("internal_error") # 429
      /\ StatusFor("upstream_unavailable") # 429 /\ StatusFor("unauthorized") # 429
      /\ {"rate_limited", "invalid_request", "internal_error", "upstream_unavailable",
          "unauthorized"} \subseteq Codes
  BY Statuses
<1>4. CASE RejectRate(r)
  <2>1. WriteError(r, "rate_limited", [req[r].event EXCEPT !.rateDecision = "ip_limited"])
    BY <1>4 DEF RejectRate
  <2>2. /\ Kept(r) /\ req'[r].at = "answered"
        /\ req'[r].event = [[NewEvent EXCEPT !.rateDecision = "ip_limited"]
                              EXCEPT !.errorClass = "rate_limited"]
        /\ req'[r].response = [status |-> StatusFor("rate_limited"), code |-> "rate_limited"]
    BY <1>2, <2>1, AnswerKeeps DEF WriteError
  <2>3. Fits(req'[r].event, req'[r].response) /\ Coded(req'[r].response)
    BY <2>2, PlainLimited, PlainFits
  <2> QED BY <1>0, <2>2, <2>3, ToldAnswered
<1>5. CASE RefuseProfile(r)
  BY <1>0, <1>2, <1>3, <1>5, ErrorTold DEF RefuseProfile
<1>6. CASE QueryFails(r)
  BY <1>0, <1>2, <1>3, <1>6, ErrorTold DEF QueryFails
<1>7. CASE ProxyImage(r)
  <2>1. \/ WriteError(r, "invalid_request", req[r].event)
        \/ WriteError(r, "upstream_unavailable", req[r].event)
        \/ Answer(r, 200, "", req[r].event)
    BY <1>7, Zenon DEF ProxyImage, WriteOK
  <2>2. CASE Answer(r, 200, "", req[r].event)
    <3>1. /\ Kept(r) /\ req'[r].at = "answered" /\ req'[r].event = NewEvent
          /\ req'[r].response = [status |-> 200, code |-> Blank]
      BY <1>2, <2>2, Zenon DEF Answer, Kept, VisitFields, Blank
    <3> QED BY <1>0, <3>1, SuccessTold
  <2>3. CASE WriteError(r, "invalid_request", req[r].event)
    BY <1>0, <1>2, <1>3, <2>3, ErrorTold
  <2>4. CASE WriteError(r, "upstream_unavailable", req[r].event)
    BY <1>0, <1>2, <1>3, <2>4, ErrorTold
  <2> QED BY <2>1, <2>2, <2>3, <2>4, Zenon
<1>8. CASE ServeOther(r)
  <2>1. PICK status : /\ Answer(r, status, "", req[r].event)
                      /\ req[r].input.path \in {"/healthz", "/readyz", "/metrics", "/index.html"}
    BY <1>8, Zenon DEF ServeOther, Handling
  <2>2. /\ Kept(r) /\ req'[r].at = "answered" /\ req'[r].event = NewEvent
        /\ req'[r].response = [status |-> status, code |-> Blank]
    BY <1>2, <2>1, BlankKeeps, Zenon
  <2>3. req[r].input.path \in {"/healthz", "/readyz", "/metrics", "/index.html"}
    BY <2>1, Zenon
  <2>4. ~Audited(req[r].input.path)
    BY <2>3 DEF Audited
  <2> QED BY <1>0, <2>2, <2>4, SuccessTold
<1>9. CASE AskUsage(r) /\ req'[r].at = "answered"
  <2> DEFINE in    == req[r].input
             valid == ValidKey(ExtractAPIKey(in.apiKey, in.bearer), config.AdminKeys)
             usage == [since |-> now - ParseWindow(in.window),
                       limit |-> ParseLimit(in.limit), until |-> now, answers |-> <<>>]
  <2>1. \/ \E status : Answer(r, status, "", req[r].event)
        \/ WriteError(r, "unauthorized", req[r].event)
        \/ req' = [req EXCEPT ![r].at = "summary", ![r].usage = usage]
    BY <1>9, Zenon DEF AskUsage
  <2> HIDE DEF usage
  <2>2. ~(req' = [req EXCEPT ![r].at = "summary", ![r].usage = usage])
    BY <1>2, <1>9, AskKeeps
  <2>3. CASE \E status : Answer(r, status, "", req[r].event)
    <3>0. PICK status : Answer(r, status, "", req[r].event)
      BY <2>3, Zenon
    <3>1. /\ Kept(r) /\ req'[r].at = "answered" /\ req'[r].event = NewEvent
          /\ req'[r].response = [status |-> status, code |-> Blank]
      BY <1>2, <3>0, BlankKeeps, Zenon
    <3>2. ~Audited(req[r].input.path)
      BY <1>9 DEF AskUsage, Handling, Audited
    <3> QED BY <1>0, <3>1, <3>2, SuccessTold
  <2>4. CASE WriteError(r, "unauthorized", req[r].event)
    <3>1. ~Audited(req[r].input.path)
      BY <1>9 DEF AskUsage, Handling, Audited
    <3> QED BY <1>0, <1>2, <1>3, <2>4, <3>1, ErrorTold
  <2> QED BY <2>1, <2>2, <2>3, <2>4, Zenon
<1>10. CASE LookUpProfile(r)
  <2> DEFINE cred  == CredentialIn(r)[1]
             id    == ParseURL(req[r].input.url)
             begun == [req[r].event EXCEPT !.profileID = id, !.credential = cred]
             event(found) == Noted(begun, found.notes)
  <2>1. /\ id # NoSlug
        /\ \E found \in Lookups(cred.mode), sections \in SectionLists :
             IF found.code = "" THEN WriteOK(r, [event(found) EXCEPT !.sections = sections])
             ELSE WriteError(r, found.code, event(found))
    BY <1>10, Zenon DEF LookUpProfile
  <2>2. /\ DOMAIN begun = EventFields /\ begun.profileID = id /\ id # NoSlug
        /\ \A f \in EventFields \ {"profileID", "credential"} : begun[f] = NewEvent[f]
    <3>1. id # NoSlug
      BY <2>1, Zenon
    <3> QED BY <1>2, <3>1, NewEventFields
  <2> HIDE DEF begun
  <2>3. PICK found \in Lookups(cred.mode), sections \in SectionLists :
          IF found.code = "" THEN WriteOK(r, [event(found) EXCEPT !.sections = sections])
          ELSE WriteError(r, found.code, event(found))
    BY <2>1, Zenon
  <2> DEFINE noted == event(found)
  <2>4. Noting(found)
    BY <1>2, FoundNotes
  <2>5. /\ DOMAIN noted = EventFields
        /\ \A f \in EventFields : noted[f] = IF f \in DOMAIN found.notes THEN found.notes[f]
                                             ELSE begun[f]
    BY <2>2 DEF Noted
  <2>6. \/ found.code = Blank /\ Answer(r, 200, "", [noted EXCEPT !.sections = sections])
        \/ found.code # Blank /\ WriteError(r, found.code, noted)
    BY <2>3, Zenon DEF WriteOK, Blank
  <2> HIDE DEF noted, event, id, cred
  <2>7. CASE found.code = Blank /\ Answer(r, 200, "", [noted EXCEPT !.sections = sections])
    <3>1. /\ Kept(r) /\ req'[r].at = "answered"
          /\ req'[r].event = [noted EXCEPT !.sections = sections]
          /\ req'[r].response = [status |-> 200, code |-> Blank]
      BY <1>2, <2>7, Zenon DEF Answer, Kept, VisitFields, Blank
    <3>2. /\ found.code = Blank /\ found.notes["cached"] = found.notes["cached"]
      BY <2>7, Zenon
    <3> DEFINE e == req'[r].event
               response == req'[r].response
    <3>3. /\ DOMAIN e = EventFields
          /\ \A f \in EventFields \ {"errorClass", "sections"} :
               e[f] = IF f \in DOMAIN found.notes THEN found.notes[f] ELSE begun[f]
      BY <2>5, <3>1
    <3>4. e.errorClass = Blank
      <4>1. "errorClass" \notin DOMAIN found.notes
        BY <2>4 DEF Noting
      <4>2. noted["errorClass"] = Blank
        BY <2>2, <2>5, <4>1, NewEventFields
      <4> QED BY <2>5, <3>1, <4>2, NewEventFields
    <3>5. response.code = Blank /\ response.status = 200
      BY <3>1
    <3> HIDE DEF e, response
    <3>6. Fits(e, response)
      BY <2>2, <2>4, <3>2, <3>3, <3>4, <3>5, ProfileFits
    <3>7. Coded(response)
      BY <3>5 DEF Coded
    <3> QED BY <1>0, <3>1, <3>6, <3>7, ToldAnswered DEF e, response
  <2>8. CASE found.code # Blank /\ WriteError(r, found.code, noted)
    <3> DEFINE code == found.code
    <3>1. /\ Kept(r) /\ req'[r].at = "answered"
          /\ req'[r].event = [noted EXCEPT !.errorClass = code]
          /\ req'[r].response = [status |-> StatusFor(code), code |-> code]
      BY <1>2, <2>8, AnswerKeeps DEF WriteError
    <3> DEFINE e == req'[r].event
               response == req'[r].response
    <3>2. /\ DOMAIN e = EventFields /\ e.errorClass = code
          /\ \A f \in EventFields \ {"errorClass", "sections"} :
               e[f] = IF f \in DOMAIN found.notes THEN found.notes[f] ELSE begun[f]
      BY <2>5, <3>1, NewEventFields
    <3>3. response.code = code /\ response.status = StatusFor(code) /\ code # Blank /\ code \in Codes
      BY <2>4, <2>8, <3>1 DEF Noting
    <3> HIDE DEF e, response
    <3>4. Fits(e, response)
      BY <2>2, <2>4, <3>2, <3>3, ProfileFits
    <3>5. Coded(response)
      BY <3>3 DEF Coded
    <3> QED BY <1>0, <3>1, <3>4, <3>5, ToldAnswered DEF e, response
  <2> QED BY <2>6, <2>7, <2>8, Zenon
<1> QED BY <1>4, <1>5, <1>6, <1>7, <1>8, <1>9, <1>10, Zenon DEF Replies

\* What is left of a record: its own fields, and those of the event.
LEMMA RecordFields ==
  ASSUME NEW r, DOMAIN req[r].event = EventFields,
         NEW latency, NEW record, record = RecordAfter(r, latency)
  PROVE  /\ record.req = r /\ record.requestID = req[r].id /\ record.clientIP = ClientOf(r)
         /\ record.status = req[r].response.status /\ record.latency = latency
         /\ \A f \in EventFields : record[f] = req[r].event[f]
<1> DEFINE own == [req |-> r, ts |-> req[r].start, requestID |-> req[r].id,
                   clientIP |-> ClientOf(r), status |-> req[r].response.status,
                   latency |-> latency]
<1>1. record = [f \in DOMAIN own \cup EventFields |->
                  IF f \in DOMAIN own THEN own[f] ELSE req[r].event[f]]
  BY DEF RecordAfter
<1>2. DOMAIN own = {"req", "ts", "requestID", "clientIP", "status", "latency"}
  OBVIOUS
<1>3. /\ own["req"] = r /\ own["requestID"] = req[r].id /\ own["clientIP"] = ClientOf(r)
      /\ own["status"] = req[r].response.status /\ own["latency"] = latency
  OBVIOUS
<1> HIDE DEF own
<1>4. \A f \in EventFields : f \notin DOMAIN own
  BY <1>2, NewEventFields
<1>5. \A f \in DOMAIN own \cup EventFields :
        record[f] = IF f \in DOMAIN own THEN own[f] ELSE req[r].event[f]
  BY <1>1
<1>6. \A f \in {"req", "requestID", "clientIP", "status", "latency"} : record[f] = own[f]
  BY <1>2, <1>5
<1>7. \A f \in EventFields : record[f] = req[r].event[f]
  BY <1>4, <1>5
<1> QED BY <1>3, <1>6, <1>7

\* A request that did not panic is not taken for one that did.
LEMMA FitsNotPanicked ==
  ASSUME NEW r, Fits(req[r].event, req[r].response)
  PROVE  ~Panicked(r)
<1>1. req[r].event.errorClass = req[r].response.code
  BY DEF Fits
<1>2. "internal_error" # Blank
  BY Statuses
<1> QED BY <1>1, <1>2 DEF Panicked

\* A step that moves no request and keeps the trail.
LEMMA TrailWaits ==
  ASSUME Shape, Trail, UNCHANGED <<deployment, req, trail>>,
         now' \in Nat, now <= now',
         pending' \subseteq trail, store' \subseteq {Row(record) : record \in trail}
  PROVE  Trail'
<1>1. requests' = requests /\ now \in Nat
  BY SameConfig, ConfigFacts DEF Shape
<1>2. ASSUME NEW q \in requests PROVE (req'[q] \in Gone \/ Told(q)') /\ Recorded(q)'
  <2>1. req'[q] = req[q] /\ (req[q] \in Gone \/ Told(q)) /\ Recorded(q)
    BY DEF Trail
  <2>2. RecordsOf(q)' = RecordsOf(q)
    BY DEF RecordsOf
  <2> QED BY <1>1, <2>1, <2>2, ToldStill, RecordedStill
<1>3. \A record \in trail' : record.req \in requests
  BY DEF Trail
<1> QED BY <1>1, <1>2, <1>3 DEF Trail

LEMMA TrailFinished ==
  ASSUME Shape, Trail, NEW r \in requests, Finish(r)
  PROVE  Trail'
<1> DEFINE records == IF Audited(req[r].input.path) THEN {Record(r)} ELSE {}
<1>1. /\ UNCHANGED <<deployment, now, store>>
      /\ trail' = trail \cup records
      /\ pending' = IF storeOpens THEN pending \cup records ELSE pending
      /\ req' = [req EXCEPT ![r] = Over(r, req[r].response)]
      /\ req[r].at = "answered"
  BY DEF Finish
<1>2. /\ requests' = requests /\ now \in Nat /\ now' = now /\ DOMAIN req = requests
      /\ Visiting(r)
  <2>1. Visiting(r)
    BY <1>1, UnderWay
  <2>2. now \in Nat
    BY ConfigFacts DEF Shape
  <2> QED BY <1>1, <2>1, <2>2, SameConfig DEF Shape
<1>3. Told(r) /\ RecordsOf(r) = {}
  <2>1. req[r] \notin Gone
    BY <1>2, NotGone DEF Visiting
  <2> QED BY <1>1, <2>1, Unrecorded DEF Trail
<1>4. DOMAIN req[r] = VisitFields /\ req[r].start \in 0..now
  BY <1>2 DEF Visiting
<1>5. PICK latency \in 0..now : Record(r) = RecordAfter(r, latency)
  <2>1. now - req[r].start \in 0..now
    BY <1>2, <1>4
  <2>2. Record(r) = RecordAfter(r, now - req[r].start)
    BY DEF Record, RecordAfter
  <2> QED BY <2>1, <2>2
<1>6. Record(r).req = r
  BY <1>5 DEF RecordAfter
<1>7. \A q \in requests \ {r} : RecordsOf(q)' = RecordsOf(q)
  BY <1>1, <1>6 DEF RecordsOf
<1>8. RecordsOf(r)' = records
  BY <1>1, <1>3, <1>6 DEF RecordsOf
<1>9. \A q \in requests \ {r} : req'[q] = req[q]
  BY <1>1, <1>2
<1>10. ASSUME NEW q \in requests, q # r PROVE (req'[q] \in Gone \/ Told(q)') /\ Recorded(q)'
  <2>1. req'[q] = req[q] /\ (req[q] \in Gone \/ Told(q)) /\ Recorded(q)
    BY <1>9, <1>10 DEF Trail
  <2>2. RecordsOf(q)' = RecordsOf(q)
    BY <1>7, <1>10
  <2> QED BY <1>1, <1>2, <2>1, <2>2, ToldStill, RecordedStill
<1>11. (req'[r] \in Gone \/ Told(r)') /\ Recorded(r)'
  <2>1. CASE Audited(req[r].input.path)
    <3>1. /\ Kept(r) /\ req'[r].at = "done" /\ req'[r].event = req[r].event
          /\ req'[r].response = req[r].response
          /\ req'[r].observed = <<Observed(r, req[r].response.status)>>
      BY <1>1, <1>2, <1>4, <2>1, OverKeeps
    <3>2. /\ Fits(req[r].event, req[r].response) /\ Coded(req[r].response)
      BY <1>1, <1>3, <2>1 DEF Told
    <3>3. Told(r)'
      <4>1. req'[r].input = req[r].input
        BY <3>1 DEF Kept
      <4>2. req'[r].observed = <<Observed(r, req[r].response.status)'>>
        BY <3>1, <4>1 DEF Observed
      <4>3. Fits(req'[r].event, req'[r].response) /\ Coded(req'[r].response)
        BY <3>1, <3>2
      <4> QED BY <3>1, <4>2, <4>3, PointsDiffer DEF Told
    <3>4. Panicked(r)' = Panicked(r) /\ ~Panicked(r)
      BY <3>1, <3>2, FitsNotPanicked DEF Panicked
    <3>5. RecordsOf(r)' = {RecordAfter(r, latency)'}
      <4>1. ClientOf(r)' = ClientOf(r)
        BY <1>1, <3>1 DEF Kept, ClientOf, config
      <4>2. RecordAfter(r, latency)' = RecordAfter(r, latency)
        BY <3>1, <4>1 DEF Kept, RecordAfter
      <4> QED BY <1>5, <1>8, <2>1, <4>2 DEF records
    <3>6. req'[r] \notin Gone
      BY <3>1, NotGone DEF Kept, Gone, VisitFields
    <3> QED BY <1>2, <1>5, <3>1, <3>3, <3>4, <3>5, <3>6 DEF Recorded
  <2>2. CASE ~Audited(req[r].input.path)
    <3>1. req'[r] = [at |-> "done"]
      BY <1>1, <1>2, <2>2, OverForgets
    <3>2. RecordsOf(r)' = {}
      BY <1>8, <2>2
    <3> QED BY <3>1, <3>2 DEF Gone, Recorded
  <2> QED BY <2>1, <2>2
<1>12. \A record \in trail' : record.req \in requests
  BY <1>1, <1>6 DEF Trail
<1>13. pending' \subseteq trail' /\ store' \subseteq {Row(record) : record \in trail'}
  BY <1>1 DEF Trail
<1> QED BY <1>2, <1>10, <1>11, <1>12, <1>13 DEF Trail

LEMMA TrailPanicked ==
  ASSUME Shape, Trail, NEW r \in requests, Panic(r)
  PROVE  Trail'
<1>1. /\ UNCHANGED <<deployment, now, trail, pending, store>>
      /\ req' = [req EXCEPT ![r] = Over(r, InternalError)]
      /\ req[r].at = "handler"
  BY DEF Panic
<1>2. /\ Visiting(r) /\ RecordsOf(r) = {} /\ req[r].event = NewEvent /\ r \in DOMAIN req
      /\ DOMAIN req[r] = VisitFields
  BY <1>1, Untold DEF Visiting
<1>3. CASE Audited(req[r].input.path)
  <2>1. /\ Kept(r) /\ req'[r].at = "done" /\ req'[r].event = NewEvent
        /\ req'[r].response = InternalError
        /\ req'[r].observed = <<Observed(r, InternalError.status)>>
    BY <1>1, <1>2, <1>3, OverKeeps
  <2>2. InternalError.code = "internal_error" /\ InternalError.status = StatusFor("internal_error")
    BY DEF InternalError
  <2>3. Coded(req'[r].response)
    BY <2>1, <2>2, Statuses DEF Coded
  <2>4. Told(r)'
    <3>1. req'[r].input = req[r].input
      BY <2>1 DEF Kept
    <3>2. req'[r].observed = <<Observed(r, req[r].response.status)'>>
      BY <2>1, <3>1 DEF Observed
    <3> QED BY <2>1, <2>3, <3>2, PointsDiffer DEF Told
  <2>5. Panicked(r)'
    BY <2>1, <2>2, NewEventFields DEF Panicked
  <2> QED BY <1>1, <1>2, <2>1, <2>4, <2>5, TrailMoved DEF Kept
<1>4. CASE ~Audited(req[r].input.path)
  <2>1. (\A q \in DOMAIN req \ {r} : req'[q] = req[q]) /\ req'[r] = [at |-> "done"]
    BY <1>1, <1>2, <1>4, OverForgets
  <2>2. req'[r] \in Gone /\ DOMAIN req = requests
    BY <2>1 DEF Gone, Shape
  <2> QED BY <1>1, <1>2, <2>1, <2>2, TrailMoved
<1> QED BY <1>3, <1>4

\* A request that goes on, still without an answer.
LEMMA TrailOn ==
  ASSUME Shape, Trail, UNCHANGED <<deployment, now, trail, pending, store>>, NEW r \in requests,
         req[r].at \notin {"idle", "answered", "done"}, Kept(r),
         req'[r].at \notin {"answered", "done"},
         req'[r].event = req[r].event, req'[r].response = req[r].response,
         req'[r].at \in ToSet(UsageQueries) => req[r].input.path = "/admin/usage"
  PROVE  Trail'
<1>1. Visiting(r) /\ Told(r) /\ RecordsOf(r) = {} /\ DOMAIN req = requests
  BY Untold DEF Shape
<1>2. Told(r)'
  BY <1>1, ToldOn
<1> QED BY <1>1, <1>2, TrailMoved DEF Kept

\* Every step keeps the trail.
LEMMA TrailStep ==
  ASSUME Shape, Limits, Trail, Next
  PROVE  Trail'
<1>0. DOMAIN req = requests /\ now \in Nat
  BY ConfigFacts DEF Shape
<1>1. ASSUME NEW r \in requests, Arrive(r) PROVE Trail'
  <2>1. /\ UNCHANGED <<deployment, now, trail, pending, store>> /\ req[r].at = "idle"
        /\ \A q \in requests \ {r} : req'[q] = req[q]
    BY <1>0, <1>1 DEF Arrive
  <2>2. /\ req'[r].at \in {"limiter", "handler"} /\ req'[r].event = NewEvent
        /\ req'[r].response = NoResponse
    <3>1. PICK input \in inputs[r] :
            req' = [req EXCEPT ![r] =
                     [at |-> IF Limited(input.path) THEN "limiter" ELSE "handler",
                      input |-> input, start |-> now, id |-> RequestID(input.id, ToString(r)),
                      event |-> NewEvent, response |-> NoResponse, holds |-> 0,
                      usage |-> <<>>, observed |-> <<>>]]
      BY <1>1 DEF Arrive
    <3> QED BY <1>0, <3>1
  <2>3. Coded(req'[r].response)
    <3>1. NoResponse.code = Blank
      BY DEF NoResponse, Blank
    <3> QED BY <2>2, <3>1 DEF Coded
  <2>4. Told(r)'
    BY <2>2, <2>3, PointsDiffer DEF Told
  <2> QED BY <2>1, <2>2, <2>4, Unrecorded, TrailMoved
<1>2. ASSUME NEW r \in requests, FindLimiter(r) PROVE Trail'
  <2>1. /\ UNCHANGED <<deployment, now, trail, pending, store>> /\ req[r].at = "limiter"
        /\ Visiting(r)
    BY <1>2, UnderWay DEF FindLimiter
  <2>2. PICK id : req' = [req EXCEPT ![r].at = "token", ![r].holds = id]
    BY <1>2 DEF FindLimiter
  <2>3. /\ Kept(r) /\ req'[r].at = "token" /\ req'[r].event = req[r].event
        /\ req'[r].response = req[r].response
    BY <1>0, <2>1, <2>2, HeldKeeps DEF Visiting
  <2> QED BY <2>1, <2>3, TrailOn, PointsDiffer
<1>3. ASSUME NEW r \in requests, Admit(r) PROVE Trail'
  <2>1. /\ UNCHANGED <<deployment, now, trail, pending, store>> /\ req[r].at = "token"
        /\ Visiting(r)
    BY <1>3, UnderWay DEF Admit
  <2>2. /\ Kept(r) /\ req'[r].at = "handler" /\ req'[r].event = req[r].event
        /\ req'[r].response = req[r].response
    BY <1>0, <1>3, <2>1 DEF Visiting, Admit, Goto, Kept, VisitFields
  <2> QED BY <2>1, <2>2, TrailOn, PointsDiffer
<1>4. ASSUME NEW r \in requests, Replies(r) PROVE Trail'
  <2>1. UNCHANGED <<deployment, now, trail, pending, store>>
    BY <1>4, Zenon DEF Replies, RejectRate, RefuseProfile, LookUpProfile, ProxyImage, ServeOther,
      AskUsage, QueryFails
  <2>2. req[r].at \notin {"idle", "answered", "done"}
    BY <1>4, PointsDiffer DEF Replies, RejectRate, RefuseProfile, LookUpProfile, ProxyImage,
      ServeOther, AskUsage, QueryFails, Handling
  <2>3. Visiting(r) /\ RecordsOf(r) = {}
    BY <2>2, Untold
  <2>4. Kept(r) /\ req'[r].at = "answered" /\ Told(r)'
    BY <1>0, <1>4, <2>3, RepliesAnswer, RepliesTold DEF Visiting
  <2> QED BY <1>0, <2>1, <2>3, <2>4, TrailMoved DEF Kept
<1>5. ASSUME NEW r \in requests, AskUsage(r), req'[r].at # "answered" PROVE Trail'
  <2>1. /\ UNCHANGED <<deployment, now, trail, pending, store>> /\ req[r].at = "handler"
        /\ Visiting(r) /\ req[r].input.path = "/admin/usage"
    BY <1>5, UnderWay DEF AskUsage, Handling
  <2> DEFINE in    == req[r].input
             valid == ValidKey(ExtractAPIKey(in.apiKey, in.bearer), config.AdminKeys)
             usage == [since |-> now - ParseWindow(in.window),
                       limit |-> ParseLimit(in.limit), until |-> now, answers |-> <<>>]
  <2>2. \/ \E status : Answer(r, status, "", req[r].event)
        \/ WriteError(r, "unauthorized", req[r].event)
        \/ req' = [req EXCEPT ![r].at = "summary", ![r].usage = usage]
    BY <1>5, Zenon DEF AskUsage
  <2> HIDE DEF usage
  <2>3. ~ \E status : Answer(r, status, "", req[r].event)
    <3>1. r \in DOMAIN req /\ DOMAIN req[r] = VisitFields
      BY <1>0, <2>1 DEF Visiting
    <3> QED BY <1>5, <3>1, BlankKeeps, Zenon
  <2>4. ~WriteError(r, "unauthorized", req[r].event)
    BY <1>0, <1>5, <2>1, AnswerKeeps DEF WriteError, Visiting
  <2>5. req' = [req EXCEPT ![r].at = "summary", ![r].usage = usage]
    BY <2>2, <2>3, <2>4, Zenon
  <2>6. /\ Kept(r) /\ req'[r].at = "summary" /\ req'[r].event = req[r].event
        /\ req'[r].response = req[r].response
    BY <1>0, <2>1, <2>5, AskKeeps DEF Visiting
  <2> QED BY <2>1, <2>6, TrailOn
<1>6. ASSUME NEW r \in requests, QueryAnswers(r) PROVE Trail'
  <2>1. /\ UNCHANGED <<deployment, now, trail, pending, store>>
        /\ req[r].at \in ToSet(UsageQueries) \ {"idle", "answered", "done"}
    BY <1>6, PointsDiffer DEF QueryAnswers
  <2>2. /\ Visiting(r) /\ Told(r) /\ RecordsOf(r) = {} /\ req[r].event = NewEvent
        /\ req[r].input.path = "/admin/usage"
    BY <2>1, Untold DEF Told
  <2>3. PICK n \in 0..5 : Asking(r, n)
    BY <2>1, <2>2 DEF Visiting
  <2>4. /\ Kept(r) /\ req'[r].event = req[r].event
        /\ \/ req'[r].at = "answered" /\ req'[r].response = [status |-> 200, code |-> ""]
           \/ n + 1 \in 0..5 /\ Asking(r, n + 1)' /\ req'[r].response = req[r].response
    BY <1>0, <1>6, <2>2, <2>3, QueryGoesOn, Zenon DEF Visiting
  <2>5. CASE req'[r].at = "answered" /\ req'[r].response = [status |-> 200, code |-> ""]
    <3>1. req'[r].at = "answered" /\ req'[r].response = [status |-> 200, code |-> Blank]
      BY <2>5, Zenon DEF Blank
    <3>2. ~Audited(req[r].input.path)
      BY <2>2 DEF Audited
    <3>3. Kept(r) /\ req'[r].event = NewEvent
      BY <2>2, <2>4, Zenon
    <3>4. Told(r)'
      BY <2>1, <3>1, <3>2, <3>3, SuccessTold
    <3> QED BY <1>0, <2>1, <2>2, <3>1, <3>3, <3>4, TrailMoved DEF Kept
  <2>6. CASE n + 1 \in 0..5 /\ Asking(r, n + 1)' /\ req'[r].response = req[r].response
    <3>1. req'[r].at \in ToSet(UsageQueries)
      BY <2>6, PointsDiffer DEF Asking
    <3>2. req'[r].at \notin {"answered", "done"}
      BY <3>1, PointsDiffer
    <3>3. Kept(r) /\ req'[r].event = req[r].event
      BY <2>4, Zenon
    <3> QED BY <2>1, <2>2, <2>6, <3>2, <3>3, TrailOn
  <2> QED BY <2>4, <2>5, <2>6, Zenon
<1>7. ASSUME Settle PROVE Trail'
  <2>1. PICK record \in pending :
          pending' = pending \ {record} /\ store' \in {store, store \cup {Row(record)}}
    BY <1>7 DEF Settle
  <2>2. UNCHANGED <<deployment, now, req, trail>>
    BY <1>7 DEF Settle
  <2>3. pending' \subseteq trail /\ store' \subseteq {Row(x) : x \in trail}
    BY <2>1 DEF Trail
  <2> QED BY <1>0, <2>2, <2>3, TrailWaits
<1>8. ASSUME Purge PROVE Trail'
  <2>1. UNCHANGED <<deployment, now, req, trail, pending>> /\ store' \subseteq store
    BY <1>8 DEF Purge
  <2>2. pending' \subseteq trail /\ store' \subseteq {Row(x) : x \in trail}
    BY <2>1 DEF Trail
  <2> QED BY <1>0, <2>1, <2>2, TrailWaits
<1>9. ASSUME Advance PROVE Trail'
  <2>1. UNCHANGED <<deployment, req, trail, pending, store>> /\ now' = now + Tick
    BY <1>9 DEF Advance
  <2>2. now' \in Nat /\ now <= now'
    BY <1>0, <2>1, ConfigFacts DEF Shape
  <2>3. pending' \subseteq trail /\ store' \subseteq {Row(x) : x \in trail}
    BY <2>1 DEF Trail
  <2> QED BY <2>1, <2>2, <2>3, TrailWaits
<1> QED BY <1>1, <1>2, <1>3, <1>4, <1>5, <1>6, <1>7, <1>8, <1>9, TrailFinished, TrailPanicked,
  Zenon DEF Next, Handle, Replies

------------------------------------------------------------------------------
(* The invariant of the whole pipeline, and what follows from it.           *)

LEMMA TrailAtFirst ==
  ASSUME Init
  PROVE  Trail
<1>1. /\ \A r \in requests : req[r] = [at |-> "idle"]
      /\ trail = {} /\ pending = {} /\ store = {}
  BY DEF Init
<1>2. \A r : RecordsOf(r) = {}
  BY <1>1 DEF RecordsOf
<1>3. \A r \in requests : req[r] \in Gone /\ Recorded(r)
  BY <1>1, <1>2 DEF Gone, Recorded
<1> QED BY <1>1, <1>3 DEF Trail

(***************************************************************************)
(* The shape of the state, the limiter's tables and the trail are          *)
(* preserved together by every step.                                       *)
(***************************************************************************)
THEOREM PipelineInvariant == Spec => [](Shape /\ Limits /\ Trail)
<1>1. Init => Trail
  BY TrailAtFirst
<1>2. ASSUME Shape /\ Limits /\ Fair, Trail, [Next]_vars PROVE Trail'
  <2>1. CASE Next
    BY <1>2, <2>1, TrailStep
  <2>2. CASE UNCHANGED vars
    <3>1. /\ UNCHANGED <<deployment, req, trail, now>> /\ pending' = pending /\ store' = store
      BY <2>2 DEF vars
    <3>2. now \in Nat
      BY <1>2, ConfigFacts DEF Shape
    <3>3. pending' \subseteq trail /\ store' \subseteq {Row(x) : x \in trail}
      BY <1>2, <3>1 DEF Trail
    <3> QED BY <1>2, <3>1, <3>2, <3>3, TrailWaits
  <2> QED BY <1>2, <2>1, <2>2
<1> QED BY LimiterInvariant, <1>1, <1>2, PTL DEF Spec

\* What is known of a request whose fields are there.
LEMMA OfArrived ==
  ASSUME Shape, Trail, NEW r \in Arrived
  PROVE  /\ r \in requests /\ req[r] \notin Gone
         /\ Visiting(r) /\ Told(r) /\ Recorded(r)
<1>1. r \in requests /\ req[r].at # "idle" /\ req[r] # [at |-> "done"]
  BY DEF Arrived
<1>2. req[r] \notin Gone
  BY <1>1 DEF Gone
<1> QED BY <1>1, <1>2 DEF Shape, Trail

\* A request that is over and did not panic was audited, and its event fits its answer.
LEMMA OfFinished ==
  ASSUME NEW r, Visiting(r), Told(r), req[r].at = "done", ~Panicked(r)
  PROVE  Audited(req[r].input.path) /\ Fits(req[r].event, req[r].response)
<1>1. Audited(req[r].input.path)
  BY DEF Visiting
<1>2. ~(req[r].event = NewEvent /\ req[r].response = InternalError)
  <2>1. InternalError.code = "internal_error"
    BY DEF InternalError
  <2> QED BY <2>1, NewEventFields DEF Panicked
<1> QED BY <1>1, <1>2 DEF Told

\* A record is the one of a request that is over.
LEMMA OfRecord ==
  ASSUME Shape, Trail, NEW record \in trail, NEW r, r = record.req
  PROVE  /\ r \in Arrived /\ req[r].at = "done" /\ ~Panicked(r)
         /\ Fits(req[r].event, req[r].response)
         /\ \E latency \in 0..now : record = RecordAfter(r, latency)
<1>1. r \in requests /\ Recorded(r) /\ record \in RecordsOf(r)
  BY DEF Trail, RecordsOf
<1>2. /\ req[r] \notin Gone /\ req[r].at = "done" /\ ~Panicked(r)
      /\ \E latency \in 0..now : RecordsOf(r) = {RecordAfter(r, latency)}
  BY <1>1 DEF Recorded
<1>3. Visiting(r) /\ Told(r)
  BY <1>1, <1>2 DEF Shape, Trail
<1>4. Fits(req[r].event, req[r].response)
  BY <1>2, <1>3, OfFinished
<1>5. r \in Arrived
  BY <1>1, <1>2 DEF Arrived, Gone
<1>6. \E latency \in 0..now : record = RecordAfter(r, latency)
  BY <1>1, <1>2
<1> QED BY <1>2, <1>4, <1>5, <1>6

LEMMA TypesFollow ==
  ASSUME Shape, Limits, Trail
  PROVE  TypeOK
<1>1. now \in 0..maxTime
  BY DEF Shape
<1>2. /\ Cardinality(DOMAIN buckets) <= MaxKeys
      /\ \A k \in DOMAIN buckets :
           buckets[k].id \in DOMAIN limiters /\ buckets[k].lastSeen \in 0..now
      /\ \A l \in DOMAIN limiters : limiters[l] \in 0..Full(config.Burst)
  BY DEF Limits, Bucketed
<1>3. \A r \in requests : req[r].at \in Points
  BY DEF Shape, Gone, Visiting, Points
<1>4. ASSUME NEW r \in Arrived
      PROVE  /\ req[r].response.code \in Codes \cup {Blank}
             /\ req[r].response.code # Blank =>
                  req[r].response.status = StatusFor(req[r].response.code)
             /\ req[r].at = "done" =>
                  req[r].observed = <<Observed(r, req[r].response.status)>>
  BY OfArrived DEF Told, Coded
<1>5. ASSUME NEW record \in trail PROVE record.req \in Arrived /\ record.latency \in 0..now
  <2>1. PICK latency \in 0..now : record = RecordAfter(record.req, latency)
    BY OfRecord
  <2>2. DOMAIN req[record.req].event = EventFields
    BY OfRecord DEF Fits
  <2>3. record.latency = latency
    BY <2>1, <2>2, RecordFields
  <2> QED BY <2>1, <2>3, OfRecord
<1>6. pending \subseteq trail /\ store \subseteq {Row(record) : record \in trail}
  BY DEF Trail
<1> QED BY <1>1, <1>2, <1>3, <1>4, <1>5, <1>6, Zenon DEF TypeOK, Blank

(***************************************************************************)
(* However many clients ask, the limiter's map never outgrows its cap, no  *)
(* bucket holds more than the burst, every answer has a code and a status  *)
(* that go together, and every record is one of a request that is over     *)
(* (internal/api/ratelimit.go:27-61, errors.go:27-46).                     *)
(***************************************************************************)
THEOREM TypeCorrect == Spec => []TypeOK
<1>1. Shape /\ Limits /\ Trail => TypeOK
  BY TypesFollow
<1> QED BY PipelineInvariant, <1>1, PTL

\* The address of a request that is known to the limiter and the audit middleware.
LEMMA OwnAddress ==
  ASSUME Shape, NEW r \in requests, Visiting(r), WellAddressed(req[r].input)
  PROVE  ClientOf(r) = req[r].input.client
<1>1. req[r].input \in inputs[r] /\ deployment \in DOMAIN Deployments
  BY DEF Visiting, Shape
<1>2. config.TrustedProxyDepth >= 0
  BY RateFacts
<1> QED BY <1>1, <1>2, AddressFound DEF ClientOf

LEMMA AddressesFollow ==
  ASSUME Shape, Limits, Trail
  PROVE  AddressedAsItself
<1> SUFFICES ASSUME NEW r \in Arrived, WellAddressed(req[r].input)
             PROVE  /\ req[r].at = "token" =>
                         \E k \in DOMAIN buckets \cup evicted : k = req[r].input.client
                    /\ \A record \in trail :
                         record.req = r => record.clientIP = req[r].input.client
  BY DEF AddressedAsItself
<1>1. r \in requests /\ ClientOf(r) = req[r].input.client
  BY OfArrived, OwnAddress
<1>2. req[r].at = "token" => ClientOf(r) \in DOMAIN buckets \cup evicted
  BY <1>1 DEF Limits, Holding
<1>3. ASSUME NEW record \in trail, record.req = r PROVE record.clientIP = ClientOf(r)
  <2>1. PICK latency \in 0..now : record = RecordAfter(r, latency)
    BY <1>3, OfRecord
  <2>2. DOMAIN req[r].event = EventFields
    BY <1>3, OfRecord DEF Fits
  <2> QED BY <2>1, <2>2, RecordFields
<1> QED BY <1>1, <1>2, <1>3

(***************************************************************************)
(* Whatever X-Forwarded-For a client sends, and however many proxies the   *)
(* deployment trusts, a request that came through exactly these is limited *)
(* and recorded under its own client's address                             *)
(* (internal/api/middleware.go:86-112, ratelimit.go:82, audit.go:34).      *)
(***************************************************************************)
THEOREM AlwaysAddressedAsItself == Spec => []AddressedAsItself
<1>1. Shape /\ Limits /\ Trail => AddressedAsItself
  BY AddressesFollow
<1> QED BY PipelineInvariant, <1>1, PTL

\* What records a request has.
LEMMA RecordsCounted ==
  ASSUME Shape, Trail, NEW r \in Arrived
  PROVE  /\ Cardinality(RecordsOf(r)) = IF Finished(r) /\ ~Panicked(r) THEN 1 ELSE 0
         /\ RecordsOf(r) # {} => Finished(r)
<1>1. req[r] \notin Gone /\ Visiting(r) /\ Told(r) /\ Recorded(r)
  BY OfArrived
<1>2. CASE req[r].at = "done" /\ ~Panicked(r)
  <2>1. Audited(req[r].input.path)
    BY <1>1, <1>2 DEF Visiting
  <2>2. PICK latency \in 0..now : RecordsOf(r) = {RecordAfter(r, latency)}
    BY <1>1, <1>2 DEF Recorded
  <2>3. Cardinality(RecordsOf(r)) = 1
    BY <2>2, FS_Singleton
  <2> QED BY <1>2, <2>1, <2>3 DEF Finished
<1>3. CASE ~(req[r].at = "done" /\ ~Panicked(r))
  <2>1. RecordsOf(r) = {}
    BY <1>1, <1>3 DEF Recorded
  <2>2. Cardinality(RecordsOf(r)) = 0
    BY <2>1, FS_EmptySet
  <2> QED BY <1>3, <2>1, <2>2 DEF Finished
<1> QED BY <1>2, <1>3

\* What a record of a request says.
LEMMA RecordTells ==
  ASSUME Shape, Trail, NEW r \in Arrived, NEW record \in RecordsOf(r)
  PROVE  /\ record.status = req[r].response.status /\ record.errorClass = req[r].response.code
         /\ record.requestID = req[r].id
         /\ Consistent(record.errorClass, record.status, record.rateDecision, record.profileID,
                       record.upstreamCalled, record.cached, record.upstreamOutcome,
                       record.retries)
<1>1. record \in trail /\ record.req = r
  BY DEF RecordsOf
<1>2. PICK latency \in 0..now : record = RecordAfter(r, latency)
  BY <1>1, OfRecord
<1>3. Fits(req[r].event, req[r].response)
  BY <1>1, OfRecord
<1>4. /\ record.requestID = req[r].id /\ record.status = req[r].response.status
      /\ \A f \in EventFields : record[f] = req[r].event[f]
  BY <1>2, <1>3, RecordFields DEF Fits
<1> DEFINE event == req[r].event
<1>5. /\ record.errorClass = event.errorClass /\ record.rateDecision = event.rateDecision
      /\ record.profileID = event.profileID /\ record.upstreamCalled = event.upstreamCalled
      /\ record.cached = event.cached /\ record.upstreamOutcome = event.upstreamOutcome
      /\ record.retries = event.retries
  BY <1>4, NewEventFields
<1> QED BY <1>3, <1>4, <1>5, Zenon DEF Fits

LEMMA TrailFollows ==
  ASSUME Shape, Trail
  PROVE  TrailMatches
<1>1. \A r : Unhandled(r) <=> Panicked(r)
  BY Zenon DEF Unhandled, Panicked, Blank
<1>2. ASSUME NEW r \in Arrived, NEW record \in RecordsOf(r) PROVE Agrees(record, r)
  <2>1. /\ record.status = req[r].response.status /\ record.errorClass = req[r].response.code
        /\ record.requestID = req[r].id
    BY RecordTells
  <2>2. Consistent(record.errorClass, record.status, record.rateDecision, record.profileID,
                   record.upstreamCalled, record.cached, record.upstreamOutcome, record.retries)
    BY RecordTells
  <2> QED BY <2>1, <2>2, Zenon DEF Agrees, Consistent, Blank
<1>3. ASSUME NEW r \in Arrived
      PROVE  /\ \/ Cardinality(RecordsOf(r)) = 1
                \/ Cardinality(RecordsOf(r)) = 0 /\ (Finished(r) => Unhandled(r))
             /\ RecordsOf(r) # {} => Finished(r)
  <2>1. /\ Cardinality(RecordsOf(r)) = IF Finished(r) /\ ~Panicked(r) THEN 1 ELSE 0
        /\ RecordsOf(r) # {} => Finished(r)
    BY RecordsCounted
  <2> QED BY <1>1, <2>1
<1> QED BY <1>2, <1>3 DEF TrailMatches

(***************************************************************************)
(* However the requests interleave and whatever the service notes on their *)
(* events, a request to the API that was answered by the limiter or a      *)
(* handler leaves one record, and none leaves two; a record has the        *)
(* answer's status, error and id, and its fields agree: one that           *)
(* was turned away did nothing else, what came from the cache did not go   *)
(* to LinkedIn, and what went there says how it ended                      *)
(* (internal/api/audit.go:21-46, router.go:48-56, errors.go:51-65,         *)
(* internal/service/profile.go:150-252).                                   *)
(***************************************************************************)
THEOREM TrailAlwaysMatches == Spec => []TrailMatches
<1>1. Shape /\ Limits /\ Trail => TrailMatches
  BY TrailFollows
<1> QED BY PipelineInvariant, <1>1, PTL
------------------------------------------------------------------------------
(* The figures of the usage report.                                        *)

\* Sets of rows that have none in common.
LEMMA FourApart ==
  ASSUME NEW S, IsFiniteSet(S),
         NEW A \in SUBSET S, NEW B \in SUBSET S, NEW C \in SUBSET S, NEW D \in SUBSET S,
         A \cap B = {}, A \cap C = {}, A \cap D = {}, B \cap C = {}, B \cap D = {}, C \cap D = {}
  PROVE  Cardinality(A) + Cardinality(B) + Cardinality(C) + Cardinality(D) <= Cardinality(S)
<1> DEFINE AB == A \cup B
           CD == C \cup D
<1>1. /\ AB \in SUBSET S /\ CD \in SUBSET S /\ AB \cup CD \in SUBSET S
      /\ AB \cap CD = {}
  OBVIOUS
<1>2. /\ IsFiniteSet(A) /\ IsFiniteSet(B) /\ IsFiniteSet(C) /\ IsFiniteSet(D)
  BY FS_Subset
<1>3. Cardinality(A \cap B) = 0 /\ Cardinality(C \cap D) = 0
  BY FS_EmptySet
<1>4. Cardinality(AB) = Cardinality(A) + Cardinality(B) - Cardinality(A \cap B)
  BY <1>2, FS_Union
<1>5. Cardinality(CD) = Cardinality(C) + Cardinality(D) - Cardinality(C \cap D)
  BY <1>2, FS_Union
<1> HIDE DEF AB, CD
<1>6. IsFiniteSet(AB) /\ IsFiniteSet(CD)
  BY <1>1, FS_Subset
<1>7. Cardinality(AB \cap CD) = 0
  BY <1>1, FS_EmptySet
<1>8. Cardinality(AB \cup CD) = Cardinality(AB) + Cardinality(CD) - Cardinality(AB \cap CD)
  BY <1>6, FS_Union
<1>9. Cardinality(AB \cup CD) <= Cardinality(S)
  BY <1>1, FS_Subset
<1>10. /\ Cardinality(A) \in Nat /\ Cardinality(B) \in Nat
       /\ Cardinality(C) \in Nat /\ Cardinality(D) \in Nat
       /\ Cardinality(S) \in Nat
  BY <1>2, FS_CardinalityType
<1>11. Cardinality(AB) = Cardinality(A) + Cardinality(B)
  BY <1>3, <1>4, <1>10
<1>12. Cardinality(CD) = Cardinality(C) + Cardinality(D)
  BY <1>3, <1>5, <1>10
<1>13. Cardinality(AB \cup CD) = Cardinality(AB) + Cardinality(CD)
  BY <1>7, <1>8, <1>10, <1>11, <1>12
<1> QED BY <1>9, <1>10, <1>11, <1>12, <1>13

\* The figures, one by one.
LEMMA Figures ==
  ASSUME NEW rows, NEW totals, totals = Totals(rows)
  PROVE  /\ totals.total = Cardinality(rows)
         /\ totals.cacheHits = Cardinality({row \in rows : Cached(row)})
         /\ totals.cacheMisses = Cardinality({row \in rows : Missed(row)})
         /\ totals.upstreamHits = Cardinality({row \in rows : Called(row)})
         /\ totals.rateLimited = Cardinality({row \in rows : RateLimited(row)})
         /\ totals.authFailures = Cardinality({row \in rows : row.errorClass = "unauthorized"})
         /\ totals.notFound = Cardinality({row \in rows : row.errorClass = "profile_not_found"})
         /\ totals.serverErrors = Cardinality({row \in rows : row.status >= 500})
BY DEF Totals

\* A row is the record of a request whose event fits its answer.
Sound(row) ==
  /\ Consistent(row.errorClass, row.status, row.rateDecision, row.profileID,
                row.upstreamCalled, row.cached, row.upstreamOutcome, row.retries)
  /\ row.errorClass = "profile_not_found" => row.status = 404

\* What a row counts as.
LEMMA CountsOnce ==
  ASSUME NEW row, Sound(row)
  PROVE  /\ ~(Cached(row) /\ Called(row)) /\ ~(Cached(row) /\ RateLimited(row))
         /\ ~(Called(row) /\ RateLimited(row))
         /\ row.errorClass # "unauthorized"
         /\ Cached(row) => row.status = 200
         /\ RateLimited(row) => row.status = 429
         /\ row.errorClass = "profile_not_found" => row.status = 404
<1>1. /\ row.errorClass # "unauthorized" /\ row.rateDecision \in {"allowed", "ip_limited"}
      /\ row.rateDecision = "ip_limited" => row.status = 429 /\ row.profileID = Blank
      /\ row.profileID = Blank => ~row.upstreamCalled /\ ~row.cached
      /\ row.cached => row.status = 200 /\ ~row.upstreamCalled
      /\ row.errorClass = "profile_not_found" => row.status = 404
  BY Zenon DEF Sound, Consistent
<1>2. RateLimited(row) => row.rateDecision = "ip_limited"
  BY <1>1 DEF RateLimited
<1> QED BY <1>1, <1>2, Zenon DEF Cached, Called

\* The figures of sound rows fit together.
LEMMA FiguresFit ==
  ASSUME NEW rows, IsFiniteSet(rows), \A row \in rows : Sound(row),
         NEW totals, totals = Totals(rows)
  PROVE  /\ totals.cacheHits + totals.cacheMisses + totals.rateLimited <= totals.total
         /\ totals.cacheMisses = totals.upstreamHits
         /\ totals.notFound + totals.serverErrors + totals.cacheHits + totals.rateLimited
              <= totals.total
         /\ totals.authFailures = 0
<1> DEFINE Hits     == {row \in rows : Cached(row)}
           Misses   == {row \in rows : Missed(row)}
           Calls    == {row \in rows : Called(row)}
           Limiteds == {row \in rows : RateLimited(row)}
           Refused  == {row \in rows : row.errorClass = "unauthorized"}
           Unknown  == {row \in rows : row.errorClass = "profile_not_found"}
           Errors   == {row \in rows : row.status >= 500}
<1>1. /\ Refused = {} /\ Misses = Calls
      /\ Hits \cap Calls = {} /\ Hits \cap Limiteds = {} /\ Calls \cap Limiteds = {}
  <2>1. \A row \in rows :
          /\ ~(Cached(row) /\ Called(row)) /\ ~(Cached(row) /\ RateLimited(row))
          /\ ~(Called(row) /\ RateLimited(row)) /\ row.errorClass # "unauthorized"
    BY CountsOnce
  <2>2. \A row \in rows : Missed(row) <=> Called(row)
    BY <2>1, Zenon DEF Missed
  <2> QED BY <2>1, <2>2
<1>2. /\ Unknown \cap Errors = {} /\ Unknown \cap Hits = {} /\ Unknown \cap Limiteds = {}
      /\ Errors \cap Hits = {} /\ Errors \cap Limiteds = {}
  <2>1. \A row \in rows : /\ Cached(row) => row.status = 200
                          /\ RateLimited(row) => row.status = 429
                          /\ row.errorClass = "profile_not_found" => row.status = 404
    BY CountsOnce
  <2> QED BY <2>1
<1>3. /\ Hits \in SUBSET rows /\ Calls \in SUBSET rows /\ Limiteds \in SUBSET rows
      /\ Unknown \in SUBSET rows /\ Errors \in SUBSET rows
  OBVIOUS
<1>4. /\ totals.total = Cardinality(rows) /\ totals.cacheHits = Cardinality(Hits)
      /\ totals.cacheMisses = Cardinality(Misses) /\ totals.upstreamHits = Cardinality(Calls)
      /\ totals.rateLimited = Cardinality(Limiteds)
      /\ totals.authFailures = Cardinality(Refused)
      /\ totals.notFound = Cardinality(Unknown) /\ totals.serverErrors = Cardinality(Errors)
  BY Figures
<1> HIDE DEF Hits, Misses, Calls, Limiteds, Refused, Unknown, Errors
<1>5. Cardinality({}) = 0 /\ {} \in SUBSET rows
  BY FS_EmptySet
<1>6. /\ Cardinality(Hits) \in Nat /\ Cardinality(Calls) \in Nat
      /\ Cardinality(Limiteds) \in Nat /\ Cardinality(rows) \in Nat
  BY <1>3, FS_Subset, FS_CardinalityType
<1>7. Cardinality(Hits) + Cardinality(Calls) + Cardinality(Limiteds) <= Cardinality(rows)
  <2>1. /\ Hits \cap {} = {} /\ Calls \cap {} = {} /\ Limiteds \cap {} = {}
    OBVIOUS
  <2>2. Cardinality(Hits) + Cardinality(Calls) + Cardinality(Limiteds) + Cardinality({})
          <= Cardinality(rows)
    BY <1>1, <1>3, <1>5, <2>1, FourApart
  <2> QED BY <1>5, <1>6, <2>2
<1>8. Cardinality(Unknown) + Cardinality(Errors) + Cardinality(Hits) + Cardinality(Limiteds)
        <= Cardinality(rows)
  BY <1>1, <1>2, <1>3, FourApart
<1> QED BY <1>1, <1>4, <1>5, <1>7, <1>8

(***************************************************************************)
(* What the answers of a report say was counted over some of the records,  *)
(* a set of rows for each query: they stay what they were, and no record   *)
(* leaves the trail.  Unless a purge reached into the window, no row of it *)
(* was lost between two queries, and none is as long as the report goes on.*)
(***************************************************************************)
Rows == {Row(record) : record \in trail}

Timed(usage) ==
  usage.since \in Int /\ usage.until \in Int /\ usage.until <= now /\ usage.limit \in Nat

Counting(usage, n, counted) ==
  /\ usage.answers = [i \in 1..n |-> Query(UsageQueries[i], counted[i], usage.limit)]
  /\ \A i \in 1..n : counted[i] \in SUBSET Rows
  /\ usage.until - config.Retention <= usage.since =>
       \A i, j \in 1..n : i <= j => counted[i] \subseteq counted[j]
  /\ now - config.Retention <= usage.since =>
       \A i \in 1..n : counted[i] \subseteq Within(store, usage.since)

Summed(r) ==
  req[r].usage # <<>> =>
    Timed(req[r].usage) /\ \E n \in Nat : \E counted : Counting(req[r].usage, n, counted)

Reports == \A r \in requests : req[r] \in Gone \/ Summed(r)

\* A report that has not been begun.
Asked(since, limit) == [since |-> since, limit |-> limit, until |-> now, answers |-> <<>>]

\* What a step does to the report of one request.
Reporting(r) ==
  \/ req'[r] \in Gone
  \/ req[r] \notin Gone /\ req'[r].usage = req[r].usage
  \/ req'[r].usage = <<>>
  \/ \E since \in Int, limit \in Nat : req'[r].usage = Asked(since, limit) /\ now' = now
  \/ QueryAnswers(r)

LEMMA AnswerReports ==
  ASSUME NEW r \in DOMAIN req, DOMAIN req[r] = VisitFields,
         NEW status, NEW code, NEW event, Answer(r, status, code, event)
  PROVE  Reporting(r)
<1>1. req'[r].usage = req[r].usage
  BY DEF Answer, VisitFields
<1> QED BY <1>1, NotGone DEF Reporting

\* A request that is over is Gone, or keeps its report.
LEMMA OverReports ==
  ASSUME NEW r \in DOMAIN req, DOMAIN req[r] = VisitFields, NEW response,
         req' = [req EXCEPT ![r] = Over(r, response)]
  PROVE  Reporting(r)
<1>1. CASE Audited(req[r].input.path)
  <2>1. req'[r].usage = req[r].usage
    BY <1>1 DEF Over, VisitFields
  <2> QED BY <2>1, NotGone DEF Reporting
<1>2. CASE ~Audited(req[r].input.path)
  <2>1. req'[r] = [at |-> "done"]
    BY <1>2, OverForgets
  <2> QED BY <2>1 DEF Gone, Reporting
<1> QED BY <1>1, <1>2

LEMMA RepliesReports ==
  ASSUME NEW r \in DOMAIN req, DOMAIN req[r] = VisitFields,
         RejectRate(r) \/ RefuseProfile(r) \/ LookUpProfile(r) \/ ProxyImage(r) \/ ServeOther(r)
           \/ QueryFails(r)
  PROVE  Reporting(r)
<1>1. \E status, code, event : Answer(r, status, code, event)
  <2>1. CASE RejectRate(r) \/ RefuseProfile(r) \/ QueryFails(r)
    BY <2>1, Zenon DEF RejectRate, RefuseProfile, QueryFails, WriteError
  <2>2. CASE ProxyImage(r)
    BY <2>2, Zenon DEF ProxyImage, WriteError, WriteOK
  <2>3. CASE ServeOther(r)
    <3>1. PICK status : Answer(r, status, "", req[r].event)
      BY <2>3, Zenon DEF ServeOther
    <3> QED BY <3>1, Zenon
  <2>4. CASE LookUpProfile(r)
    <3> DEFINE cred == CredentialIn(r)[1]
               event(found) ==
                 Noted([req[r].event EXCEPT !.profileID = ParseURL(req[r].input.url),
                                            !.credential = cred], found.notes)
    <3>1. PICK found \in Lookups(cred.mode), sections \in SectionLists :
            IF found.code = "" THEN WriteOK(r, [event(found) EXCEPT !.sections = sections])
            ELSE WriteError(r, found.code, event(found))
      BY <2>4, Zenon DEF LookUpProfile
    <3> HIDE DEF event
    <3> QED BY <3>1, Zenon DEF WriteOK, WriteError
  <2> QED BY <2>1, <2>2, <2>3, <2>4
<1> QED BY <1>1, AnswerReports, Zenon

\* What a query's parameters come to.
LEMMA ParametersRead ==
  ASSUME NEW raw, raw = Garbage \/ raw \in Int
  PROVE  ParseWindow(raw) \in Int /\ ParseLimit(raw) \in Nat
<1>1. Day \in Int /\ MaxUsageWindow \in Int /\ MaxUsageLimit \in Nat
  <2>1. Minute \in Int
    BY DEF Minute, Second
  <2>2. Day \in Int
    BY <2>1 DEF Day
  <2> QED BY <2>2 DEF MaxUsageWindow, MaxUsageLimit
<1>2. CASE raw = Garbage
  BY <1>1, <1>2 DEF ParseWindow, ParseLimit
<1>3. CASE raw # Garbage
  BY <1>1, <1>3 DEF ParseWindow, ParseLimit
<1> QED BY <1>2, <1>3

LEMMA AskReports ==
  ASSUME Shape, NEW r \in requests, DOMAIN req[r] = VisitFields, req[r].input \in inputs[r],
         AskUsage(r)
  PROVE  Reporting(r) /\ \A q \in requests \ {r} : req'[q] = req[q]
<1> DEFINE in    == req[r].input
           since == now - ParseWindow(in.window)
           limit == ParseLimit(in.limit)
           usage == [since |-> since, limit |-> limit, until |-> now, answers |-> <<>>]
<1>0. DOMAIN req = requests /\ r \in DOMAIN req
  BY DEF Shape
<1>1. \/ \E status, code, event : Answer(r, status, code, event)
      \/ /\ req' = [req EXCEPT ![r].at = "summary", ![r].usage = usage]
         /\ now' = now
  BY Zenon DEF AskUsage, WriteError
<1>2. since \in Int /\ limit \in Nat
  <2>1. deployment \in DOMAIN Deployments /\ now \in Int
    BY DEF Shape
  <2>2. /\ in.window = Garbage \/ in.window \in Int
        /\ in.limit = Garbage \/ in.limit \in Int
    BY <2>1, PipelineAssumption DEF inputs, requests
  <2>3. ParseWindow(in.window) \in Int /\ ParseLimit(in.limit) \in Nat
    BY <2>2, ParametersRead
  <2> QED BY <2>1, <2>3
<1>3. usage = Asked(since, limit)
  BY DEF Asked
<1> HIDE DEF usage, since, limit
<1>4. CASE req' = [req EXCEPT ![r].at = "summary", ![r].usage = usage] /\ now' = now
  <2>1. req'[r].usage = usage /\ \A q \in DOMAIN req \ {r} : req'[q] = req[q]
    BY <1>0, <1>4 DEF VisitFields
  <2> QED BY <1>0, <1>2, <1>3, <1>4, <2>1 DEF Reporting
<1>5. CASE \E status, code, event : Answer(r, status, code, event)
  BY <1>0, <1>5, AnswerReports, AnswerKeeps, Zenon DEF Kept
<1> QED BY <1>1, <1>4, <1>5

\* What every step does to the report of a request that makes it.
LEMMA StepReports ==
  ASSUME Shape, NEW r \in requests,
         \/ Arrive(r) \/ FindLimiter(r) \/ Admit(r) \/ RejectRate(r)
         \/ Handle(r) \/ Finish(r) \/ Panic(r)
  PROVE  Reporting(r) /\ \A q \in requests \ {r} : req'[q] = req[q]
<1>0. DOMAIN req = requests
  BY DEF Shape
<1>1. CASE Arrive(r)
  <2>1. PICK input \in inputs[r] :
          req' = [req EXCEPT ![r] =
                    [at |-> IF Limited(input.path) THEN "limiter" ELSE "handler",
                     input |-> input, start |-> now, id |-> RequestID(input.id, ToString(r)),
                     event |-> NewEvent, response |-> NoResponse, holds |-> 0,
                     usage |-> <<>>, observed |-> <<>>]]
    BY <1>1, Zenon DEF Arrive
  <2>2. req'[r].usage = <<>> /\ \A q \in requests \ {r} : req'[q] = req[q]
    BY <1>0, <2>1
  <2> QED BY <2>2 DEF Reporting
<1>2. CASE ~Arrive(r)
  <2>1. req[r].at \notin {"idle", "done"}
    BY <1>2, PointsDiffer DEF FindLimiter, Admit, RejectRate, Handle, RefuseProfile,
      LookUpProfile, ProxyImage, ServeOther, AskUsage, QueryAnswers, QueryFails, Handling,
      Finish, Panic
  <2>2. DOMAIN req[r] = VisitFields /\ req[r] \notin Gone /\ r \in DOMAIN req
    BY <1>0, <2>1, UnderWay, NotGone DEF Visiting
  <2>3. CASE FindLimiter(r)
    <3>1. \E id : req' = [req EXCEPT ![r].at = "token", ![r].holds = id]
      BY <2>3, Zenon DEF FindLimiter
    <3>2. /\ req'[r].usage = req[r].usage
          /\ \A q \in requests \ {r} : req'[q] = req[q]
      BY <1>0, <2>2, <3>1 DEF VisitFields
    <3> QED BY <2>2, <3>2 DEF Reporting
  <2>4. CASE Admit(r)
    <3>1. req' = [req EXCEPT ![r].at = "handler"]
      BY <2>4, Zenon DEF Admit, Goto
    <3>2. /\ req'[r].usage = req[r].usage
          /\ \A q \in requests \ {r} : req'[q] = req[q]
      BY <1>0, <2>2, <3>1 DEF VisitFields
    <3> QED BY <2>2, <3>2 DEF Reporting
  <2>5. CASE Finish(r) \/ Panic(r)
    <3>1. \E response : req' = [req EXCEPT ![r] = Over(r, response)]
      BY <2>5, Zenon DEF Finish, Panic
    <3>2. \A q \in requests \ {r} : req'[q] = req[q]
      BY <1>0, <3>1
    <3> QED BY <2>2, <3>1, <3>2, OverReports
  <2>6. CASE QueryAnswers(r)
    <3>1. \A q \in requests \ {r} : req'[q] = req[q]
      <4>1. \E changed : req' = [req EXCEPT ![r] = changed]
        BY <1>0, <2>6, Zenon DEF QueryAnswers
      <4> QED BY <1>0, <4>1
    <3> QED BY <2>6, <3>1 DEF Reporting
  <2>7. CASE AskUsage(r)
    BY <2>1, <2>7, UnderWay, AskReports DEF Visiting
  <2>8. CASE RejectRate(r) \/ RefuseProfile(r) \/ LookUpProfile(r) \/ ProxyImage(r)
               \/ ServeOther(r) \/ QueryFails(r)
    <3>1. \A q \in requests \ {r} : req'[q] = req[q]
      BY <1>0, <2>2, <2>8, RepliesAnswer DEF Replies, Kept
    <3> QED BY <2>2, <2>8, <3>1, RepliesReports
  <2> QED BY <1>2, <2>3, <2>4, <2>5, <2>6, <2>7, <2>8, Zenon DEF Handle
<1> QED BY <1>1, <1>2

\* One more answer, counted over the rows that are stored now.
LEMMA CountingGoesOn ==
  ASSUME Shape, Trail, NEW n \in Nat, NEW asked, DOMAIN asked = UsageFields, Timed(asked),
         NEW counted, Counting(asked, n, counted),
         NEW rows, rows = Within(store, asked.since),
         NEW usage, usage = [asked EXCEPT !.answers =
                               Append(@, Query(UsageQueries[n + 1], rows, asked.limit)),
                                          !.until = now]
  PROVE  /\ Timed(usage)
         /\ \E more : Counting(usage, n + 1, more)
<1> DEFINE more == [i \in 1..n + 1 |-> IF i = n + 1 THEN rows ELSE counted[i]]
           Reply(i, from) == Query(UsageQueries[i], from, asked.limit)
           answers == [i \in 1..n |-> Reply(i, counted[i])]
<1>1. /\ usage.since = asked.since /\ usage.limit = asked.limit /\ usage.until = now
      /\ usage.answers = Append(asked.answers, Reply(n + 1, rows))
  BY DEF UsageFields
<1>2. now \in Int /\ config.Retention \in Int
  BY ConfigFacts DEF Shape
<1>3. Timed(usage)
  <2>1. asked.since \in Int /\ asked.limit \in Nat
    BY DEF Timed
  <2> HIDE DEF Reply
  <2> QED BY <1>1, <1>2, <2>1 DEF Timed
<1>4. asked.answers = answers
  BY DEF Counting
<1> HIDE DEF Reply
<1>5. Append(answers, Reply(n + 1, rows)) = [i \in 1..n + 1 |-> Reply(i, more[i])]
  <2> DEFINE S == {answers[i] : i \in 1..n} \cup {Reply(n + 1, rows)}
             longer == Append(answers, Reply(n + 1, rows))
  <2>1. answers \in [1..n -> S] /\ Reply(n + 1, rows) \in S
    OBVIOUS
  <2>2. answers \in Seq(S)
    BY <2>1
  <2>3. Len(answers) = n
    BY <2>1, <2>2
  <2> HIDE DEF S, answers
  <2>4. /\ longer \in Seq(S) /\ Len(longer) = n + 1
        /\ longer[n + 1] = Reply(n + 1, rows)
        /\ \A i \in 1..n : longer[i] = answers[i]
    BY <2>1, <2>2, <2>3, AppendProperties
  <2> HIDE DEF longer
  <2>5. longer \in [1..n + 1 -> S]
    BY <2>4, LenProperties
  <2>6. ASSUME NEW i \in 1..n + 1 PROVE longer[i] = Reply(i, more[i])
    <3>1. CASE i = n + 1
      <4>1. more[i] = rows
        BY <3>1
      <4> HIDE DEF more
      <4> QED BY <2>4, <3>1, <4>1
    <3>2. CASE i # n + 1
      <4>1. i \in 1..n /\ more[i] = counted[i]
        BY <3>2
      <4> HIDE DEF more
      <4> QED BY <2>4, <4>1 DEF answers
    <3> QED BY <3>1, <3>2
  <2>7. longer = [i \in 1..n + 1 |-> longer[i]]
    BY <2>5
  <2> HIDE DEF more
  <2> QED BY <2>6, <2>7 DEF longer
<1> HIDE DEF answers
<1>6. /\ \A i \in 1..n : more[i] = counted[i]
      /\ more[n + 1] = rows /\ \A i \in 1..n + 1 : i \in 1..n \/ i = n + 1
  OBVIOUS
<1> HIDE DEF more
<1>7. \A i \in 1..n + 1 : more[i] \in SUBSET Rows
  <2>1. rows \in SUBSET Rows
    BY DEF Within, Rows, Trail
  <2> QED BY <1>6, <2>1 DEF Counting
<1>8. ASSUME now - config.Retention <= asked.since
      PROVE  /\ \A i \in 1..n + 1 : more[i] \subseteq rows
             /\ \A i, j \in 1..n + 1 : i <= j => more[i] \subseteq more[j]
  <2>1. \A i \in 1..n : counted[i] \subseteq rows
    BY <1>8 DEF Counting
  <2>2. \A i \in 1..n + 1 : more[i] \subseteq rows
    BY <1>6, <2>1
  <2>3. asked.until - config.Retention <= asked.since
    <3>1. asked.until \in Int /\ asked.until <= now /\ asked.since \in Int
      BY DEF Timed
    <3> QED BY <1>2, <1>8, <3>1
  <2>4. \A i, j \in 1..n : i <= j => counted[i] \subseteq counted[j]
    BY <2>3 DEF Counting
  <2>5. ASSUME NEW i \in 1..n + 1, NEW j \in 1..n + 1, i <= j
        PROVE  more[i] \subseteq more[j]
    <3>1. CASE j = n + 1
      BY <1>6, <2>2, <3>1
    <3>2. CASE j # n + 1
      <4>1. i \in 1..n /\ j \in 1..n
        BY <2>5, <3>2
      <4> QED BY <1>6, <2>4, <2>5, <4>1
    <3> QED BY <3>1, <3>2
  <2> QED BY <2>2, <2>5
<1>9. Counting(usage, n + 1, more)
  <2>1. usage.answers = [i \in 1..n + 1 |-> Query(UsageQueries[i], more[i], usage.limit)]
    BY <1>1, <1>4, <1>5 DEF Reply
  <2> QED BY <1>1, <1>7, <1>8, <2>1 DEF Counting
<1> QED BY <1>3, <1>9

\* What every step keeps of the rows in a window that no purge reaches.
Keeping ==
  /\ now \in Int /\ now' \in Int /\ now <= now'
  /\ trail \subseteq trail' /\ UNCHANGED deployment
  /\ \A since \in Int : now' - config.Retention <= since =>
       Within(store, since) \subseteq Within(store', since)

\* A report that is there stays true.
LEMMA ReportStands ==
  ASSUME Shape, Keeping, NEW q, NEW usage, req'[q].usage = usage, Timed(usage),
         NEW n \in Nat, NEW counted, Counting(usage, n, counted)
  PROVE  Summed(q)'
<1>1. /\ now \in Int /\ now' \in Int /\ now <= now' /\ config' = config
      /\ config.Retention \in Int /\ usage.since \in Int
  BY SameConfig, ConfigFacts DEF Keeping, Shape, Timed
<1>2. Timed(usage)'
  BY <1>1 DEF Timed
<1>3. Rows \subseteq Rows'
  BY DEF Rows, Keeping
<1>4. \A i \in 1..n : counted[i] \in SUBSET Rows'
  BY <1>3 DEF Counting
<1>5. ASSUME now' - config.Retention <= usage.since
      PROVE  \A i \in 1..n : counted[i] \subseteq Within(store', usage.since)
  <2>1. now - config.Retention <= usage.since
    BY <1>1, <1>5
  <2>2. \A i \in 1..n : counted[i] \subseteq Within(store, usage.since)
    BY <2>1 DEF Counting
  <2>3. Within(store, usage.since) \subseteq Within(store', usage.since)
    BY <1>1, <1>5 DEF Keeping
  <2> QED BY <2>2, <2>3
<1>6. Counting(usage, n, counted)'
  <2>1. /\ usage.answers = [i \in 1..n |-> Query(UsageQueries[i], counted[i], usage.limit)]
        /\ usage.until - config.Retention <= usage.since =>
             \A i, j \in 1..n : i <= j => counted[i] \subseteq counted[j]
    BY DEF Counting
  <2> QED BY <1>1, <1>4, <1>5, <2>1 DEF Counting
<1> QED BY <1>2, <1>6 DEF Summed

\* A record has the time its request came in.
LEMMA RecordTimed ==
  ASSUME Shape, Trail, NEW record \in trail
  PROVE  Row(record).ts \in Int
<1> DEFINE r == record.req
<1>1. PICK latency \in 0..now : record = RecordAfter(r, latency)
  BY OfRecord
<1>2. DOMAIN req[r].event = EventFields /\ Visiting(r)
  BY OfRecord, OfArrived DEF Fits
<1>3. req[r].start \in Int
  BY <1>2 DEF Visiting, Shape
<1>4. record.ts = req[r].start /\ "ts" \in DOMAIN record
  BY <1>1 DEF RecordAfter
<1>5. Row(record).ts = record.ts
  BY <1>4 DEF Row, Restrict
<1> QED BY <1>3, <1>4, <1>5

LEMMA StepKeeps ==
  ASSUME Shape, Trail, [Next]_vars
  PROVE  Keeping
<1>1. trail \subseteq trail' /\ UNCHANGED deployment
  BY Zenon DEF Next, vars, Handle, Arrive, FindLimiter, Admit, RejectRate, RefuseProfile,
    LookUpProfile, ProxyImage, ServeOther, AskUsage, QueryAnswers, QueryFails, Finish, Panic,
    Settle, Purge, Advance
<1>2. now' = now \/ now' = now + Tick
  BY Zenon DEF Next, vars, Handle, Arrive, FindLimiter, Admit, RejectRate, RefuseProfile,
    LookUpProfile, ProxyImage, ServeOther, AskUsage, QueryAnswers, QueryFails, Finish, Panic,
    Settle, Purge, Advance
<1>3. now \in Int /\ now' \in Int /\ now <= now' /\ config.Retention \in Int
  BY <1>2, ConfigFacts DEF Shape
<1>4. store \subseteq store' \/ Purge
  <2>1. UNCHANGED store \/ Settle \/ Purge
    BY Zenon DEF Next, vars, Handle, Arrive, FindLimiter, Admit, RejectRate, RefuseProfile,
      LookUpProfile, ProxyImage, ServeOther, AskUsage, QueryAnswers, QueryFails, Finish, Panic,
      Settle, Purge, Advance
  <2> QED BY <2>1 DEF Settle
<1>5. ASSUME NEW since \in Int, now' - config.Retention <= since, NEW row \in Within(store, since)
      PROVE  row \in Within(store', since)
  <2>1. row \in store /\ row.ts >= since
    BY <1>5 DEF Within
  <2>2. CASE store \subseteq store'
    BY <2>1, <2>2 DEF Within
  <2>3. CASE Purge
    <3>1. row.ts \in Int
      BY <2>1, RecordTimed DEF Trail
    <3>2. row.ts >= now - config.Retention
      BY <1>3, <1>5, <2>1, <3>1
    <3> QED BY <2>1, <2>3, <3>2 DEF Purge, Within
  <2> QED BY <1>4, <2>2, <2>3
<1> QED BY <1>1, <1>3, <1>5 DEF Keeping

\* The answer to a query is counted over the rows that are stored.
LEMMA AnswersReport ==
  ASSUME Shape, Trail, NEW r \in requests, Summed(r), QueryAnswers(r)
  PROVE  Summed(r)'
<1>1. /\ r \in DOMAIN req /\ Visiting(r) /\ req[r].at \in ToSet(UsageQueries)
  <2>1. req[r].at \in ToSet(UsageQueries)
    BY DEF QueryAnswers
  <2> QED BY <2>1, UnderWay, PointsDiffer DEF Shape
<1>2. PICK k \in 0..5 : Asking(r, k)
  BY <1>1 DEF Visiting
<1> DEFINE asked == req[r].usage
<1>3. DOMAIN asked = UsageFields /\ asked # <<>>
  <2>1. DOMAIN asked = UsageFields /\ "since" \in UsageFields
    BY <1>2 DEF Asking, UsageFields
  <2> HIDE DEF asked
  <2>2. "since" \notin DOMAIN <<>>
    OBVIOUS
  <2> QED BY <2>1, <2>2
<1>4. Timed(asked) /\ \E n \in Nat : \E counted : Counting(asked, n, counted)
  BY <1>3 DEF Summed
<1>5. PICK n \in Nat : \E counted : Counting(asked, n, counted)
  BY <1>4
<1>6. PICK counted : Counting(asked, n, counted)
  BY <1>5
<1>7. PICK rows : rows = Within(store, asked.since)
  OBVIOUS
<1>8. PICK usage :
        usage = [asked EXCEPT !.answers =
                   Append(@, Query(UsageQueries[n + 1], rows, asked.limit)), !.until = now]
  OBVIOUS
<1>9. Len(asked.answers) = n
  <2>1. Listed(asked.answers, n)
    BY <1>6 DEF Counting, Listed
  <2> HIDE DEF asked
  <2> QED BY <2>1, ListedLength
<1>10. req'[r].usage = usage
  <2>1. \E point, response :
          req' = [req EXCEPT ![r].usage = usage, ![r].at = point, ![r].response = response]
    BY <1>7, <1>8, <1>9, Zenon DEF QueryAnswers
  <2> QED BY <1>1, <2>1 DEF Visiting, VisitFields
<1> HIDE DEF asked
<1>11. Timed(usage) /\ \E more : Counting(usage, n + 1, more)
  BY <1>3, <1>4, <1>6, <1>7, <1>8, CountingGoesOn
<1>12. PICK more : Counting(usage, n + 1, more)
  BY <1>11
<1>13. Keeping
  <2>1. UNCHANGED <<now, store, trail, deployment>>
    BY Zenon DEF QueryAnswers
  <2>2. now \in Int
    BY DEF Shape
  <2> QED BY <2>1, <2>2 DEF Keeping
<1> QED BY <1>10, <1>11, <1>12, <1>13, ReportStands

LEMMA ReportsStep ==
  ASSUME Shape, Trail, Reports, [Next]_vars
  PROVE  Reports'
<1>1. Keeping
  BY StepKeeps
<1>2. requests' = requests
  BY <1>1, SameConfig DEF Keeping
<1>3. ASSUME NEW q \in requests, Summed(q), req'[q].usage = req[q].usage
      PROVE  Summed(q)'
  <2>1. CASE req[q].usage = <<>>
    BY <1>3, <2>1 DEF Summed
  <2>2. CASE req[q].usage # <<>>
    <3>1. PICK usage : usage = req[q].usage
      OBVIOUS
    <3>2. Timed(usage) /\ \E n \in Nat : \E counted : Counting(usage, n, counted)
      BY <1>3, <2>2, <3>1 DEF Summed
    <3>3. PICK n \in Nat : \E counted : Counting(usage, n, counted)
      BY <3>2
    <3>4. PICK counted : Counting(usage, n, counted)
      BY <3>3
    <3> QED BY <1>1, <1>3, <3>1, <3>2, <3>4, ReportStands
  <2> QED BY <2>1, <2>2
<1>4. ASSUME NEW q \in requests, req'[q] = req[q] PROVE req'[q] \in Gone \/ Summed(q)'
  BY <1>3, <1>4 DEF Reports, Gone
<1>5. ASSUME NEW r \in requests, Reporting(r) PROVE req'[r] \in Gone \/ Summed(r)'
  <2>1. CASE req[r] \notin Gone /\ req'[r].usage = req[r].usage
    BY <1>3, <2>1 DEF Reports
  <2>2. CASE req'[r].usage = <<>>
    BY <2>2 DEF Summed
  <2>3. CASE \E since \in Int, limit \in Nat :
               req'[r].usage = Asked(since, limit) /\ now' = now
    <3>1. PICK since \in Int, limit \in Nat :
            req'[r].usage = Asked(since, limit) /\ now' = now
      BY <2>3
    <3>2. PICK usage : usage = Asked(since, limit)
      OBVIOUS
    <3>3. /\ usage.since = since /\ usage.limit = limit /\ usage.until = now
          /\ usage.answers = <<>>
      BY <3>2 DEF Asked
    <3>4. now \in Int
      BY <1>1 DEF Keeping
    <3>5. Timed(usage)
      BY <3>1, <3>3, <3>4 DEF Timed
    <3>6. Counting(usage, 0, <<>>)
      <4>1. usage.answers = [i \in 1..0 |-> Query(UsageQueries[i], <<>>[i], usage.limit)]
        BY <3>3
      <4>2. \A i \in 1..0 : FALSE
        OBVIOUS
      <4> QED BY <4>1, <4>2 DEF Counting
    <3> QED BY <1>1, <3>1, <3>2, <3>5, <3>6, ReportStands
  <2>4. CASE QueryAnswers(r)
    <3>1. req[r].at \in ToSet(UsageQueries)
      BY <2>4 DEF QueryAnswers
    <3>2. Summed(r)
      <4>1. Visiting(r)
        BY <3>1, UnderWay, PointsDiffer
      <4> QED BY <4>1, NotGone DEF Visiting, Reports
    <3> QED BY <2>4, <3>2, AnswersReport
  <2> QED BY <1>5, <2>1, <2>2, <2>3, <2>4 DEF Reporting
<1>6. CASE \A q \in requests : req'[q] = req[q]
  BY <1>2, <1>4, <1>6 DEF Reports
<1>7. CASE \E r \in requests :
             \/ Arrive(r) \/ FindLimiter(r) \/ Admit(r) \/ RejectRate(r)
             \/ Handle(r) \/ Finish(r) \/ Panic(r)
  <2>1. PICK r \in requests : Reporting(r) /\ \A q \in requests \ {r} : req'[q] = req[q]
    BY <1>7, StepReports
  <2>2. ASSUME NEW q \in requests PROVE req'[q] \in Gone \/ Summed(q)'
    <3>1. CASE q = r
      BY <1>5, <2>1, <3>1
    <3>2. CASE q # r
      BY <1>4, <2>1, <3>2
    <3> QED BY <3>1, <3>2
  <2> QED BY <1>2, <2>2 DEF Reports
<1>8. CASE Settle \/ Purge \/ Advance \/ UNCHANGED vars
  BY <1>6, <1>8 DEF Settle, Purge, Advance, vars
<1> QED BY <1>7, <1>8, Zenon DEF Next

THEOREM ReportsInvariant == Spec => [](Shape /\ Trail /\ Reports)
<1>1. Init => Reports
  BY DEF Init, Reports, Gone
<1>2. Shape /\ Trail /\ Reports /\ [Next]_vars => Reports'
  BY ReportsStep
<1> QED BY PipelineInvariant, <1>1, <1>2, PTL DEF Spec

LEMMA TrailFinite ==
  ASSUME Shape, Trail
  PROVE  IsFiniteSet(trail)
<1> DEFINE of == [r \in requests |-> CHOOSE record : record \in RecordsOf(r)]
<1>1. IsFiniteSet({of[r] : r \in requests})
  BY RequestsFinite, ImageFinite
<1>2. ASSUME NEW record \in trail PROVE record \in {of[r] : r \in requests}
  <2>1. /\ record.req \in requests /\ record \in RecordsOf(record.req)
        /\ Recorded(record.req)
    BY DEF Trail, RecordsOf
  <2>2. \E latency \in 0..now : RecordsOf(record.req) = {RecordAfter(record.req, latency)}
    BY <2>1 DEF Recorded
  <2>3. of[record.req] = record
    BY <2>1, <2>2
  <2> QED BY <2>1, <2>3
<1>3. trail \subseteq {of[r] : r \in requests}
  BY <1>2
<1> QED BY <1>1, <1>3, FS_Subset

\* A record is sound, and so is its row, which says the same.
LEMMA RowTells ==
  ASSUME Shape, Trail, NEW record \in trail, NEW row, row = Row(record)
  PROVE  Sound(row) /\ Cached(row) = Cached(record) /\ Called(row) = Called(record)
<1> DEFINE r == record.req
<1>1. r \in Arrived /\ record \in RecordsOf(r)
  BY OfRecord DEF RecordsOf
<1>2. /\ record.status = req[r].response.status /\ record.errorClass = req[r].response.code
      /\ Consistent(record.errorClass, record.status, record.rateDecision, record.profileID,
                    record.upstreamCalled, record.cached, record.upstreamOutcome,
                    record.retries)
  BY <1>1, RecordTells
<1>3. record.errorClass = "profile_not_found" => record.status = 404
  <2>1. Coded(req[r].response)
    BY <1>1, OfArrived DEF Told
  <2>2. StatusFor("profile_not_found") = 404 /\ "profile_not_found" # Blank
    BY DEF StatusFor, Blank
  <2> QED BY <1>2, <2>1, <2>2 DEF Coded
<1>4. {"status", "errorClass", "rateDecision", "profileID", "upstreamCalled", "cached",
       "upstreamOutcome", "retries"} \subseteq DOMAIN record \ {"sections"}
  <2>1. PICK latency \in 0..now : record = RecordAfter(r, latency)
    BY <1>1, OfRecord
  <2>2. DOMAIN req[r].event = EventFields
    BY OfRecord DEF Fits
  <2>3. "status" \in DOMAIN record /\ EventFields \subseteq DOMAIN record
    BY <2>1, <2>2 DEF RecordAfter
  <2> QED BY <2>3, NewEventFields
<1>5. \A f \in DOMAIN record \ {"sections"} : row[f] = record[f]
  BY DEF Row, Restrict
<1>6. /\ row.errorClass = record.errorClass /\ row.status = record.status
      /\ row.rateDecision = record.rateDecision /\ row.profileID = record.profileID
      /\ row.upstreamCalled = record.upstreamCalled /\ row.cached = record.cached
      /\ row.upstreamOutcome = record.upstreamOutcome /\ row.retries = record.retries
  BY <1>4, <1>5
<1>7. Cached(row) = Cached(record) /\ Called(row) = Called(record)
  BY <1>6 DEF Cached, Called
<1> QED BY <1>2, <1>3, <1>6, <1>7, Zenon DEF Sound

\* No more rows say something than there are records that do.
LEMMA NoMoreRows ==
  ASSUME NEW records, IsFiniteSet(records), NEW rows,
         \A row \in rows : \E record \in records : row = Row(record)
  PROVE  IsFiniteSet(rows) /\ Cardinality(rows) <= Cardinality(records)
<1> DEFINE f == [record \in records |-> Row(record)]
           T == {f[record] : record \in records}
<1>1. f \in Surjection(records, T)
  BY DEF Surjection
<1>2. IsFiniteSet(T) /\ Cardinality(T) <= Cardinality(records)
  BY <1>1, FS_Surjection
<1>3. rows \in SUBSET T
  OBVIOUS
<1> HIDE DEF T
<1>4. IsFiniteSet(rows) /\ Cardinality(rows) <= Cardinality(T)
  BY <1>2, <1>3, FS_Subset
<1>5. /\ Cardinality(rows) \in Nat /\ Cardinality(T) \in Nat
      /\ Cardinality(records) \in Nat
  BY <1>2, <1>4, FS_CardinalityType
<1> QED BY <1>2, <1>4, <1>5

LEMMA TotalsFollow ==
  ASSUME Shape, Trail, Reports
  PROVE  TotalsConsistent
<1> SUFFICES ASSUME NEW r \in Arrived, req[r].usage # <<>>, req[r].usage.answers # <<>>,
                    NEW totals, totals = req[r].usage.answers[1]
             PROVE  /\ totals.cacheHits + totals.cacheMisses + totals.rateLimited <= totals.total
                    /\ totals.cacheMisses = totals.upstreamHits
                    /\ totals.notFound + totals.serverErrors + totals.cacheHits
                         + totals.rateLimited <= totals.total
                    /\ totals.authFailures = 0
                    /\ totals.total <= Cardinality(trail)
                    /\ totals.cacheHits <= Cardinality({record \in trail : Cached(record)})
                    /\ totals.upstreamHits <= Cardinality({record \in trail : Called(record)})
  BY Zenon DEF TotalsConsistent
<1>1. PICK rows \in SUBSET Rows : totals = Totals(rows)
  <2>1. PICK n \in Nat : \E counted : Counting(req[r].usage, n, counted)
    BY OfArrived DEF Reports, Summed
  <2>2. PICK counted : Counting(req[r].usage, n, counted)
    BY <2>1
  <2>3. req[r].usage.answers = [i \in 1..n |-> Query(UsageQueries[i], counted[i], req[r].usage.limit)]
    BY <2>2 DEF Counting
  <2>4. 1 \in 1..n
    <3>1. n = 0 => req[r].usage.answers = <<>>
      BY <2>3
    <3> QED BY <3>1
  <2>5. totals = Query("summary", counted[1], req[r].usage.limit)
    BY <2>3, <2>4 DEF UsageQueries
  <2>6. totals = Totals(counted[1])
    BY <2>5 DEF Query
  <2> QED BY <2>2, <2>4, <2>6 DEF Counting
<1>2. IsFiniteSet(trail)
  BY TrailFinite
<1>3. \A row \in rows : \E record \in trail : row = Row(record)
  BY DEF Rows
<1>4. IsFiniteSet(rows) /\ Cardinality(rows) <= Cardinality(trail)
  BY <1>2, <1>3, NoMoreRows
<1>5. \A row \in rows : Sound(row)
  BY <1>3, RowTells
<1>6. Cardinality({row \in rows : Cached(row)})
        <= Cardinality({record \in trail : Cached(record)})
  <2> DEFINE hits == {row \in rows : Cached(row)}
             records == {record \in trail : Cached(record)}
  <2>1. \A row \in hits : \E record \in records : row = Row(record)
    BY <1>3, RowTells
  <2>2. IsFiniteSet(records)
    BY <1>2, FS_Subset
  <2> HIDE DEF hits, records
  <2>3. Cardinality(hits) <= Cardinality(records)
    BY <2>1, <2>2, NoMoreRows
  <2> QED BY <2>3 DEF hits, records
<1>7. Cardinality({row \in rows : Called(row)})
        <= Cardinality({record \in trail : Called(record)})
  <2> DEFINE calls == {row \in rows : Called(row)}
             records == {record \in trail : Called(record)}
  <2>1. \A row \in calls : \E record \in records : row = Row(record)
    BY <1>3, RowTells
  <2>2. IsFiniteSet(records)
    BY <1>2, FS_Subset
  <2> HIDE DEF calls, records
  <2>3. Cardinality(calls) <= Cardinality(records)
    BY <2>1, <2>2, NoMoreRows
  <2> QED BY <2>3 DEF calls, records
<1>8. /\ totals.total = Cardinality(rows)
      /\ totals.cacheHits = Cardinality({row \in rows : Cached(row)})
      /\ totals.upstreamHits = Cardinality({row \in rows : Called(row)})
  BY <1>1, Figures
<1>9. /\ totals.cacheHits + totals.cacheMisses + totals.rateLimited <= totals.total
      /\ totals.cacheMisses = totals.upstreamHits
      /\ totals.notFound + totals.serverErrors + totals.cacheHits + totals.rateLimited
           <= totals.total
      /\ totals.authFailures = 0
  BY <1>1, <1>4, <1>5, FiguresFit
<1> QED BY <1>4, <1>6, <1>7, <1>8, <1>9

(***************************************************************************)
(* However records are stored, dropped and purged while an administrator's *)
(* report is put together, its totals are those of one set of records:     *)
(* hits, misses and rejections are different requests, every call to       *)
(* LinkedIn is a miss, the administrators' own failures are not in it, and *)
(* no figure exceeds what the API answered                                 *)
(* (internal/audit/sqlite.go:191-225, internal/api/usage.go:46-80).        *)
(***************************************************************************)
THEOREM TotalsAlwaysConsistent == Spec => []TotalsConsistent
<1>1. Shape /\ Trail /\ Reports => TotalsConsistent
  BY TotalsFollow
<1> QED BY ReportsInvariant, <1>1, PTL
------------------------------------------------------------------------------
(* The lists of the usage report.                                           *)

\* What a bijection is.
LEMMA Bijective ==
  ASSUME NEW S, NEW T, NEW f, f \in Bijection(S, T)
  PROVE  /\ f \in [S -> T] /\ DOMAIN f = S
         /\ \A a, b \in S : f[a] = f[b] => a = b
         /\ \A t \in T : \E x \in S : f[x] = t
BY Fun_BijectionProperties

\* What a numbering is.
LEMMA Numbered ==
  ASSUME NEW S, NEW n, NEW f, f \in Bijection(S, 1..n)
  PROVE  /\ f \in [S -> 1..n]
         /\ \A a, b \in S : f[a] = f[b] => a = b
         /\ \A i \in 1..n : \E x \in S : f[x] = i
<1> DEFINE T == 1..n
<1>1. f \in Bijection(S, T)
  OBVIOUS
<1> HIDE DEF T
<1>2. /\ f \in [S -> T]
      /\ \A a, b \in S : f[a] = f[b] => a = b
      /\ \A t \in T : \E x \in S : f[x] = t
  BY <1>1, Bijective
<1> QED BY <1>2 DEF T

\* Before in a strict order of a set, given as a set of pairs.
Orders(before, S) ==
  /\ before \subseteq S \X S
  /\ \A a \in S : <<a, a>> \notin before
  /\ \A a, b \in S : a # b => <<a, b>> \in before \/ <<b, a>> \in before
  /\ \A a, b, c \in S : <<a, b>> \in before /\ <<b, c>> \in before => <<a, c>> \in before

\* A finite set can be listed in any order that orders it.
LEMMA ListedInOrder ==
  ASSUME NEW S, IsFiniteSet(S), NEW before, Orders(before, S)
  PROVE  \E list \in Bijection(1..Cardinality(S), S) :
           \A i, j \in 1..Cardinality(S) : i < j => <<list[i], list[j]>> \in before
<1> DEFINE UpTo(x) == {y \in S : y = x \/ <<y, x>> \in before}
           n == Cardinality(S)
           rank == [x \in S |-> Cardinality(UpTo(x))]
<1>1. n \in Nat
  BY FS_CardinalityType
<1>2. ASSUME NEW x \in S
      PROVE  /\ IsFiniteSet(UpTo(x)) /\ Cardinality(UpTo(x)) \in 1..n
  <2>1. UpTo(x) \in SUBSET S /\ x \in UpTo(x)
    OBVIOUS
  <2> HIDE DEF UpTo
  <2>2. IsFiniteSet(UpTo(x)) /\ Cardinality(UpTo(x)) <= n
    BY <2>1, FS_Subset
  <2>3. Cardinality(UpTo(x)) \in Nat /\ Cardinality(UpTo(x)) # 0
    BY <2>1, <2>2, FS_CardinalityType, FS_EmptySet
  <2> QED BY <1>1, <2>2, <2>3
<1>3. ASSUME NEW x \in S, NEW y \in S, <<x, y>> \in before PROVE rank[x] < rank[y]
  <2>1. UpTo(x) \in SUBSET UpTo(y)
    BY <1>3 DEF Orders
  <2>2. UpTo(x) # UpTo(y)
    <3>1. y \in UpTo(y)
      OBVIOUS
    <3>2. y \notin UpTo(x)
      <4>1. y # x /\ <<y, x>> \notin before
        BY <1>3 DEF Orders
      <4> QED BY <4>1
    <3> QED BY <3>1, <3>2
  <2>3. IsFiniteSet(UpTo(y)) /\ Cardinality(UpTo(x)) \in 1..n /\ Cardinality(UpTo(y)) \in 1..n
    BY <1>2
  <2>4. rank[x] = Cardinality(UpTo(x)) /\ rank[y] = Cardinality(UpTo(y))
    OBVIOUS
  <2> HIDE DEF UpTo, rank
  <2>5. /\ Cardinality(UpTo(x)) <= Cardinality(UpTo(y))
        /\ Cardinality(UpTo(x)) # Cardinality(UpTo(y))
    BY <2>1, <2>2, <2>3, FS_Subset
  <2> QED BY <2>3, <2>4, <2>5
<1>4. rank \in [S -> 1..n]
  BY <1>2
<1> HIDE DEF rank, n
<1>5. \A x, y \in S : rank[x] = rank[y] => x = y
  <2> SUFFICES ASSUME NEW x \in S, NEW y \in S, x # y PROVE rank[x] # rank[y]
    OBVIOUS
  <2>1. <<x, y>> \in before \/ <<y, x>> \in before
    BY DEF Orders
  <2>2. rank[x] \in Int /\ rank[y] \in Int
    BY <1>4
  <2>3. rank[x] < rank[y] \/ rank[y] < rank[x]
    BY <1>3, <2>1
  <2> QED BY <2>2, <2>3
<1>6. rank \in Injection(S, 1..n)
  BY <1>4, <1>5, Fun_IsInj
<1>7. rank \in Surjection(S, 1..n)
  <2>1. 1 \in Int /\ n \in Int
    BY <1>1
  <2>2. IsFiniteSet(1..n) /\ Cardinality(1..n) = n
    <3>1. IsFiniteSet(1..n) /\ Cardinality(1..n) = IF 1 > n THEN 0 ELSE n - 1 + 1
      BY <2>1, FS_Interval
    <3> QED BY <1>1, <3>1
  <2> QED BY <1>6, <2>2, FS_Injection DEF n
<1>8. rank \in Bijection(S, 1..n)
  BY <1>6, <1>7, Fun_IsBij
<1> DEFINE list == Inverse(rank, S, 1..n)
<1>9. /\ list \in Bijection(1..n, S)
      /\ \A x \in S : list[rank[x]] = x
  BY <1>8, Fun_BijInverse
<1>10. \A i \in 1..n : \E x \in S : rank[x] = i
  BY <1>7, Fun_SurjectionProperties, Zenon
<1> HIDE DEF list, UpTo
<1>11. ASSUME NEW i \in 1..n, NEW j \in 1..n, i < j PROVE <<list[i], list[j]>> \in before
  <2>1. PICK x \in S : rank[x] = i
    BY <1>10
  <2>2. PICK y \in S : rank[y] = j
    BY <1>10
  <2>3. list[i] = x /\ list[j] = y
    BY <1>9, <2>1, <2>2
  <2>4. x # y /\ ~(rank[y] < rank[x])
    BY <1>11, <2>1, <2>2
  <2>5. <<x, y>> \in before
    BY <1>3, <2>4 DEF Orders
  <2> QED BY <2>3, <2>5
<1> QED BY <1>9, <1>11 DEF n

\* Keys can be ranked by their counts.
LEMMA RankingOrders ==
  ASSUME NEW S, IsFiniteSet(S), NEW tally \in [S -> Nat]
  PROVE  /\ Ranking(tally) \in Bijection(1..Cardinality(S), S)
         /\ \A i, j \in 1..Cardinality(S) :
              i < j => tally[Ranking(tally)[i]] >= tally[Ranking(tally)[j]]
<1> DEFINE n == Cardinality(S)
<1>1. n \in Nat /\ ExistsBijection(1..n, S)
  BY FS_CardinalityType
<1>2. PICK f \in Bijection(1..n, S) : TRUE
  BY <1>1 DEF ExistsBijection
<1> DEFINE place == Inverse(f, 1..n, S)
<1>3. place \in Bijection(S, 1..n)
  BY <1>2, Fun_BijInverse
<1> HIDE DEF place, n
<1>4. /\ place \in [S -> 1..n]
      /\ \A j, k \in S : place[j] = place[k] => j = k
  BY <1>3, Numbered
<1> DEFINE Less(j, k) == tally[j] > tally[k] \/ (tally[j] = tally[k] /\ place[j] < place[k])
           before == {p \in S \X S : Less(p[1], p[2])}
<1>5. Orders(before, S)
  <2>1. \A j, k \in S : <<j, k>> \in before <=> Less(j, k)
    OBVIOUS
  <2>2. before \subseteq S \X S
    OBVIOUS
  <2>3. \A k \in S : tally[k] \in Int /\ place[k] \in Int
    BY <1>4
  <2> HIDE DEF before
  <2>4. \A k \in S : ~Less(k, k)
    BY <1>4, <2>3
  <2>5. \A j, k \in S : j # k => Less(j, k) \/ Less(k, j)
    BY <1>4, <2>3
  <2>6. \A i, j, k \in S : Less(i, j) /\ Less(j, k) => Less(i, k)
    BY <1>4, <2>3
  <2> HIDE DEF Less
  <2> QED BY <2>1, <2>2, <2>4, <2>5, <2>6 DEF Orders
<1>6. PICK list \in Bijection(1..n, S) :
             \A i, j \in 1..n : i < j => <<list[i], list[j]>> \in before
  BY <1>5, ListedInOrder DEF n
<1>7. DOMAIN tally = S
  OBVIOUS
<1> DEFINE Ranks(keys) == \A i, j \in DOMAIN keys : i < j => tally[keys[i]] >= tally[keys[j]]
<1>8. Ranks(list)
  <2> SUFFICES ASSUME NEW i \in 1..n, NEW j \in 1..n, i < j
               PROVE  tally[list[i]] >= tally[list[j]]
    <3>1. DOMAIN list = 1..n
      BY <1>6, Bijective
    <3> HIDE DEF before, Less
    <3> QED BY <3>1
  <2>1. <<list[i], list[j]>> \in before
    BY <1>6
  <2>2. list[i] \in S /\ list[j] \in S /\ Less(list[i], list[j])
    BY <2>1
  <2> QED BY <2>2
<1>9. Ranking(tally) = CHOOSE keys \in Bijection(1..n, S) : Ranks(keys)
  BY <1>7 DEF Ranking, n
<1> HIDE DEF Ranks
<1>10. Ranking(tally) \in Bijection(1..n, S) /\ Ranks(Ranking(tally))
  BY <1>6, <1>8, <1>9
<1>11. DOMAIN Ranking(tally) = 1..n
  BY <1>10, Bijective
<1> QED BY <1>10, <1>11 DEF Ranks, n

\* What counts add up to when they are those of the parts of a set.
LEMMA SumOfParts ==
  ASSUME NEW S, IsFiniteSet(S), NEW K, NEW part \in [S -> K], NEW counts, DOMAIN counts = K,
         \A k \in K : counts[k] = Cardinality({x \in S : part[x] = k})
  PROVE  SumOf(counts) = Cardinality(S)
<1> DEFINE Part(k) == {x \in S : part[x] = k}
           All == UNION {{k} \X (1..counts[k]) : k \in K}
<1>1. \A k \in K : IsFiniteSet(Part(k)) /\ Part(k) \in SUBSET S
  BY FS_Subset
<1>2. ASSUME NEW k \in K
      PROVE  \E f : f \in Bijection(Part(k), 1..counts[k])
  <2>1. ExistsBijection(1..Cardinality(Part(k)), Part(k))
    BY <1>1, FS_CardinalityType
  <2>2. counts[k] = Cardinality(Part(k))
    OBVIOUS
  <2> HIDE DEF Part
  <2>3. PICK f \in Bijection(1..counts[k], Part(k)) : TRUE
    BY <2>1, <2>2 DEF ExistsBijection
  <2> QED BY <2>3, Fun_BijInverse
<1> DEFINE number == [k \in K |-> CHOOSE f : f \in Bijection(Part(k), 1..counts[k])]
           pair == [x \in S |-> <<part[x], number[part[x]][x]>>]
<1>3. \A k \in K : number[k] \in Bijection(Part(k), 1..counts[k])
  BY <1>2
<1> HIDE DEF number
<1>4. ASSUME NEW x \in S
      PROVE  /\ part[x] \in K /\ x \in Part(part[x])
             /\ number[part[x]][x] \in 1..counts[part[x]]
  <2>1. part[x] \in K /\ x \in Part(part[x])
    OBVIOUS
  <2> HIDE DEF Part
  <2>2. number[part[x]] \in [Part(part[x]) -> 1..counts[part[x]]]
    BY <1>3, <2>1, Numbered
  <2> QED BY <2>1, <2>2
<1>5. pair \in [S -> All]
  BY <1>4
<1>6. ASSUME NEW x \in S, NEW y \in S, pair[x] = pair[y] PROVE x = y
  <2>1. part[x] = part[y] /\ number[part[x]][x] = number[part[x]][y]
    BY <1>6
  <2>2. x \in Part(part[x]) /\ y \in Part(part[x]) /\ part[x] \in K
    BY <1>4, <2>1
  <2> HIDE DEF Part
  <2> QED BY <1>3, <2>1, <2>2, Bijective
<1>7. ASSUME NEW p \in All PROVE \E x \in S : pair[x] = p
  <2>1. PICK k \in K : p \in {k} \X (1..counts[k])
    OBVIOUS
  <2>2. PICK i \in 1..counts[k] : p = <<k, i>>
    BY <2>1
  <2>3. PICK x \in Part(k) : number[k][x] = i
    <3> HIDE DEF Part
    <3>1. \A j \in 1..counts[k] : \E x \in Part(k) : number[k][x] = j
      BY <1>3, Numbered
    <3> QED BY <3>1
  <2>4. x \in S /\ part[x] = k
    OBVIOUS
  <2> QED BY <2>2, <2>3, <2>4
<1> HIDE DEF pair, All
<1>8. pair \in Bijection(S, All)
  BY <1>5, <1>6, <1>7, Fun_IsBij
<1>9. Cardinality(All) = Cardinality(S)
  BY <1>8, FS_Bijection DEF ExistsBijection
<1> QED BY <1>9 DEF SumOf, All

\* A tally adds up to the number of rows that count.
LEMMA TallyCounts ==
  ASSUME NEW keyOf, IsFiniteSet(DOMAIN keyOf)
  PROVE  /\ DOMAIN Tally(keyOf) = Range(keyOf) /\ IsFiniteSet(Range(keyOf))
         /\ Tally(keyOf) \in [Range(keyOf) -> Nat]
         /\ SumOf(Tally(keyOf)) = Cardinality(DOMAIN keyOf)
<1> DEFINE S == DOMAIN keyOf
           K == Range(keyOf)
           tally == Tally(keyOf)
           f == [x \in S |-> keyOf[x]]
<1>1. /\ DOMAIN tally = K
      /\ \A k \in K : tally[k] = Cardinality({x \in S : keyOf[x] = k})
  BY DEF Tally
<1>2. f \in [S -> K] /\ \A x \in S : f[x] = keyOf[x]
  BY DEF Range
<1>3. f \in Surjection(S, K)
  BY <1>2 DEF Range, Surjection
<1>4. IsFiniteSet(K)
  BY <1>3, FS_Surjection
<1>5. tally \in [K -> Nat]
  <2>1. ASSUME NEW k \in K PROVE tally[k] \in Nat
    <3>1. {x \in S : keyOf[x] = k} \in SUBSET S
      OBVIOUS
    <3>2. Cardinality({x \in S : keyOf[x] = k}) \in Nat
      BY <3>1, FS_Subset, FS_CardinalityType
    <3> QED BY <1>1, <3>2
  <2>2. tally = [k \in K |-> tally[k]]
    BY DEF Tally
  <2> HIDE DEF tally
  <2> QED BY <2>1, <2>2
<1>6. \A k \in K : tally[k] = Cardinality({x \in S : f[x] = k})
  <2>1. \A k \in K : {x \in S : f[x] = k} = {x \in S : keyOf[x] = k}
    BY <1>2
  <2> HIDE DEF K, tally, f
  <2> QED BY <1>1, <2>1
<1> HIDE DEF K, tally, f
<1>7. SumOf(tally) = Cardinality(S)
  BY <1>1, <1>2, <1>6, SumOfParts
<1> QED BY <1>1, <1>4, <1>5, <1>7 DEF K, tally

\* The smaller of two.
LEMMA SmallerOf ==
  ASSUME NEW a \in Int, NEW b \in Int
  PROVE  Min({a, b}) = IF a <= b THEN a ELSE b
BY DEF Min

\* A list of keys by their counts is as long as asked for, unless there are fewer keys;
\* then it has them all.
LEMMA TopOfAll ==
  ASSUME NEW keyOf, IsFiniteSet(DOMAIN keyOf), NEW limit \in Nat
  PROVE  LET top == TopBy(keyOf, limit)
         IN /\ Len(top) <= limit
            /\ Cardinality(Range(keyOf)) <= limit => CountSum(top) = Cardinality(DOMAIN keyOf)
<1> DEFINE S == DOMAIN keyOf
           K == Range(keyOf)
           tally == Tally(keyOf)
           keys == Ranking(tally)
           n == Cardinality(K)
           m == Min({limit, n})
           top == TopBy(keyOf, limit)
<1>1. /\ DOMAIN tally = K /\ IsFiniteSet(K) /\ tally \in [K -> Nat]
      /\ \A k \in K : tally[k] = Cardinality({x \in S : keyOf[x] = k})
  BY TallyCounts DEF Tally
<1>2. n \in Nat /\ keys \in Bijection(1..n, K)
  BY <1>1, FS_CardinalityType, RankingOrders
<1>3. m = IF limit <= n THEN limit ELSE n
  BY <1>2, SmallerOf
<1>4. top = [i \in 1..m |-> [key |-> keys[i], count |-> tally[keys[i]]]]
  BY <1>1 DEF TopBy
<1> HIDE DEF S, K, tally, keys, n, m, top
<1>5. m \in Nat /\ m <= limit /\ (n <= limit => m = n)
  BY <1>2, <1>3
<1>6. Len(top) = m
  BY <1>4, <1>5
<1>7. ASSUME n <= limit PROVE CountSum(top) = Cardinality(S)
  <2> DEFINE counts == [i \in DOMAIN top |-> top[i].count]
             part == [x \in S |-> CHOOSE i \in 1..n : keys[i] = keyOf[x]]
  <2>1. DOMAIN counts = 1..n /\ \A i \in 1..n : counts[i] = tally[keys[i]]
    BY <1>4, <1>5, <1>7
  <2>2. ASSUME NEW x \in S PROVE part[x] \in 1..n /\ keys[part[x]] = keyOf[x]
    <3>1. keyOf[x] \in K
      BY DEF S, K, Range
    <3> QED BY <1>2, <3>1, Bijective
  <2>3. part \in [S -> 1..n]
    BY <2>2
  <2> HIDE DEF part, counts
  <2>4. ASSUME NEW i \in 1..n
        PROVE  counts[i] = Cardinality({x \in S : part[x] = i})
    <3>1. keys[i] \in K
      BY <1>2, Bijective
    <3>2. \A x \in S : part[x] = i <=> keyOf[x] = keys[i]
      BY <1>2, <2>2, Bijective
    <3>3. {x \in S : part[x] = i} = {x \in S : keyOf[x] = keys[i]}
      BY <3>2
    <3> QED BY <1>1, <2>1, <3>1, <3>3
  <2>5. SumOf(counts) = Cardinality(S)
    <3>1. IsFiniteSet(S)
      BY DEF S
    <3>2. DOMAIN counts = 1..n
      BY <2>1
    <3> DEFINE indexes == 1..n
    <3>3. /\ part \in [S -> indexes] /\ DOMAIN counts = indexes
          /\ \A i \in indexes : counts[i] = Cardinality({x \in S : part[x] = i})
      BY <2>3, <2>4, <3>2
    <3> HIDE DEF indexes
    <3> QED BY <3>1, <3>3, SumOfParts
  <2> QED BY <2>5 DEF CountSum, counts
<1> QED BY <1>5, <1>6, <1>7 DEF top, n, K, S

\* What is called has an outcome.
Outcomed(row) == row.upstreamOutcome # Blank

LEMMA CallsHaveOutcomes ==
  ASSUME NEW row, Sound(row), Called(row)
  PROVE  Outcomed(row)
BY Zenon DEF Sound, Consistent, Called, Outcomed

\* The outcomes add up to no less than the calls among the rows.
LEMMA OutcomesAddUp ==
  ASSUME NEW rows, IsFiniteSet(rows), \A row \in rows : Sound(row)
  PROVE  /\ SumOf(Outcomes(rows)) \in Nat
         /\ SumOf(Outcomes(rows)) >= Cardinality({row \in rows : Called(row)})
<1> DEFINE counted == {row \in rows : Outcomed(row)}
           calls   == {row \in rows : Called(row)}
           keyOf   == [row \in counted |-> row.upstreamOutcome]
<1>1. Outcomes(rows) = Tally(keyOf)
  BY Zenon DEF Outcomes, Outcomed, Blank
<1>2. calls \in SUBSET counted /\ counted \in SUBSET rows
  BY CallsHaveOutcomes
<1>3. DOMAIN keyOf = counted
  OBVIOUS
<1> HIDE DEF counted, calls, keyOf
<1>4. IsFiniteSet(counted)
  BY <1>2, FS_Subset
<1>5. SumOf(Outcomes(rows)) = Cardinality(counted)
  BY <1>1, <1>3, <1>4, TallyCounts
<1>6. IsFiniteSet(calls) /\ Cardinality(calls) <= Cardinality(counted)
  BY <1>2, <1>4, FS_Subset
<1>7. Cardinality(calls) \in Nat /\ Cardinality(counted) \in Nat
  BY <1>4, <1>6, FS_CardinalityType
<1> QED BY <1>5, <1>6, <1>7 DEF calls

\* The lists of clients have all the rows when they have all the clients.
LEMMA ClientsAddUp ==
  ASSUME NEW rows, IsFiniteSet(rows), NEW limit \in Nat
  PROVE  /\ Len(TopProfiles(rows, limit)) <= limit
         /\ Len(TopClients(rows, limit)) <= limit
         /\ Len(TopUpstreamClients(rows, limit)) <= limit
         /\ Cardinality({row.clientIP : row \in rows}) <= limit =>
              /\ CountSum(TopClients(rows, limit)) = Cardinality(rows)
              /\ CountSum(TopUpstreamClients(rows, limit))
                   = Cardinality({row \in rows : Called(row)})
<1> DEFINE named   == {row \in rows : row.profileID # ""}
           calls   == {row \in rows : Called(row)}
           profile == [row \in named |-> row.profileID]
           client  == [row \in rows |-> row.clientIP]
           caller  == [row \in calls |-> row.clientIP]
           Clients == {row.clientIP : row \in rows}
<1>1. /\ TopProfiles(rows, limit) = TopBy(profile, limit)
      /\ TopClients(rows, limit) = TopBy(client, limit)
      /\ TopUpstreamClients(rows, limit) = TopBy(caller, limit)
  BY Zenon DEF TopProfiles, TopClients, TopUpstreamClients
<1>2. named \in SUBSET rows /\ calls \in SUBSET rows
  OBVIOUS
<1>3. DOMAIN profile = named /\ DOMAIN client = rows /\ DOMAIN caller = calls
  OBVIOUS
<1>4. Range(client) = Clients /\ Range(caller) \in SUBSET Clients
  BY DEF Range
<1> HIDE DEF named, calls, profile, client, caller, Clients
<1>5. IsFiniteSet(named) /\ IsFiniteSet(calls)
  BY <1>2, FS_Subset
<1>6. Len(TopBy(profile, limit)) <= limit
  BY <1>3, <1>5, TopOfAll
<1>7. /\ Len(TopBy(client, limit)) <= limit
      /\ Cardinality(Range(client)) <= limit => CountSum(TopBy(client, limit)) = Cardinality(rows)
  BY <1>3, TopOfAll
<1>8. /\ Len(TopBy(caller, limit)) <= limit
      /\ Cardinality(Range(caller)) <= limit => CountSum(TopBy(caller, limit)) = Cardinality(calls)
  BY <1>3, <1>5, TopOfAll
<1>9. IsFiniteSet(Clients)
  BY <1>3, <1>4, TallyCounts
<1>10. Cardinality(Clients) <= limit => Cardinality(Range(caller)) <= limit
  <2>1. IsFiniteSet(Range(caller)) /\ Cardinality(Range(caller)) <= Cardinality(Clients)
    BY <1>4, <1>9, FS_Subset
  <2>2. Cardinality(Range(caller)) \in Nat /\ Cardinality(Clients) \in Nat
    BY <1>9, <2>1, FS_CardinalityType
  <2> QED BY <2>1, <2>2
<1> QED BY <1>1, <1>4, <1>6, <1>7, <1>8, <1>10 DEF calls, Clients

\* No client is in the rows that is not in the trail.
LEMMA ClientsOfTheTrail ==
  ASSUME Shape, Trail, NEW rows \in SUBSET Rows
  PROVE  /\ Cardinality({row.clientIP : row \in rows})
              <= Cardinality({record.clientIP : record \in trail})
         /\ Cardinality({row.clientIP : row \in rows}) \in Nat
         /\ Cardinality({record.clientIP : record \in trail}) \in Nat
<1> DEFINE inRows  == {row.clientIP : row \in rows}
           inTrail == {record.clientIP : record \in trail}
           client  == [record \in trail |-> record.clientIP]
<1>1. ASSUME NEW record \in trail PROVE Row(record).clientIP = record.clientIP
  <2>1. PICK latency \in 0..now : record = RecordAfter(record.req, latency)
    BY OfRecord
  <2>2. "clientIP" \in DOMAIN record
    BY <2>1 DEF RecordAfter
  <2> QED BY <2>2 DEF Row, Restrict
<1>2. inRows \in SUBSET inTrail
  BY <1>1 DEF Rows
<1>3. IsFiniteSet(inTrail)
  <2>1. inTrail = {client[record] : record \in trail}
    OBVIOUS
  <2>2. DOMAIN client = trail
    OBVIOUS
  <2> HIDE DEF client, inTrail
  <2> QED BY <2>1, <2>2, TrailFinite, ImageFinite
<1> HIDE DEF inRows, inTrail
<1>4. IsFiniteSet(inRows) /\ Cardinality(inRows) <= Cardinality(inTrail)
  BY <1>2, <1>3, FS_Subset
<1> QED BY <1>3, <1>4, FS_CardinalityType DEF inRows, inTrail

\* The totals and the lists of a report that is complete.
LEMMA ReportAnswers ==
  ASSUME NEW usage, Len(usage.answers) = 6, NEW n \in Nat, NEW counted,
         Counting(usage, n, counted)
  PROVE  /\ \A i \in {1, 3, 4, 5, 6} : counted[i] \in SUBSET Rows
         /\ usage.answers[1] = Totals(counted[1])
         /\ usage.answers[3] = Outcomes(counted[3])
         /\ usage.answers[4] = TopProfiles(counted[4], usage.limit)
         /\ usage.answers[5] = TopClients(counted[5], usage.limit)
         /\ usage.answers[6] = TopUpstreamClients(counted[6], usage.limit)
         /\ usage.until - config.Retention <= usage.since =>
              \A i \in {3, 5, 6} : counted[1] \subseteq counted[i]
<1>1. n = 6
  <2>1. Listed(usage.answers, n)
    BY DEF Counting, Listed
  <2> QED BY <2>1, ListedLength
<1>2. /\ \A i \in 1..6 : counted[i] \in SUBSET Rows
      /\ usage.until - config.Retention <= usage.since =>
           \A i, j \in 1..6 : i <= j => counted[i] \subseteq counted[j]
  BY <1>1 DEF Counting
<1>3. \A i \in 1..6 : usage.answers[i] = Query(UsageQueries[i], counted[i], usage.limit)
  BY <1>1 DEF Counting
<1>4. /\ UsageQueries[1] = "summary" /\ UsageQueries[3] = "outcomes"
      /\ UsageQueries[4] = "profiles" /\ UsageQueries[5] = "clients"
      /\ UsageQueries[6] = "upstream"
  BY DEF UsageQueries
<1>5. \A rows, limit :
        /\ Query("summary", rows, limit) = Totals(rows)
        /\ Query("outcomes", rows, limit) = Outcomes(rows)
        /\ Query("profiles", rows, limit) = TopProfiles(rows, limit)
        /\ Query("clients", rows, limit) = TopClients(rows, limit)
        /\ Query("upstream", rows, limit) = TopUpstreamClients(rows, limit)
  BY DEF Query
<1>6. /\ 1 \in 1..6 /\ 3 \in 1..6 /\ 4 \in 1..6 /\ 5 \in 1..6 /\ 6 \in 1..6
      /\ 1 <= 3 /\ 1 <= 5 /\ 1 <= 6
  OBVIOUS
<1>7. /\ usage.answers[1] = Totals(counted[1])
      /\ usage.answers[3] = Outcomes(counted[3])
      /\ usage.answers[4] = TopProfiles(counted[4], usage.limit)
      /\ usage.answers[5] = TopClients(counted[5], usage.limit)
      /\ usage.answers[6] = TopUpstreamClients(counted[6], usage.limit)
  BY <1>3, <1>4, <1>5, <1>6
<1>8. \A i \in {1, 3, 4, 5, 6} : counted[i] \in SUBSET Rows
  BY <1>2, <1>6
<1>9. usage.until - config.Retention <= usage.since =>
        \A i \in {3, 5, 6} : counted[1] \subseteq counted[i]
  BY <1>2, <1>6
<1> QED BY <1>7, <1>8, <1>9

LEMMA ListsFollow ==
  ASSUME Shape, Trail, Reports
  PROVE  ListsConsistent
<1> SUFFICES ASSUME NEW r \in Arrived, NEW usage, usage = req[r].usage, usage # <<>>,
                    Len(usage.answers) = 6,
                    NEW totals, totals = usage.answers[1]
             PROVE  /\ \A i \in 4..6 : Len(usage.answers[i]) <= usage.limit
                    /\ usage.until - config.Retention <= usage.since =>
                         /\ SumOf(usage.answers[3]) >= totals.upstreamHits
                         /\ Cardinality({record.clientIP : record \in trail}) <= usage.limit =>
                              /\ CountSum(usage.answers[5]) >= totals.total
                              /\ CountSum(usage.answers[6]) >= totals.upstreamHits
  <2>1. Len(UsageQueries) = 6
    BY DEF UsageQueries
  <2> QED BY <2>1, Zenon DEF ListsConsistent
<1>1. Timed(usage) /\ \E n \in Nat : \E counted : Counting(usage, n, counted)
  BY OfArrived DEF Reports, Summed
<1>2. PICK n \in Nat : \E counted : Counting(usage, n, counted)
  BY <1>1
<1>3. PICK counted : Counting(usage, n, counted)
  BY <1>2
<1>4. PICK limit \in Nat : usage.limit = limit
  BY <1>1 DEF Timed
<1>5. /\ \A i \in {1, 3, 4, 5, 6} : counted[i] \in SUBSET Rows
      /\ totals = Totals(counted[1])
      /\ usage.answers[3] = Outcomes(counted[3])
      /\ usage.answers[4] = TopProfiles(counted[4], limit)
      /\ usage.answers[5] = TopClients(counted[5], limit)
      /\ usage.answers[6] = TopUpstreamClients(counted[6], limit)
      /\ usage.until - config.Retention <= usage.since =>
           \A i \in {3, 5, 6} : counted[1] \subseteq counted[i]
  BY <1>3, <1>4, ReportAnswers
<1>6. ASSUME NEW rows \in SUBSET Rows
      PROVE  IsFiniteSet(rows) /\ \A row \in rows : Sound(row)
  <2>1. \A row \in rows : \E record \in trail : row = Row(record)
    BY DEF Rows
  <2> QED BY <2>1, TrailFinite, NoMoreRows, RowTells
<1>7. \A i \in {1, 3, 4, 5, 6} : IsFiniteSet(counted[i])
  BY <1>5, <1>6
<1>8. \A i \in 4..6 : Len(usage.answers[i]) <= limit
  <2>1. /\ Len(usage.answers[4]) <= limit /\ Len(usage.answers[5]) <= limit
        /\ Len(usage.answers[6]) <= limit
    BY <1>5, <1>7, ClientsAddUp
  <2>2. \A i \in 4..6 : i = 4 \/ i = 5 \/ i = 6
    OBVIOUS
  <2> QED BY <2>1, <2>2
<1> DEFINE Calls(rows) == {row \in rows : Called(row)}
<1>9. totals.total = Cardinality(counted[1]) /\ totals.upstreamHits = Cardinality(Calls(counted[1]))
  BY <1>5, Figures
<1>10. ASSUME usage.until - config.Retention <= usage.since, NEW i \in {3, 5, 6}
       PROVE  /\ Cardinality(counted[1]) <= Cardinality(counted[i])
              /\ Cardinality(Calls(counted[1])) <= Cardinality(Calls(counted[i]))
              /\ Cardinality(Calls(counted[1])) \in Nat /\ Cardinality(Calls(counted[i])) \in Nat
  <2>1. counted[1] \in SUBSET counted[i] /\ Calls(counted[1]) \in SUBSET Calls(counted[i])
    BY <1>5, <1>10
  <2>2. Calls(counted[i]) \in SUBSET counted[i]
    OBVIOUS
  <2> HIDE DEF Calls
  <2>3. IsFiniteSet(counted[i]) /\ IsFiniteSet(Calls(counted[i]))
    BY <1>7, <2>2, FS_Subset
  <2>4. IsFiniteSet(Calls(counted[1]))
    BY <2>1, <2>3, FS_Subset
  <2>5. Cardinality(Calls(counted[1])) \in Nat /\ Cardinality(Calls(counted[i])) \in Nat
    BY <2>3, <2>4, FS_CardinalityType
  <2> QED BY <2>1, <2>3, <2>5, FS_Subset
<1>11. ASSUME usage.until - config.Retention <= usage.since
       PROVE  SumOf(usage.answers[3]) >= totals.upstreamHits
  <2>1. /\ SumOf(usage.answers[3]) \in Nat
        /\ SumOf(usage.answers[3]) >= Cardinality(Calls(counted[3]))
    BY <1>5, <1>6, OutcomesAddUp
  <2>2. /\ Cardinality(Calls(counted[1])) <= Cardinality(Calls(counted[3]))
        /\ Cardinality(Calls(counted[1])) \in Nat /\ Cardinality(Calls(counted[3])) \in Nat
    BY <1>10, <1>11
  <2> HIDE DEF Calls
  <2> QED BY <1>9, <2>1, <2>2
<1>12. ASSUME usage.until - config.Retention <= usage.since,
              Cardinality({record.clientIP : record \in trail}) <= limit
       PROVE  /\ CountSum(usage.answers[5]) >= totals.total
              /\ CountSum(usage.answers[6]) >= totals.upstreamHits
  <2>1. ASSUME NEW i \in {5, 6}
        PROVE  Cardinality({row.clientIP : row \in counted[i]}) <= limit
    <3>1. PICK rows \in SUBSET Rows : rows = counted[i]
      BY <1>5
    <3> DEFINE ofRows == Cardinality({row.clientIP : row \in rows})
               ofTrail == Cardinality({record.clientIP : record \in trail})
    <3>2. ofRows <= ofTrail /\ ofRows \in Nat /\ ofTrail \in Nat
      BY ClientsOfTheTrail
    <3>3. ofTrail <= limit
      BY <1>12
    <3> HIDE DEF ofRows, ofTrail
    <3>4. ofRows <= limit
      BY <3>2, <3>3
    <3> QED BY <3>1, <3>4 DEF ofRows
  <2>2. CountSum(usage.answers[5]) = Cardinality(counted[5])
    BY <1>5, <1>7, <2>1, ClientsAddUp
  <2>3. CountSum(usage.answers[6]) = Cardinality(Calls(counted[6]))
    BY <1>5, <1>7, <2>1, ClientsAddUp
  <2>4. /\ Cardinality(counted[1]) <= Cardinality(counted[5])
        /\ Cardinality(Calls(counted[1])) <= Cardinality(Calls(counted[6]))
    BY <1>10, <1>12
  <2> HIDE DEF Calls
  <2> QED BY <1>9, <2>2, <2>3, <2>4
<1> QED BY <1>4, <1>8, <1>11, <1>12

(***************************************************************************)
(* However records are stored, dropped and purged between the queries of a *)
(* report, and whatever the records are, no list is longer than asked for; *)
(* and unless a purge reached into the window, every call that the totals  *)
(* counted is among the outcomes counted later and, if the list has room   *)
(* for all the clients there are, every request is among the requests of   *)
(* the clients and every call among theirs                                 *)
(* (internal/api/usage.go:46-80, internal/audit/sqlite.go:226-295).        *)
(***************************************************************************)
THEOREM ListsAlwaysConsistent == Spec => []ListsConsistent
<1>1. Shape /\ Trail /\ Reports => ListsConsistent
  BY ListsFollow
<1> QED BY ReportsInvariant, <1>1, PTL
================================================================================
