----------------------------- MODULE ServerLookup -----------------------------
(***************************************************************************)
(* How the profile service answers a request on the server session         *)
(* (service/profile.go, getServer and retrieve) from the profile cache     *)
(* (cache/ttl.go), the memory of missing profiles (cache/negative.go) and  *)
(* one coalesced retrieval (golang.org/x/sync/singleflight).               *)
(*                                                                         *)
(* A request looks in the cache, then in the negative cache, then calls    *)
(* group.Do: the first caller for an id leads and retrieves, the others    *)
(* wait for its result.  Each of these holds a lock of its own only, so    *)
(* each is an action; TTLCache.Get drops its read lock before it deletes   *)
(* what it found expired, so that is two.                                  *)
(*                                                                         *)
(* TTLCache.Get reads the clock after that lock too: the reading belongs   *)
(* to the lookup, and an entry that expires between the two is looked at   *)
(* again under the write lock.                                             *)
(*                                                                         *)
(* The gate is the guard of Guard.tla, which may admit or refuse.  What    *)
(* LinkedIn answers is free: the profile is there, it is not, or the call  *)
(* fails in any way (including the leader's deadline and its client        *)
(* hanging up, whose context the retrieval runs under).                    *)
(***************************************************************************)
EXTENDS ExpiringMap

CONSTANTS
  Requests,     \* the request handlers
  Ids,          \* public identifiers of profiles
  CacheTTL,     \* ticks a profile stays cached
  NegativeTTL,  \* ticks a missing profile is remembered
  MaxEntries    \* size cap of either map (CACHE_MAX_ENTRIES)

ASSUME ServerLookupAssumption ==
  /\ IsFiniteSet(Requests) /\ IsFiniteSet(Ids) /\ Ids # {}
  /\ CacheTTL \in Nat /\ NegativeTTL \in Nat
  /\ MaxEntries \in Nat \ {0}

Points == {"idle", "get", "expire", "negative", "group", "waiting",
           "enter", "fetch", "store", "remember", "return"}

\* A leader is inside group.Do's function.
LeadPoints == {"enter", "fetch", "store", "remember", "return"}

Answers == {"none", "found", "missing", "fault"}

VARIABLES
  cache, negative,   \* the two maps, from ids to ticks left
  flights,           \* singleflight's calls: from an id to its leader
  pc, id, answer,    \* each request: where it is, for whom, what came out
  found,             \* history: the ids whose last verdict, of those that were
                     \* stored or remembered, is that the profile is there
  evicted,           \* history: those whose profile has since left the cache,
                     \* fresh, to make room for another one
  stillFound,        \* history: the request's id was in found when it began,
                     \* and no retrieval has said otherwise since
  wasEvicted         \* history: its id was in evicted then, or since

history == <<found, evicted, stillFound, wasEvicted>>
vars == <<cache, negative, flights, pc, id, answer, history>>

TypeOK ==
  /\ cache \in Maps(Ids, CacheTTL)
  /\ negative \in Maps(Ids, NegativeTTL)
  /\ DOMAIN flights \subseteq Ids
  /\ \A k \in DOMAIN flights : flights[k] \in Requests
  /\ pc \in [Requests -> Points]
  /\ id \in [Requests -> Ids]
  /\ answer \in [Requests -> Answers]
  /\ found \subseteq Ids /\ evicted \subseteq Ids
  /\ stillFound \in [Requests -> BOOLEAN] /\ wasEvicted \in [Requests -> BOOLEAN]

Init ==
  /\ cache = Empty /\ negative = Empty /\ flights = Empty
  /\ pc = [r \in Requests |-> "idle"]
  /\ \E k \in Ids : id = [r \in Requests |-> k]
  /\ answer = [r \in Requests |-> "none"]
  /\ found = {} /\ evicted = {}
  /\ stillFound = [r \in Requests |-> FALSE]
  /\ wasEvicted = [r \in Requests |-> FALSE]

Goto(r, point) == pc' = [pc EXCEPT ![r] = point]

Answer(r, a) ==
  /\ Goto(r, "idle")
  /\ answer' = [answer EXCEPT ![r] = a]

------------------------------------------------------------------------------
(* The lookup in the two caches.                                            *)

\* A request for profile k arrives; idle requests keep no answer around.
Arrive(r, k) ==
  /\ pc[r] = "idle"
  /\ Goto(r, "get")
  /\ id' = [id EXCEPT ![r] = k]
  /\ answer' = [answer EXCEPT ![r] = "none"]
  /\ stillFound' = [stillFound EXCEPT ![r] = k \in found]
  /\ wasEvicted' = [wasEvicted EXCEPT ![r] = k \in evicted]
  /\ UNCHANGED <<cache, negative, flights, found, evicted>>

\* TTLCache.Get under its read lock.
GetHit(r) ==
  /\ pc[r] = "get" /\ Fresh(cache, id[r])
  /\ Answer(r, "found")
  /\ UNCHANGED <<cache, negative, flights, id, history>>

GetMiss(r) ==
  /\ pc[r] = "get" /\ ~Fresh(cache, id[r])
  /\ Goto(r, IF Expired(cache, id[r]) THEN "expire" ELSE "negative")
  /\ UNCHANGED <<cache, negative, flights, id, answer, history>>

\* Mutant of GetExpire: the entry is deleted without a second look.
ExpireUnchecked(r) ==
  /\ pc[r] = "expire"
  /\ cache' = Delete(cache, id[r])
  /\ Goto(r, "negative")
  /\ UNCHANGED <<negative, flights, id, answer, history>>

\* TTLCache.Get under its write lock: the entry may have been replaced since.
GetExpire(r) ==
  /\ pc[r] = "expire"
  /\ cache' = AfterLookup(cache, id[r])
  /\ Goto(r, "negative")
  /\ UNCHANGED <<negative, flights, id, answer, history>>

\* Mutant of Refuse: a mark counts however old it is.
RefuseForever(r) ==
  /\ pc[r] = "negative" /\ id[r] \in DOMAIN negative
  /\ Answer(r, "missing")
  /\ UNCHANGED <<cache, negative, flights, id, history>>

\* NegativeTTL.Blocked.
Refuse(r) ==
  /\ pc[r] = "negative" /\ Fresh(negative, id[r])
  /\ Answer(r, "missing")
  /\ UNCHANGED <<cache, negative, flights, id, history>>

Pass(r) ==
  /\ pc[r] = "negative" /\ ~Fresh(negative, id[r])
  /\ negative' = AfterLookup(negative, id[r])
  /\ Goto(r, "group")
  /\ UNCHANGED <<cache, flights, id, answer, history>>

------------------------------------------------------------------------------
(* group.Do and the leader's retrieval.                                     *)

Wait(r) ==
  /\ pc[r] = "group" /\ id[r] \in DOMAIN flights
  /\ Goto(r, "waiting")
  /\ UNCHANGED <<cache, negative, flights, id, answer, history>>

\* Mutant of Lead: identical retrievals are not coalesced.
LeadAnyway(r) ==
  /\ pc[r] = "group"
  /\ flights' = [k \in DOMAIN flights \cup {id[r]} |-> IF k = id[r] THEN r ELSE flights[k]]
  /\ Goto(r, "enter")
  /\ UNCHANGED <<cache, negative, id, answer, history>>

Lead(r) ==
  /\ pc[r] = "group" /\ id[r] \notin DOMAIN flights
  /\ flights' = [k \in DOMAIN flights \cup {id[r]} |-> IF k = id[r] THEN r ELSE flights[k]]
  /\ Goto(r, "enter")
  /\ UNCHANGED <<cache, negative, id, answer, history>>

\* The gate refuses: an error, and no upstream call.
GateRefuses(r) ==
  /\ pc[r] = "enter"
  /\ Goto(r, "return")
  /\ answer' = [answer EXCEPT ![r] = "fault"]
  /\ UNCHANGED <<cache, negative, flights, id, history>>

GateAdmits(r) ==
  /\ pc[r] = "enter"
  /\ Goto(r, "fetch")
  /\ UNCHANGED <<cache, negative, flights, id, answer, history>>

\* fetchCore came back and the gate was released with what it returned.  The
\* sections a found profile is enriched with change nothing here: between this
\* step and Store any time may pass.
Fetched(r, a) ==
  /\ pc[r] = "fetch"
  /\ Goto(r, CASE a = "found" -> "store" [] a = "missing" -> "remember"
               [] a = "fault" -> "return")
  /\ answer' = [answer EXCEPT ![r] = a]
  /\ UNCHANGED <<cache, negative, flights, id, history>>

\* History: k was found, and profiles that were still fresh made room for it.
Found(k, kept) ==
  LET out == {j \in DOMAIN cache \ DOMAIN kept : cache[j] >= 0}
  IN  /\ found' = found \cup {k}
      /\ evicted' = (evicted \cup out) \ {k}
      /\ wasEvicted' = [r \in Requests |-> wasEvicted[r] \/ id[r] \in out]
      /\ UNCHANGED stillFound

\* History: k is missing now.
Missed(k) ==
  /\ found' = found \ {k}
  /\ stillFound' = [r \in Requests |-> stillFound[r] /\ id[r] # k]
  /\ UNCHANGED <<evicted, wasEvicted>>

\* NegativeTTL.Remember.
Remember(r) ==
  /\ pc[r] = "remember"
  /\ \E kept \in IF NeedsRoom(negative, id[r], MaxEntries)
                 THEN EvictAny(negative, MaxEntries) ELSE {negative} :
       negative' = Put(kept, id[r], NegativeTTL)
  /\ Missed(id[r])
  /\ Goto(r, "return")
  /\ UNCHANGED <<cache, flights, id, answer>>

\* Mutant of Store: nothing is evicted.
StoreWithoutRoom(r) ==
  /\ pc[r] = "store"
  /\ cache' = Put(cache, id[r], CacheTTL)
  /\ Found(id[r], cache)
  /\ Goto(r, "return")
  /\ UNCHANGED <<negative, flights, id, answer>>

\* TTLCache.Set.
Store(r) ==
  /\ pc[r] = "store"
  /\ \E kept \in IF NeedsRoom(cache, id[r], MaxEntries)
                 THEN EvictSoonest(cache, MaxEntries) ELSE {cache} :
       /\ cache' = Put(kept, id[r], CacheTTL)
       /\ Found(id[r], kept)
  /\ Goto(r, "return")
  /\ UNCHANGED <<negative, flights, id, answer>>

\* Mutant of Return: only the leader is answered.
ReturnToLeader(r) ==
  /\ pc[r] = "return"
  /\ flights' = Restrict(flights, DOMAIN flights \ {id[r]})
  /\ pc' = [pc EXCEPT ![r] = "idle"]
  /\ UNCHANGED <<cache, negative, id, answer, history>>

\* The function returns: the call is forgotten and everybody who waits for it
\* gets the leader's result.
Return(r) ==
  LET woken == {s \in Requests : s = r \/ (pc[s] = "waiting" /\ id[s] = id[r])}
  IN  /\ pc[r] = "return"
      /\ flights' = Restrict(flights, DOMAIN flights \ {id[r]})
      /\ pc' = [s \in Requests |-> IF s \in woken THEN "idle" ELSE pc[s]]
      /\ answer' = [s \in Requests |-> IF s \in woken THEN answer[r] ELSE answer[s]]
      /\ UNCHANGED <<cache, negative, id, history>>

------------------------------------------------------------------------------

Tick ==
  /\ cache' = Older(cache)
  /\ negative' = Older(negative)
  /\ UNCHANGED <<flights, pc, id, answer, history>>

Advance(r) ==
  \/ GetHit(r) \/ GetMiss(r) \/ GetExpire(r)
  \/ Refuse(r) \/ Pass(r)
  \/ Wait(r) \/ Lead(r)
  \/ GateRefuses(r) \/ GateAdmits(r)
  \/ \E a \in {"found", "missing", "fault"} : Fetched(r, a)
  \/ Remember(r) \/ Store(r)
  \/ Return(r)

Next ==
  \/ \E r \in Requests : Advance(r) \/ \E k \in Ids : Arrive(r, k)
  \/ Tick

\* A handler that is not blocked runs on, and every retrieval has a deadline.
Spec == Init /\ [][Next]_vars /\ \A r \in Requests : WF_vars(Advance(r))

------------------------------------------------------------------------------
(* Properties.                                                              *)

\* Neither map ever outgrows its cap, in whatever order lookups, deletions
\* and evictions meet (ttl.go:58-86, negative.go:44-69).
SizesBounded ==
  /\ Cardinality(DOMAIN cache) <= MaxEntries
  /\ Cardinality(DOMAIN negative) <= MaxEntries

\* Each id has one retrieval at most, led by the request on record, and nobody
\* waits for a retrieval that is over (profile.go:164).
OneRetrievalPerId ==
  /\ \A r, s \in Requests :
       pc[r] \in LeadPoints /\ pc[s] \in LeadPoints /\ id[r] = id[s] => r = s
  /\ \A r \in Requests : pc[r] = "waiting" =>
       id[r] \in DOMAIN flights /\ pc[flights[id[r]]] \in LeadPoints

\* A profile that is still fresh leaves the cache only to make room for
\* another one, and only when none kept is expired or expires sooner: a lookup
\* that saw its expired predecessor never deletes it (ttl.go:47-53, 70-86).
FreshProfilesStay ==
  [][\A k \in DOMAIN cache \ DOMAIN cache' :
       cache[k] >= 0 =>
         /\ DOMAIN cache' \ DOMAIN cache # {}
         /\ \A j \in DOMAIN cache \cap DOMAIN cache' : cache[j] >= cache[k]]_vars

\* A request that began after a retrieval had found the profile, with no newer
\* one that did not, is not told from an older mark that there is no such
\* profile, whatever the leaders and expiries in between - unless the cache gave
\* up that profile while it was fresh, to make room for another one: nothing
\* takes the mark away then, and until it expires it hides a profile that was
\* found after it was made (profile.go:151-161, 196-203, ttl.go:62-86).
\* Needs NegativeTTL <= CacheTTL, as by default (1 min against 10 min).
MissingIsCurrent ==
  [][\A r \in Requests :
       pc[r] = "negative" /\ pc'[r] = "idle" /\ stillFound[r] => wasEvicted[r]]_vars

\* Every request is answered, leaders and those who wait alike
\* (profile.go:164-175).
EveryRequestAnswered ==
  \A r \in Requests : (pc[r] = "get") ~> (pc[r] = "idle")
================================================================================
