------------------------------ MODULE UsageReport ------------------------------
(***************************************************************************)
(* The queries of the usage endpoint (internal/audit/sqlite.go), over a    *)
(* set of rows.  The mean latency is left out.                             *)
(***************************************************************************)
EXTENDS Integers, FiniteSets, Sequences, SequencesExt, FiniteSetsExt, Functions

Within(rows, since) == {row \in rows : row.ts >= since}

Cached(row)      == row.cached
Called(row)      == row.upstreamCalled
RateLimited(row) == row.rateDecision # "allowed"

\* Mutant of Missed: whatever did not come from the cache is a miss.
MissedUnlessCached(row) == ~Cached(row)

Missed(row) == ~Cached(row) /\ Called(row)

\* The first query of Summary; the figures are of one and the same set of rows.
Totals(rows) ==
  LET Number(Op(_)) == Cardinality({row \in rows : Op(row)})
  IN [total |-> Cardinality(rows),
      cacheHits |-> Number(Cached), cacheMisses |-> Number(Missed),
      upstreamHits |-> Number(Called), rateLimited |-> Number(RateLimited),
      authFailures |-> Number(LAMBDA row : row.errorClass = "unauthorized"),
      notFound |-> Number(LAMBDA row : row.errorClass = "profile_not_found"),
      serverErrors |-> Number(LAMBDA row : row.status >= 500)]

\* The latency that p per cent of the rows stay below, 0 when there are none: of
\* the rows in the order of their latency, that of the one at this offset.
Percentile(rows, p) ==
  LET offset == (Cardinality(rows) * p) \div 100
      UpTo(l) == {row \in rows : row.latency <= l}
      Below(l) == {row \in rows : row.latency < l}
  IN IF rows = {} THEN 0
     ELSE CHOOSE l \in {row.latency : row \in rows} :
            Cardinality(Below(l)) <= offset /\ offset < Cardinality(UpTo(l))

\* How many rows have each key; keyOf is a function on the rows that count.
Tally(keyOf) ==
  [k \in Range(keyOf) |-> Cardinality({row \in DOMAIN keyOf : keyOf[row] = k})]

\* Mutant of Outcomes: only of the requests that failed.
OutcomesOfFailures(rows) ==
  Tally([row \in {row \in rows : row.upstreamOutcome # "" /\ row.errorClass # ""} |->
           row.upstreamOutcome])

Outcomes(rows) ==
  Tally([row \in {row \in rows : row.upstreamOutcome # ""} |-> row.upstreamOutcome])

\* The keys, those with the most rows first; the order of equals is the database's.
Ranking(tally) ==
  CHOOSE keys \in Bijection(1..Cardinality(DOMAIN tally), DOMAIN tally) :
    \A i, j \in DOMAIN keys : i < j => tally[keys[i]] >= tally[keys[j]]

TopBy(keyOf, limit) ==
  LET tally == Tally(keyOf)
      keys  == Ranking(tally)
  IN [i \in 1..Min({limit, Cardinality(DOMAIN tally)}) |->
        [key |-> keys[i], count |-> tally[keys[i]]]]

TopProfiles(rows, limit) ==
  TopBy([row \in {row \in rows : row.profileID # ""} |-> row.profileID], limit)

TopClients(rows, limit) == TopBy([row \in rows |-> row.clientIP], limit)

TopUpstreamClients(rows, limit) ==
  TopBy([row \in {row \in rows : Called(row)} |-> row.clientIP], limit)

\* What counts add up to: as many as there are numbers up to one of them.
SumOf(counts) == Cardinality(UNION {{k} \X (1..counts[k]) : k \in DOMAIN counts})

\* What a list of counts adds up to.
CountSum(list) == SumOf([i \in DOMAIN list |-> list[i].count])
================================================================================
