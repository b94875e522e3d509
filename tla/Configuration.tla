----------------------------- MODULE Configuration -----------------------------
(***************************************************************************)
(* The settings of internal/config/config.go: what is read from the        *)
(* environment, the defaults, and what the program refuses to start with;  *)
(* and the section names main.go resolves.                                 *)
(*                                                                         *)
(* An environment is a function from the variables that are set to what    *)
(* they say: Garbage for a text that does not parse as the setting's type  *)
(* (an empty text included), a sequence of items for a list, which may be  *)
(* blank.  Durations are in hundredths of a second.  A rate is a whole     *)
(* number: that ParseFloat also reads fractions, infinities and NaN is     *)
(* left out, and so are the settings that only shape a header or the log.  *)
(***************************************************************************)
EXTENDS Integers, Sequences, SequencesExt

CONSTANT Garbage

\* getEnv, getEnvInt, getEnvFloat, getEnvBool and getEnvDuration.
Setting(env, key, default) ==
  IF key \in DOMAIN env /\ env[key] # Garbage THEN env[key] ELSE default

\* getEnvCSV: the items that are not blank; none when the variable is unset.
Items(env, key) ==
  IF key \in DOMAIN env THEN SelectSeq(env[key], LAMBDA item : item # "") ELSE <<>>

\* getEnvCSVOr: a list of blanks only leaves the default in place.
ItemsOr(env, key, default) ==
  IF Items(env, key) = <<>> THEN default ELSE Items(env, key)

Second == 100
Minute == 60 * Second
Day    == 24 * 60 * Minute

Load(env) ==
  LET Get(key, default) == Setting(env, key, default)
  IN [Env |-> Get("ENV", "development"),
      Port |-> Get("SERVER_PORT", 8080),
      ReadTimeout |-> Get("SERVER_READ_TIMEOUT", 10 * Second),
      WriteTimeout |-> Get("SERVER_WRITE_TIMEOUT", 20 * Second),
      IdleTimeout |-> Get("SERVER_IDLE_TIMEOUT", 90 * Second),
      ShutdownTimeout |-> Get("SHUTDOWN_TIMEOUT", 15 * Second),
      TrustedProxyDepth |-> Get("TRUSTED_PROXY_DEPTH", 0),
      LiAt |-> Get("LINKEDIN_LI_AT", ""),
      JSessionID |-> Get("LINKEDIN_JSESSIONID", ""),
      BaseURL |-> Get("LINKEDIN_BASE_URL",
                      [scheme |-> "https", host |-> <<"www", "linkedin", "com">>]),
      UserAgent |-> Get("LINKEDIN_USER_AGENT", ""),
      Timeout |-> Get("HTTP_REQUEST_TIMEOUT", 10 * Second),
      MaxRetries |-> Get("HTTP_MAX_RETRIES", 2),
      RetryBackoff |-> Get("HTTP_RETRY_BACKOFF", 30),
      ProfileTimeout |-> Get("PROFILE_TIMEOUT", 15 * Second),
      AllowCallerSession |-> Get("LINKEDIN_ALLOW_CALLER_SESSION", TRUE),
      Sections |-> ItemsOr(env, "PROFILE_SECTIONS", <<"experience", "education">>),
      EnrichmentConcurrency |-> Get("ENRICHMENT_CONCURRENCY", 4),
      CacheEnabled |-> Get("CACHE_ENABLED", TRUE),
      CacheTTL |-> Get("CACHE_TTL", 10 * Minute),
      CacheMaxEntries |-> Get("CACHE_MAX_ENTRIES", 1000),
      RateLimitEnabled |-> Get("RATE_LIMIT_ENABLED", TRUE),
      RPS |-> Get("RATE_LIMIT_RPS", 5),
      Burst |-> Get("RATE_LIMIT_BURST", 10),
      MaxConcurrency |-> Get("UPSTREAM_MAX_CONCURRENCY", 4),
      RateRPS |-> Get("UPSTREAM_RATE_RPS", 5),
      RateBurst |-> Get("UPSTREAM_RATE_BURST", 10),
      BreakerThreshold |-> Get("UPSTREAM_BREAKER_THRESHOLD", 5),
      BreakerCooldown |-> Get("UPSTREAM_BREAKER_COOLDOWN", 30 * Second),
      SessionThreshold |-> Get("UPSTREAM_SESSION_THRESHOLD", 2),
      SessionCooldown |-> Get("UPSTREAM_SESSION_COOLDOWN", 5 * Minute),
      CallerSessionTTL |-> Get("CALLER_SESSION_UNHEALTHY_TTL", 5 * Minute),
      NegativeCacheTTL |-> Get("UPSTREAM_NEG_CACHE_TTL", Minute),
      AuditEnabled |-> Get("AUDIT_ENABLED", TRUE),
      DBPath |-> Get("AUDIT_DB_PATH", "audit.db"),
      Retention |-> Get("AUDIT_RETENTION", 30 * Day),
      BufferSize |-> Get("AUDIT_BUFFER_SIZE", 4096),
      BatchSize |-> Get("AUDIT_BATCH_SIZE", 128),
      FlushInterval |-> Get("AUDIT_FLUSH_INTERVAL", Second),
      AdminKeys |-> Items(env, "AUDIT_ADMIN_KEYS"),
      LogFormat |-> Get("LOG_FORMAT", "json")]

(***************************************************************************)
(* A host is the sequence of its labels, in lower case and without a port: *)
(* linkedin.com, after an optional locale of two or three letters and an   *)
(* optional www or m.                                                      *)
(***************************************************************************)
IsLinkedInHost(host) ==
  LET Domain == <<"linkedin", "com">>
      Short(label) == Len(label) \in {2, 3}
  IN \/ host = Domain
     \/ \E label \in {"www", "m"} :
          \/ host = <<label>> \o Domain
          \/ Len(host) = 4 /\ Short(Head(host)) /\ Tail(host) = <<label>> \o Domain
     \/ Len(host) = 3 /\ Short(Head(host)) /\ Tail(host) = Domain

Ports == 1..65535

\* Letters' case does not matter (strings.EqualFold): these spellings stand for all.
IsProduction(c) == c.Env \in {"production", "Production", "PRODUCTION"}

\* Each conjunct is one of the problems Validate collects.
Valid(c) ==
  /\ c.Port \in Ports
  /\ c.TrustedProxyDepth >= 0
  /\ c.BaseURL.scheme = "https" /\ IsLinkedInHost(c.BaseURL.host)
  /\ c.MaxRetries >= 0
  /\ c.Timeout > 0 /\ c.ProfileTimeout > 0
  /\ c.EnrichmentConcurrency > 0
  /\ c.LiAt # "" => c.UserAgent # ""
  /\ c.MaxRetries > 0 => c.RetryBackoff > 0
  /\ c.CacheEnabled => c.CacheMaxEntries >= 1
  /\ c.RateLimitEnabled => c.RPS > 0 /\ c.Burst >= 1
  /\ c.MaxConcurrency >= 1
  /\ c.RateRPS > 0 /\ c.RateBurst >= 1
  /\ c.BreakerThreshold >= 1 /\ c.BreakerCooldown > 0
  /\ c.SessionThreshold >= 1 /\ c.SessionCooldown > 0
  /\ c.CallerSessionTTL > 0
  /\ c.AuditEnabled => /\ c.DBPath # "" /\ c.Retention > 0 /\ c.FlushInterval > 0
                       /\ c.BufferSize >= 1 /\ c.BatchSize >= 1
  /\ c.LogFormat \in {"json", "text"}
  /\ IsProduction(c) => c.LiAt # "" /\ c.JSessionID # ""

\* The names profileSections knows, each once and in order; the program does
\* not start with another one.
KnownSections == {"experience", "education", "skills", "certifications",
                  "languages", "volunteer", "projects", "test_scores"}

ProfileSections(names) ==
  FoldLeft(LAMBDA out, name : IF Contains(out, name) THEN out ELSE Append(out, name),
           <<>>, names)

Starts(c) == Valid(c) /\ ToSet(c.Sections) \subseteq KnownSections
================================================================================
