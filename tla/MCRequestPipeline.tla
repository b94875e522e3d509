--------------------------- MODULE MCRequestPipeline ---------------------------
(* The request pipeline with constants for TLC.                             *)
EXTENDS RequestPipeline

Member(slug) ==
  [length |-> "normal", scheme |-> "none", host |-> <<"uk", "linkedin", "com">>,
   path |-> <<"", "in", slug, "">>]

\* A profile request through one proxy, and what differs from it.
Visit ==
  [path |-> "/v1/profile", id |-> "", client |-> "alice", hops |-> 1,
   forwarded |-> <<>>, url |-> Member("ada"), liAt |-> "", jsession |-> "",
   userAgent |-> "", image |-> "", apiKey |-> "", bearer |-> "",
   window |-> Garbage, limit |-> Garbage]

\* Over one proxy, with auditing, one section and one retry.
Env ==
  "TRUSTED_PROXY_DEPTH" :> 1 @@ "AUDIT_ADMIN_KEYS" :> <<"", "secret">>
  @@ "PROFILE_SECTIONS" :> <<"skills", "skills">> @@ "HTTP_MAX_RETRIES" :> 1
  @@ "RATE_LIMIT_BURST" :> 1 @@ "RATE_LIMIT_RPS" :> 1

\* What a deployment is unless said otherwise: one request at a time, and no
\* time passes.
Deployment(env, what) ==
  [env |-> env, storeOpens |-> TRUE, inputs |-> what, together |-> 1, maxTime |-> 0,
   errors |-> {"profile_not_found", "upstream_auth_failed", "upstream_timeout"},
   sections |-> {"ok", "empty", "unavailable", "none"}]

\* One request at a time, of every kind and through every check.
Handlers ==
  LET Ask(url) == [Visit EXCEPT !.url = url]
      Urls ==
        {Member(""), Member("too_long"), [Member("ada") EXCEPT !.length = "too_long"],
         [Member("ada") EXCEPT !.scheme = "ftp"],
         [Member("ada") EXCEPT !.host = <<"linkedin", "com", "example", "com">>],
         [Member("ada") EXCEPT !.path = <<"", "company", "ada">>],
         [Member("ada") EXCEPT !.path = <<"", "">>],
         [Member("ada") EXCEPT !.scheme = "http", !.host = <<"de", "m", "linkedin", "com">>]}
      Cookies == {"", "cookie", "control_character"}
  IN {Ask(url) : url \in Urls}
     \cup {[Visit EXCEPT !.liAt = a, !.jsession = b, !.userAgent = u, !.id = "client-id"] :
             a, b, u \in Cookies}
     \cup {[Visit EXCEPT !.path = "/v1/image", !.image = i, !.id = "unsafe"] :
             i \in {"https://media.licdn.com", "http://example.com"}}
     \cup {[Visit EXCEPT !.path = p] :
             p \in {"/healthz", "/readyz", "/metrics", "/index.html", "/admin/usage"}}

\* Clients with and without headers of their own, behind every number of proxies.
Addresses ==
  {[Visit EXCEPT !.url = Member(""), !.hops = h, !.forwarded = f, !.client = c] :
     h \in 0..2, f \in {<<>>, <<"">>, <<"bob">>, <<"bob", "proxy1">>}, c \in {"alice", "bob"}}

\* Three clients for a map of two, in the order they first turn up, with
\* requests that go no further.
Crowd ==
  LET From(clients) == {[Visit EXCEPT !.url = Member(""), !.client = c] : c \in clients}
      All == {"alice", "bob", "carol"}
  IN <<From({"alice"}), From({"alice", "bob"}), From(All), From(All)>>

Admin(windows, limits) ==
  {[Visit EXCEPT !.path = "/admin/usage", !.bearer = "secret", !.window = w, !.limit = l] :
     w \in windows, l \in limits}

MCDeployments ==
  <<Deployment(Env, <<Handlers>>),
    [Deployment(Env @@ ("LINKEDIN_ALLOW_CALLER_SESSION" :> Garbage), <<Handlers>>)
     EXCEPT !.storeOpens = FALSE],
    [Deployment(("LINKEDIN_ALLOW_CALLER_SESSION" :> FALSE) @@ ("AUDIT_ENABLED" :> FALSE) @@ Env,
                <<Handlers>>) EXCEPT !.storeOpens = FALSE],
    Deployment(("RATE_LIMIT_BURST" :> 0) @@ Env, <<Handlers>>),
    Deployment(("PROFILE_SECTIONS" :> <<"hobbies">>) @@ Env, <<Handlers>>),
    Deployment(("ENV" :> "Production") @@ Env, <<Handlers>>),
    [Deployment(("AUDIT_ENABLED" :> FALSE) @@ Env, Crowd)
     EXCEPT !.storeOpens = FALSE, !.together = 2, !.maxTime = 150],
    \* A report on records that come, go and grow old.
    [Deployment(("HTTP_MAX_RETRIES" :> 0) @@ ("AUDIT_RETENTION" :> 50) @@ Env,
                <<{Visit}, {Visit}, Admin({50}, {1000})>>)
     EXCEPT !.maxTime = 75, !.errors = {}, !.sections = {"ok"}],
    \* A report on records of every kind.
    [Deployment(("RATE_LIMIT_ENABLED" :> FALSE) @@ ("HTTP_MAX_RETRIES" :> 0) @@ Env,
                <<{Visit}, {Visit, [Visit EXCEPT !.client = "bob"]}, Admin({Garbage}, {1, 1000})>>)
     EXCEPT !.together = 2, !.errors = {"profile_not_found"}, !.sections = {"ok"}]>>
  \o [d \in 1..3 |-> Deployment(("TRUSTED_PROXY_DEPTH" :> d - 1) @@ Env, <<Addresses>>)]
================================================================================
