----------------------------- MODULE RequestInputs -----------------------------
(***************************************************************************)
(* What the API reads off a request: its route, its id, its client's       *)
(* address (internal/api/middleware.go, requestid.go), the profile it asks *)
(* for (internal/urlx), the session it brings (credential.go), an          *)
(* administrator's key (apikey.go) and the usage query's parameters        *)
(* (usage.go).  Header values are strings or small records of what the     *)
(* code tells apart; an absent one is "".                                  *)
(***************************************************************************)
EXTENDS Configuration

Routes == {"/v1/profile", "/v1/image", "/healthz", "/readyz", "/metrics", "/admin/usage"}

\* The image proxy and the UI's files share a label.
RouteLabel(path) == IF path \in Routes \ {"/v1/image"} THEN path ELSE "static"

\* A client's id is kept when it is short and of safe characters.
RequestID(sent, fresh) == IF sent \in {"", "unsafe"} THEN fresh ELSE sent

------------------------------------------------------------------------------
(* The client's address.                                                    *)

\* Mutant of ClientIP: counts the trusted proxies from the left.
ClientIPFromLeft(forwarded, remote, depth) ==
  IF depth > 0 /\ forwarded # <<>> /\ Head(forwarded) # "" THEN Head(forwarded) ELSE remote

\* forwarded is X-Forwarded-For split at its commas, <<>> when it is empty.
ClientIP(forwarded, remote, depth) ==
  LET last == Len(forwarded) - depth + 1
      ip   == forwarded[IF last < 1 THEN 1 ELSE last]
  IN IF depth > 0 /\ forwarded # <<>> /\ ip # "" THEN ip ELSE remote

(***************************************************************************)
(* How a request arrives that went through hops reverse proxies: each      *)
(* appends the peer it was called by to the one header there is.           *)
(***************************************************************************)
Proxies == <<"proxy1", "proxy2">>

ForwardedBy(hops, sent, client) ==
  IF hops = 0 THEN [forwarded |-> sent, remote |-> client]
  ELSE [forwarded |-> sent \o <<client>> \o SubSeq(Proxies, 1, hops - 1),
        remote    |-> Proxies[hops]]

------------------------------------------------------------------------------
(***************************************************************************)
(* The profile asked for.  A URL is its length class, its scheme ("none"   *)
(* when there is no ://), its host and its escaped path split at the       *)
(* slashes; a text that does not parse has the scheme "broken".            *)
(***************************************************************************)
InvalidSlugs == {"", "too_long", "bad$character"}

WithoutOuterSlashes(path) ==
  LET names == {i \in DOMAIN path : path[i] # ""}
      Bound(i) == \E a, b \in names : a <= i /\ i <= b
  IN LET inner == {i \in DOMAIN path : Bound(i)}
     IN IF inner = {} THEN <<>>
        ELSE SubSeq(path, CHOOSE i \in inner : \A j \in inner : i <= j,
                          CHOOSE i \in inner : \A j \in inner : j <= i)

NoSlug == ""

ExtractSlug(path) ==
  LET parts == WithoutOuterSlashes(path)
  IN IF Len(parts) = 2 /\ parts[1] = "in" /\ parts[2] \notin InvalidSlugs
     THEN parts[2] ELSE NoSlug

\* The public identifier, NoSlug when the request is invalid.
ParseURL(raw) ==
  IF /\ raw.length = "normal"
     /\ raw.scheme \in {"none", "http", "https"}
     /\ IsLinkedInHost(raw.host)
  THEN ExtractSlug(raw.path) ELSE NoSlug

------------------------------------------------------------------------------
(* The caller's session: a cookie or header is "", well formed or not.      *)

ValidCredential(value) == value \notin {"", "oversized", "control_character"}

ServerCredential == [mode |-> "server_session", fingerprint |-> <<>>]

\* The fingerprint is a keyed hash of both cookies.
CallerCredential(liAt, jsession) ==
  [mode |-> "caller_session", fingerprint |-> <<liAt, jsession>>]

\* The credential of a request, as a sequence; <<>> when it is invalid.
CredentialOf(liAt, jsession, userAgent, allow) ==
  IF liAt = "" /\ jsession = "" THEN <<ServerCredential>>
  ELSE IF /\ allow
          /\ ValidCredential(liAt) /\ ValidCredential(jsession)
          /\ userAgent = "" \/ ValidCredential(userAgent)
  THEN <<CallerCredential(liAt, jsession)>> ELSE <<>>

------------------------------------------------------------------------------
(* The administrator's key and query.                                       *)

\* bearer is what follows "Bearer " in Authorization.
ExtractAPIKey(apiKey, bearer) == IF apiKey # "" THEN apiKey ELSE bearer

ValidKey(provided, keys) == provided # "" /\ Contains(keys, provided)

MaxUsageWindow == 30 * Day
MaxUsageLimit  == 100

\* Garbage stands for what does not parse, as in the environment.
ParseWindow(raw) ==
  CASE raw = Garbage -> Day
    [] raw # Garbage /\ raw <= 0 -> Day
    [] raw # Garbage /\ raw > MaxUsageWindow -> MaxUsageWindow
    [] OTHER -> raw

ParseLimit(raw) ==
  CASE raw = Garbage -> 10
    [] raw # Garbage /\ raw < 1 -> 10
    [] raw # Garbage /\ raw > MaxUsageLimit -> MaxUsageLimit
    [] OTHER -> raw
================================================================================
