------------------------------- MODULE ErrorCodes -------------------------------
(***************************************************************************)
(* The error codes of internal/domain/errors.go, how the LinkedIn client   *)
(* derives one from what LinkedIn or the network answers                   *)
(* (internal/linkedin/errors.go), and the HTTP status the API turns one    *)
(* into (internal/api/errors.go).  Messages and causes are left out.       *)
(***************************************************************************)
EXTENDS Integers

Codes == {"invalid_request", "unauthorized", "caller_session_invalid",
          "profile_not_found", "rate_limited", "upstream_auth_failed",
          "upstream_rate_limited", "upstream_timeout", "upstream_unavailable",
          "upstream_parse_error", "internal_error"}

\* The code of a reply from LinkedIn other than 200.  A redirect leads to the
\* login wall: the session is missing or expired.
ClassifyStatus(status) ==
  CASE status \in {401, 403} \cup 300..399 -> "upstream_auth_failed"
    [] status = 404 -> "profile_not_found"
    [] status = 429 -> "upstream_rate_limited"
    [] OTHER -> "upstream_unavailable"

\* Mutant of RetryableStatus: every reply but 200 is worth another attempt.
RetryableIfNotOK(status) == status # 200

RetryableStatus(status) == status \in 500..599

(***************************************************************************)
(* What net/http may report instead of a reply: the end of the context     *)
(* ("expired" its deadline, "gone" its cancellation), a timeout of its own *)
(* (dialling, TLS), or any other failure of the connection.                *)
(***************************************************************************)
NetworkErrors == {"timeout", "connection"}

ClassifyTransport(error) ==
  IF error \in {"expired", "timeout"} THEN "upstream_timeout"
  ELSE "upstream_unavailable"

RetryableCode(code) == code \in {"upstream_timeout", "upstream_unavailable"}

\* The status the API answers an error with.
StatusFor(code) ==
  CASE code = "invalid_request" -> 400
    [] code \in {"unauthorized", "caller_session_invalid"} -> 401
    [] code = "profile_not_found" -> 404
    [] code \in {"rate_limited", "upstream_rate_limited"} -> 429
    [] code \in {"upstream_auth_failed", "upstream_parse_error"} -> 502
    [] code = "upstream_unavailable" -> 503
    [] code = "upstream_timeout" -> 504
    [] OTHER -> 500
================================================================================
