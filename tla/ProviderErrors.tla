---------------------------- MODULE ProviderErrors ----------------------------
(***************************************************************************)
(* What a failed request means (engine/src/provider/error.rs and           *)
(* engine/src/retry.rs): the variant of ProviderError a failure becomes, by *)
(* status, structured type, evidence in the text and the gateway's hint,    *)
(* and whether the runner may repeat the request.                           *)
(*                                                                         *)
(* A failure is a record: where it surfaced (at), its status, its structured *)
(* error type, the phrases of the keyword lists its text holds (says) and   *)
(* the x-should-retry hint.  Rules are tried in the code's order.           *)
(***************************************************************************)
EXTENDS Naturals

\* Where a failure surfaces: an HTTP error status, an error inside an accepted
\* stream, the connection, a stream that ended early, or evot's own Api text.
Http == "http"
Inline == "inline"
Transport == "transport"
CutShort == "cut_short"
Internal == "internal"

NoFailure ==
  [at |-> "none", status |-> 0, type |-> "none", says |-> {}, hint |-> "none"]

Variants ==
  {"Api", "Transient", "Overloaded", "Network", "ProtocolIncomplete", "Auth",
   "ModelNotFound", "InvalidRequest", "RateLimited", "QuotaLimited",
   "ContextOverflow", "Cancelled", "Other"}

-----------------------------------------------------------------------------
(* Structured types. *)
PermanentTypes == {"invalid_request_error", "not_found_error",
                   "model_not_found", "unsupported_model"}
AuthTypes == {"authentication_error", "permission_error"}
FatalTypes == {"invalid_request_error", "not_found_error", "billing_error",
               "insufficient_quota"}

\* Throttling may be worded like an overflow and is told apart first.
SaysOverflow(f) == "overflow" \in f.says /\ "throttled" \notin f.says

SaysModelNotFound(f) ==
  f.type = "model_not_found" \/ "model_not_found" \in f.says

\* Two types are words of the text lists too: the text is the whole envelope.
SaysFatalQuota(f) ==
  "fatal_quota" \in f.says \/ f.type \in {"billing_error", "insufficient_quota"}

-----------------------------------------------------------------------------
(* classify_with_display. The branch on a blank 400 body is left out: both    *)
(* callers put the status in front of the body, so it is never blank.         *)
ClassifyStatus(f) ==
  IF f.status \in {401, 403} THEN "Auth"
  ELSE IF SaysModelNotFound(f) THEN "ModelNotFound"
  ELSE IF f.status = 413 \/ SaysOverflow(f) THEN "ContextOverflow"
  ELSE IF SaysFatalQuota(f) THEN "Other"
  ELSE IF "quota" \in f.says THEN "QuotaLimited"
  ELSE IF f.status = 429 THEN "RateLimited"
  ELSE IF f.status = 529 \/ "overloaded" \in f.says THEN "Overloaded"
  ELSE IF f.status \in {408, 425} \cup 500..599 THEN "Transient"
  ELSE IF f.status \in 400..499 THEN "Other"
  ELSE "Api"

\* An explicit hint saves only what is not understood.
WithHint(variant, f) ==
  IF variant = "Other" /\ f.hint = "true" THEN "Transient" ELSE variant

\* from_http_payload
ClassifyHttp(f) ==
  IF f.status \notin {401, 403, 429} /\ f.type \in PermanentTypes
     /\ ~SaysOverflow(f)
  THEN IF SaysModelNotFound(f) THEN "ModelNotFound" ELSE "InvalidRequest"
  ELSE WithHint(ClassifyStatus(f), f)

\* classify_stream_error: the request was accepted, so only what is known to
\* be fatal is.
ClassifyInline(f) ==
  IF f.type \in AuthTypes THEN "Auth"
  ELSE IF SaysModelNotFound(f) THEN "ModelNotFound"
  ELSE IF SaysOverflow(f) THEN "ContextOverflow"
  ELSE IF f.type \in PermanentTypes THEN "InvalidRequest"
  ELSE IF SaysFatalQuota(f) THEN "Other"
  ELSE IF "quota" \in f.says THEN "QuotaLimited"
  ELSE IF f.type = "rate_limit_error" THEN "RateLimited"
  ELSE IF "overloaded" \in f.says THEN "Overloaded"
  ELSE IF f.type \in FatalTypes THEN "InvalidRequest"
  ELSE "Transient"

Classify(f) ==
  CASE f.at = Http -> ClassifyHttp(f)
    [] f.at = Inline -> ClassifyInline(f)
    [] f.at = Transport -> "Network"
    [] f.at = CutShort -> "ProtocolIncomplete"
    [] f.at = Internal -> "Api"

\* should_retry; is_retryable_api_message knows "try again" and its kin.
ShouldRetry(variant, f) ==
  \/ variant \in {"RateLimited", "Network", "ProtocolIncomplete",
                  "Overloaded", "Transient"}
  \/ /\ variant = "Api"
     /\ ~SaysOverflow(f)
     /\ "retry_phrase" \in f.says

==============================================================================
