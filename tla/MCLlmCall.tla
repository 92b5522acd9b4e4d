------------------------------ MODULE MCLlmCall ------------------------------
(***************************************************************************)
(* LlmCall with failures of every kind error.rs tells apart: where one rule *)
(* shadows another, a failure that meets both.                              *)
(***************************************************************************)
EXTENDS LlmCall

Failure(at, status, type, says) ==
  [at |-> at, status |-> status, type |-> type, says |-> says, hint |-> "none"]

SomeFailures ==
  { Failure(Http, 401, "authentication_error", {}),
    Failure(Http, 429, "rate_limit_error", {"overflow", "throttled"}),
    Failure(Http, 429, "none", {"quota"}),
    Failure(Http, 503, "none", {"overloaded"}),
    Failure(Http, 503, "none", {"quota"}),
    Failure(Http, 400, "invalid_request_error", {"overflow"}),
    [Failure(Http, 418, "none", {}) EXCEPT !.hint = "true"],
    Failure(Http, 413, "invalid_request_error", {}),
    Failure(Http, 404, "not_found_error", {"model_not_found"}),
    Failure(Inline, 200, "invalid_request_error", {"overflow"}),
    Failure(Inline, 200, "insufficient_quota", {"quota"}),
    Failure(Inline, 200, "rate_limit_error", {}),
    Failure(Inline, 200, "api_error", {}),
    Failure(Transport, 0, "none", {}),
    Failure(CutShort, 200, "none", {}),
    Failure(Internal, 200, "none", {"retry_phrase"}),
    Failure(Internal, 200, "none", {"retry_phrase", "overflow"}) }
==============================================================================
