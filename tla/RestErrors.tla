------------------------------ MODULE RestErrors ------------------------------
(***************************************************************************)
(* What a failed REST call raises (transport/http.py) and what RetryPolicy *)
(* (resilience/retry.py) makes of it.  Time is counted in whole units.     *)
(***************************************************************************)
EXTENDS Naturals

CONSTANTS
    MaxAttempts,
    InitialDelay,
    MaxDelay,
    AnyCode     \* retryable_codes is None, the default

ASSUME PolicyAssumption ==
    /\ MaxAttempts \in Nat \ {0}
    /\ InitialDelay \in Nat
    /\ MaxDelay \in Nat \ {0}

Least(a, b) == IF a < b THEN a ELSE b

\* StandXError
Error(code, retryable) == [code |-> code, retryable |-> retryable]

StatusCode ==
    { <<400, "VALIDATION_ERROR">>, <<401, "AUTH_FAILED">>, <<403, "PERMISSION_DENIED">>,
      <<404, "NOT_FOUND">>, <<408, "REQUEST_TIMEOUT">>, <<429, "RATE_LIMITED">> }

\* _raise_for_status
HttpError(status) ==
    Error(IF \E p \in StatusCode : p[1] = status
          THEN (CHOOSE p \in StatusCode : p[1] = status)[2]
          ELSE IF status >= 500 THEN "SERVER_ERROR" ELSE "PROTOCOL_ERROR",
          status \in {408, 429} \/ status >= 500)

\* httpx.TimeoutException and httpx.NetworkError
TimedOut == Error("REQUEST_TIMEOUT", TRUE)
Disconnected == Error("PROTOCOL_ERROR", TRUE)

\* A success that does not decode: _decode_json and _protocol_decode.
Garbled == Error("PROTOCOL_ERROR", FALSE)

CanRetry(error, codes) ==
    /\ error.retryable
    /\ codes # AnyCode => error.code \in codes

\* Mutant: the attempts are counted from zero, and one more is made.
RetriesOnceMore(error, codes, attempt) ==
    CanRetry(error, codes) /\ attempt < MaxAttempts + 1

\* Whether the policy makes another attempt.
Retries(error, codes, attempt) ==
    CanRetry(error, codes) /\ attempt < MaxAttempts

\* Mutant: the server's Retry-After is obeyed whatever it is.
PauseUncapped(delay, retryAfter) ==
    IF retryAfter = {} THEN Least(delay, MaxDelay) ELSE CHOOSE a \in retryAfter : TRUE

\* The pause before it: Retry-After (a set, empty if there is none) goes
\* before the delay of the policy.  There is no jitter.
Pause(delay, retryAfter) ==
    IF retryAfter = {} THEN Least(delay, MaxDelay)
    ELSE Least(CHOOSE a \in retryAfter : TRUE, MaxDelay)

NextDelay(delay) == Least(2 * delay, MaxDelay)

=============================================================================
