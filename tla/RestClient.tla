----------------------------- MODULE RestClient -----------------------------
(***************************************************************************)
(* What RestClient (src/api/rest/RestClient.cpp) does with the outcome of  *)
(* one attempt, performOnce: whether perform repeats the request.  An      *)
(* attempt ends with a response or with an error; a time-out is reported   *)
(* by one code whether it happened before or after the request was         *)
(* written.  The length of the backoff is left out.                        *)
(***************************************************************************)
EXTENDS Naturals

CONSTANTS
    MaxAttempts,    \* RetryPolicy::max_attempts
    RetryOn         \* the retry_on_* flags that are set

\* RetryPolicy.h gives 2 and all flags; every call uses that.
ASSUME RestAssumption ==
    /\ MaxAttempts \in Nat
    /\ RetryOn \subseteq {"429", "5xx", "timeout", "connect_fail", "read_write_fail"}

Statuses == {"2xx", "4xx", "429", "5xx"}

\* Errors before anything is written, of the write, and of the read.
ConnectErrors == {"Timeout", "ResolveFailed", "ConnectFailed", "HandshakeFailed"}
WriteErrors == {"Timeout", "WriteFailed"}
ReadErrors == {"Timeout", "ReadFailed"}

ShouldRetryStatus(status) == status \in {"429", "5xx"} \cap RetryOn

ShouldRetryError(e) ==
    \/ e = "Timeout" /\ "timeout" \in RetryOn
    \/ e \in ConnectErrors \ {"Timeout"} /\ "connect_fail" \in RetryOn
    \/ e \in {"WriteFailed", "ReadFailed"} /\ "read_write_fail" \in RetryOn

\* The test at the end of perform's loop.
AttemptsLeft(attempt) == attempt < MaxAttempts

=============================================================================
