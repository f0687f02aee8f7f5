----------------------------- MODULE MCCoinBot -----------------------------
(* Two workers and the main thread, two orders, one of which an earlier     *)
(* process may have left open; the retry policy of the code.                *)
EXTENDS CoinBot

MCRetryOn == {"429", "5xx", "timeout", "connect_fail", "read_write_fail"}
=============================================================================
