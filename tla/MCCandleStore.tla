--------------------------- MODULE MCCandleStore ---------------------------
(* Two units, candles before the start in the database, three crashes.       *)
EXTENDS CandleStore
=============================================================================
