--------------------------- MODULE MCEventRouter ---------------------------
(* Two markets with queues of two entries; messages of which the fast path *)
(* reads both fields, one or none, with conflicting fields, of an unknown   *)
(* market, or no JSON.                                                      *)
EXTENDS EventRouter

MCMarkets == {"KRW-BTC", "KRW-ETH"}

Msg(code, market, hard, valid) ==
    [code |-> code, market |-> market, hard |-> hard, valid |-> valid]

MCMessages ==
    {Msg("KRW-BTC", "", {}, TRUE),
     Msg("", "KRW-ETH", {"market"}, TRUE),
     Msg("KRW-BTC", "KRW-ETH", {}, TRUE),
     Msg("KRW-BTC", "KRW-ETH", {"code", "market"}, TRUE),
     Msg("KRW-BTC", "KRW-ETH", {"market"}, TRUE),
     Msg("KRW-ETH", "KRW-BTC", {"code"}, FALSE),
     Msg("", "KRW-XRP", {}, TRUE),
     Msg("", "", {}, FALSE)}
============================================================================
