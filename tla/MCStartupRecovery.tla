------------------------- MODULE MCStartupRecovery -------------------------
(* Two markets, two orders of the bot and one of the user.  A coin unit costs *)
(* 3000 KRW: one unit is dust, two are a position.                            *)
EXTENDS StartupRecovery, TLC

CONSTANTS m1, m2

MCMarkets == {m1, m2}
MCMarketSeq == <<m1, m2>>
MCStartKrw == {9000}
MCStartCoin == {0, 2}
Symmetry == Permutations(BotOrders)
============================================================================
