-------------------------- MODULE MCAccountLedger --------------------------
(* Small instance of AccountLedger: two markets, config values of Config.h. *)
EXTENDS AccountLedger, TLC

CONSTANTS m1, m2

MCMarkets == {m1, m2}

\* No coin; coin above the dust threshold in one market; dust in one market;
\* coin in both; an account without KRW.
MCAccounts ==
    {[krw |-> k, pos |-> (m1 :> [free |-> f1, avg |-> 3000] @@ m2 :> [free |-> f2, avg |-> 3000])] :
        k \in {0, 20021}, f1 \in {0, 1, 2}, f2 \in {0, 2}}

MCAmounts == {-1, 0, 4000, 10010}

MCVolumes == {0, 1, 2}

MCPrices == {0, 4000, 6000}
============================================================================
