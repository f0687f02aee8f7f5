-------------------------- MODULE MCMarketEngines --------------------------
(* One or two markets, config values of Config.h, reports of orders that    *)
(* buy or sell one or two coin units at 5000 won or so.                     *)
EXTENDS MarketEngines, TLC

CONSTANTS m1, m2, o1, o2, t1, t2, t3

MCMarkets == {m1, m2}

MCOrders == {o1, o2}

MCTrades == {t1, t2, t3}

\* m1 starts flat with KRW, m2 starts with two coin units.
MCAccounts ==
    {[krw |-> 10100,
      pos |-> (m1 :> [free |-> 0, avg |-> 0] @@ m2 :> [free |-> 2, avg |-> 5000])]}

\* A market buy, a market sell, a limit buy the wallet cannot pay, a malformed one.
MCRequests ==
    {[side |-> "BID", type |-> "Market", sized |-> "amount", size |-> 10000, price |-> 0],
     [side |-> "ASK", type |-> "Market", sized |-> "volume", size |-> 2, price |-> 0],
     [side |-> "BID", type |-> "Limit", sized |-> "volume", size |-> 1, price |-> 5000],
     [side |-> "BID", type |-> "Limit", sized |-> "amount", size |-> 1, price |-> 5000]}

MCTradeMsgs ==
    {[id |-> t, order |-> o, vol |-> 1, price |-> 6000, funds |-> 6000, fee |-> 3] :
        t \in MCTrades, o \in MCOrders}

MCSnapshots ==
    {[order |-> o, status |-> s, vol |-> v, funds |-> 6000 * v, fee |-> 3 * v] :
        o \in MCOrders, s \in {"Open", "Filled", "Canceled"}, v \in {0, 2}}
    \cup {[order |-> o, status |-> "Filled", vol |-> 1, funds |-> 0, fee |-> 0] :
        o \in MCOrders}

MCMarks == {4000}
============================================================================
