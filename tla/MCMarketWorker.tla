--------------------------- MODULE MCMarketWorker ---------------------------
(* One market that starts with KRW for two coin units, or with two units.   *)
EXTENDS MarketWorker

CONSTANTS m1, MaxOrders

MCMarkets == {m1}

MCOrders == 1..MaxOrders

MCTrades == MCOrders \X (1..2)

MCStartAccount ==
    {[krw |-> 12012, pos |-> [m \in MCMarkets |-> [free |-> 0, avg |-> 0]]],
     [krw |-> 0, pos |-> [m \in MCMarkets |-> [free |-> 2, avg |-> 6000]]]}

\* With an entry at 6000, 5000 is a stop-loss and 7000 reaches the target.
MCCloses == {5000, 7000}

\* Starts with KRW for one coin unit, with one, which a close of 4000 makes
\* dust, or with two, which it does not.
MCDustAccount ==
    {[krw |-> 6006, pos |-> [m \in MCMarkets |-> [free |-> 0, avg |-> 0]]]}
    \cup [krw : {0}, pos : [MCMarkets -> [free : {1, 2}, avg : {6000}]]]

MCDustCloses == {4000, 6000}
============================================================================
