--------------------------- MODULE AccountLedger ---------------------------
(***************************************************************************)
(* The AccountManager as the shared object of the bot: built with an empty *)
(* account (CoinBot.cpp), rebuilt twice from the exchange's account by the *)
(* MarketEngineManager constructor, then called by one worker per market.  *)
(* Each call holds the manager's mutex, so each call is one action; the    *)
(* arguments of the settlement calls are whatever the exchange reports.    *)
(***************************************************************************)
EXTENDS AccountManager, Functions

CONSTANTS
    Accounts,   \* accounts getMyAccount may report
    Amounts,    \* KRW arguments of reserve / finalizeFill*
    Volumes,    \* coin arguments
    Prices,     \* fill and mark prices
    MaxOps      \* bound: calls made once the bot runs

ASSUME LedgerAssumption ==
    /\ Accounts \subseteq Account
    /\ Amounts \subseteq Int
    /\ Volumes \subseteq Int
    /\ Prices \subseteq Int
    /\ MaxOps \in Nat

VARIABLES
    phase,      \* progress of the start-up sequence
    wallets,    \* budgets_ and the engines' tokens
    ops,        \* calls made so far (bounded by MaxOps)
    free,       \* history: the free KRW of the account last synchronised
    allotted,   \* history: the KRW each market starts trading with
    spent,      \* history: KRW of finished tokens that fills consumed
    received    \* history: KRW that sell fills brought in

vars == <<phase, wallets, ops, free, allotted, spent, received>>

----------------------------------------------------------------------------

Init ==
    /\ phase = "constructed"
    /\ wallets = Construct(EmptyAccount)
    /\ ops = 0
    /\ free = 0
    /\ allotted = [m \in Markets |-> 0]
    /\ spent = [m \in Markets |-> 0]
    /\ received = [m \in Markets |-> 0]

RebuildAccountOnStartup(acc) ==
    /\ wallets' = RebuildFromAccount(wallets, acc)
    /\ free' = acc.krw
    /\ allotted' = [m \in Markets |-> wallets'[m].available]
    /\ UNCHANGED <<ops, spent, received>>

\* First synchronisation: the constructor throws if it fails, so no bot runs
\* without it.
FirstSync(acc) ==
    /\ phase = "constructed"
    /\ phase' = "recovering"
    /\ RebuildAccountOnStartup(acc)

\* Second synchronisation, after the open orders were cancelled.
FinalSync(acc) ==
    /\ phase = "recovering"
    /\ phase' = "running"
    /\ RebuildAccountOnStartup(acc)

\* ... which may fail: the bot continues with the first one's budgets.
FinalSyncFails ==
    /\ phase = "recovering"
    /\ phase' = "running"
    /\ UNCHANGED <<wallets, ops, free, allotted, spent, received>>

----------------------------------------------------------------------------
(* Calls of the workers *)

Call(m, w) ==
    /\ phase = "running"
    /\ ops < MaxOps
    /\ ops' = ops + 1
    /\ wallets' = [wallets EXCEPT ![m] = w]
    /\ UNCHANGED <<phase, free, allotted>>

\* MarketEngine never holds two tokens (MarketEngine.cpp:67).
CallReserve(m, krw) ==
    /\ ~wallets[m].token.active
    /\ CanReserve(wallets[m], krw)
    /\ Call(m, Reserve(wallets[m], krw))
    /\ UNCHANGED <<spent, received>>

TokenEnds(m) == spent' = [spent EXCEPT ![m] = @ + wallets[m].token.consumed]

CallRelease(m) ==
    /\ wallets[m].token.active
    /\ Call(m, Release(wallets[m]))
    /\ TokenEnds(m)
    /\ UNCHANGED received

CallFinalizeFillBuy(m, krw, coin, price) ==
    /\ wallets[m].token.active
    /\ Call(m, FinalizeFillBuy(wallets[m], krw, coin, price))
    /\ UNCHANGED <<spent, received>>

CallFinalizeOrder(m) ==
    /\ wallets[m].token.active
    /\ Call(m, FinalizeOrder(wallets[m]))
    /\ TokenEnds(m)
    /\ UNCHANGED received

CallFinalizeFillSell(m, coin, krw) ==
    /\ ~wallets[m].token.active
    /\ Call(m, FinalizeFillSell(wallets[m], coin, krw))
    /\ received' = [received EXCEPT ![m] =
                        IF coin > 0 /\ krw >= 0 THEN @ + krw ELSE @]
    /\ UNCHANGED spent

CallFinalizeSellOrder(m, mark) ==
    /\ ~wallets[m].token.active
    /\ Call(m, FinalizeSellOrder(wallets[m], mark))
    /\ UNCHANGED <<spent, received>>

----------------------------------------------------------------------------

StartUp ==
    \/ \E acc \in Accounts : FirstSync(acc) \/ FinalSync(acc)
    \/ FinalSyncFails

Worker(m) ==
    \/ \E krw \in Amounts : CallReserve(m, krw)
    \/ CallRelease(m)
    \/ \E krw \in Amounts, coin \in Volumes, price \in Prices :
           CallFinalizeFillBuy(m, krw, coin, price)
    \/ CallFinalizeOrder(m)
    \/ \E coin \in Volumes, krw \in Amounts : CallFinalizeFillSell(m, coin, krw)
    \/ \E mark \in Prices : CallFinalizeSellOrder(m, mark)

Next == StartUp \/ \E m \in Markets : Worker(m)

Spec == Init /\ [][Next]_vars

----------------------------------------------------------------------------
(* Properties *)

TypeOK ==
    /\ phase \in {"constructed", "recovering", "running"}
    /\ wallets \in [Markets -> Wallet]
    /\ ops \in Nat
    /\ free \in Nat
    /\ allotted \in [Markets -> Int]
    /\ spent \in [Markets -> Int]
    /\ received \in [Markets -> Int]

\* The KRW a market has reserved is what the token its engine holds has not
\* consumed yet, and nothing is reserved without a token: no clamp in
\* finalizeFillBuy, addConsumed and releaseInternal ever separates the budget
\* from the token (AccountManager.cpp:206-305).
ReservedIsBacked ==
    \A m \in Markets :
        LET t == wallets[m].token
        IN  /\ wallets[m].reserved = Remaining(t)
            /\ t.active \/ t = NoToken
            /\ 0 <= t.consumed /\ t.consumed <= t.amount

\* No sequence of calls creates or loses KRW: what a market has available and
\* reserved is what it was allotted at start-up, minus what its tokens consumed,
\* plus what its sells brought in (AccountManager.h:126-148).  A fill that sells
\* more than the market holds counts in full, as the code books it
\* (AccountManager.cpp:327-334); the correction that AccountManager.h:263-265
\* describes, which would leave out the KRW of the oversold volume, is not there.
KrwConserved ==
    \A m \in Markets :
        wallets[m].available + wallets[m].reserved + wallets[m].token.consumed
            = allotted[m] - spent[m] + received[m]

\* A reservation is granted only out of the market's own available KRW: no
\* sequence of calls makes it negative (AccountManager.cpp:180).
NeverOverdrawn == \A m \in Markets : wallets[m].available >= 0

\* The KRW of all markets together.
TotalKrw(amounts) == FoldFunction(+, 0, amounts)

\* The equal split at start-up hands out no more KRW than the account has, and
\* none to a market that starts with coin_epsilon of coin or more, whose KRW is
\* already spent (AccountManager.cpp:476-488, 426-458).
SplitWithinAccount ==
    /\ TotalKrw(allotted) <= free
    /\ phase = "running" /\ ops = 0
           => \A m \in Markets : wallets[m].coin >= CoinEpsilon => allotted[m] = 0

\* For a market that starts with KRW, realized_pnl is the profit over that
\* starting capital whenever a sell order settles it (AccountManager.h:36-37: initial_capital is the
\* initial capital, realized_pnl the realized profit).
PnlIsProfit ==
    [][\A m \in Markets :
          wallets'[m].pnl # wallets[m].pnl /\ allotted[m] > 0
              => wallets'[m].pnl = wallets'[m].available - allotted[m]]_vars

============================================================================
