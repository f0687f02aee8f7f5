-------------------------- MODULE StartupRecovery --------------------------
(***************************************************************************)
(* Start-up after a crash: the constructor of the MarketEngineManager      *)
(* (src/app/MarketEngineManager.cpp) synchronises the account, runs the    *)
(* StartupRecovery (src/app/StartupRecovery.{h,cpp}) of every market, and  *)
(* synchronises once more.  Each REST call is one step; the exchange fills *)
(* and cancels orders between any two of them, and the process may die     *)
(* after any step and start again.                                         *)
(*                                                                         *)
(* Orders are filled one coin unit at a time at Price, and lock what they  *)
(* may still use: only free balances are reported as free.  Once the bot   *)
(* has placed an order (step "trading") its books are those of the module  *)
(* MarketWorker and are not followed here.                                 *)
(***************************************************************************)
EXTENDS AccountManager, Sequences, FiniteSetsExt

CONSTANTS
    MarketSeq,      \* the markets, in the order of the configuration
    BotOrders,      \* orders the bot may place: their identifier has its prefix
    ForeignOrders,  \* orders of the user, in the same account
    Price,
    StartKrw,       \* free KRW and coin of the account before the first start
    StartCoin

ASSUME RecoveryAssumption ==
    /\ MarketSeq \in Seq(Markets)
    /\ Markets = {MarketSeq[i] : i \in DOMAIN MarketSeq}
    /\ Len(MarketSeq) = Cardinality(Markets)   \* duplicates are skipped (cpp:98)
    /\ BotOrders \cap ForeignOrders = {}
    /\ Price \in Nat \ {0}
    /\ StartKrw \subseteq Nat /\ StartCoin \subseteq Nat

VARIABLES
    step,      \* the constructor's next step
    next,      \* index of the market that is being recovered
    found,     \* open orders of the bot that are still to be cancelled
    budgets,   \* the AccountManager
    strategy,  \* the strategies' state and entry price
    clean,     \* history: no REST call of this start has failed
    moved,     \* history: markets that traded since their position was read
    orders, krw, coin   \* external: the exchange's orders and free balances

process == <<step, next, found, budgets, strategy, clean>>
exchange == <<orders, krw, coin>>
recoveryVars == <<process, moved, exchange>>

----------------------------------------------------------------------------
(* The exchange (external) *)

AllOrders == BotOrders \cup ForeignOrders

\* "cancelling": the cancel was accepted and has not taken effect yet.
ExOrder == [state : {"unused", "open", "cancelling", "ended"}, market : Markets,
            side : {"BID", "ASK"}, left : Nat]

Unused == [state |-> "unused", market |-> MarketSeq[1], side |-> "BID", left |-> 0]

Live(o) == orders[o].state \in {"open", "cancelling"}

\* One unit is traded; its KRW or coin was locked.
Fill(o) ==
    LET x == orders[o]
    IN  /\ Live(o)
        /\ orders' = [orders EXCEPT ![o].left = @ - 1,
                                    ![o].state = IF x.left = 1 THEN "ended" ELSE @]
        /\ krw' = IF x.side = "ASK" THEN krw + Price ELSE krw
        /\ coin' = IF x.side = "BID" THEN [coin EXCEPT ![x.market] = @ + 1] ELSE coin
        /\ moved' = moved \cup {x.market}
        /\ UNCHANGED process

\* A cancel takes effect (the user cancels orders of his own): what is left of
\* the order is free again.
Cancelled(o) ==
    LET x == orders[o]
    IN  /\ x.state = "cancelling" \/ (x.state = "open" /\ o \in ForeignOrders)
        /\ orders' = [orders EXCEPT ![o].state = "ended"]
        /\ krw' = IF x.side = "BID" THEN krw + x.left * Price ELSE krw
        /\ coin' = IF x.side = "ASK" THEN [coin EXCEPT ![x.market] = @ + x.left] ELSE coin
        /\ moved' = moved \cup {x.market}
        /\ UNCHANGED process

\* mutant: locked balances are taken for free ones
BadReport ==
    LET locked(m, side) ==
            MapThenSumSet(LAMBDA o : orders[o].left,
                          {o \in AllOrders : Live(o) /\ orders[o].market = m
                                                  /\ orders[o].side = side})
    IN  [krw |-> krw + Price * MapThenSumSet(LAMBDA m : locked(m, "BID"), Markets),
         pos |-> [m \in Markets |-> [free |-> coin[m] + locked(m, "ASK"), avg |-> Price]]]

\* getMyAccount
Report ==
    [krw |-> krw,
     pos |-> [m \in Markets |-> [free |-> coin[m], avg |-> IF coin[m] = 0 THEN 0 ELSE Price]]]

----------------------------------------------------------------------------
(* The constructor *)

\* mutant: small positions are not taken over, by a threshold of its own
BadSyncOnStart(pos) ==
    IF pos.free * pos.avg > 2 * InitDust
    THEN [state |-> "InPosition", entry |-> pos.avg]
    ELSE [state |-> "Flat", entry |-> 0]

\* syncOnStart: without a trusted average price a position is not taken over.
SyncOnStart(pos) ==
    IF pos.free > 0 /\ pos.avg > 0
    THEN [state |-> "InPosition", entry |-> pos.avg]
    ELSE [state |-> "Flat", entry |-> 0]

\* A new process: AccountManager of an empty account, strategies Flat.
NewProcess ==
    /\ step' = "sync1" /\ next' = 1 /\ found' = {}
    /\ budgets' = Construct(EmptyAccount)
    /\ strategy' = [m \in Markets |-> [state |-> "Flat", entry |-> 0]]
    /\ clean' = TRUE

RecoveryInit ==
    /\ step = "sync1" /\ next = 1 /\ found = {}
    /\ budgets = Construct(EmptyAccount)
    /\ strategy = [m \in Markets |-> [state |-> "Flat", entry |-> 0]]
    /\ clean = TRUE /\ moved = {}
    /\ krw \in StartKrw
    /\ coin \in [Markets -> StartCoin]
    /\ orders \in [AllOrders -> {Unused} \cup [state : {"open"}, market : Markets,
                                            side : {"BID", "ASK"}, left : {1}]]
    /\ \A o \in BotOrders : orders[o] = Unused

\* rebuildAccountOnStartup_: sync_retry attempts, the last of which fails or not.
FirstRebuild ==
    /\ step = "sync1"
    /\ step' = "list"
    /\ budgets' = RebuildFromAccount(budgets, Report)
    /\ UNCHANGED <<next, found, strategy, clean, moved, exchange>>

FirstRebuildFails ==
    /\ step = "sync1"
    /\ step' = "failed"
    /\ UNCHANGED <<next, found, budgets, strategy, clean, moved, exchange>>

\* mutant: only the first order is cancelled
BadOpenBotOrdersOne(m) ==
    LET S == {o \in BotOrders : Live(o) /\ orders[o].market = m}
    IN  IF S = {} THEN {} ELSE {CHOOSE o \in S : TRUE}

\* cancelBotOpenOrders: the open orders of the market whose identifier has the
\* bot's prefix.
OpenBotOrders(m) == {o \in BotOrders : Live(o) /\ orders[o].market = m}

List ==
    /\ step = "list"
    /\ step' = "cancel"
    /\ found' = OpenBotOrders(MarketSeq[next])
    /\ UNCHANGED <<next, budgets, strategy, clean, moved, exchange>>

ListFails ==
    /\ step = "list"
    /\ step' = "position"
    /\ clean' = FALSE
    /\ UNCHANGED <<next, found, budgets, strategy, moved, exchange>>

\* cancelOrder is tried cancel_retry = 1 times.  An order that has ended by now
\* is refused, which leaves nothing to cancel.
Cancel(o) ==
    /\ step = "cancel" /\ o \in found
    /\ found' = found \ {o}
    /\ orders' = [orders EXCEPT ![o].state = IF @ = "open" THEN "cancelling" ELSE @]
    /\ UNCHANGED <<step, next, budgets, strategy, clean, moved, krw, coin>>

\* No answer: the exchange may have taken the cancel or not.
CancelFails(o) ==
    /\ step = "cancel" /\ o \in found
    /\ found' = found \ {o}
    /\ clean' = FALSE
    /\ \/ orders' = [orders EXCEPT ![o].state = IF @ = "open" THEN "cancelling" ELSE @]
       \/ UNCHANGED orders
    /\ UNCHANGED <<step, next, budgets, strategy, moved, krw, coin>>

\* The verification that follows only writes a log line.
CancelsDone ==
    /\ step = "cancel" /\ found = {}
    /\ step' = "position"
    /\ UNCHANGED <<next, found, budgets, strategy, clean, moved, exchange>>

\* buildPositionSnapshot and syncOnStart; then the next market.  A call that
\* fails gives the empty position.
TakePosition(pos) ==
    /\ step = "position"
    /\ strategy' = [strategy EXCEPT ![MarketSeq[next]] = SyncOnStart(pos)]
    /\ moved' = moved \ {MarketSeq[next]}
    /\ IF next = Len(MarketSeq)
       THEN step' = "sync2" /\ next' = next
       ELSE step' = "list" /\ next' = next + 1
    /\ UNCHANGED <<found, budgets, exchange>>

Position == TakePosition(Report.pos[MarketSeq[next]]) /\ UNCHANGED clean

PositionFails == TakePosition([free |-> 0, avg |-> 0]) /\ clean' = FALSE

LastRebuild ==
    /\ step = "sync2"
    /\ step' = "running"
    /\ budgets' = RebuildFromAccount(budgets, Report)
    /\ UNCHANGED <<next, found, strategy, clean, moved, exchange>>

\* The bot goes on with the budgets of the first synchronisation.
LastRebuildFails ==
    /\ step = "sync2"
    /\ step' = "running"
    /\ clean' = FALSE
    /\ UNCHANGED <<next, found, budgets, strategy, moved, exchange>>

\* The bot trades: its first order, for all of the market's KRW or coin.
Place(o, m) ==
    LET buy  == strategy[m].state = "Flat"
        left == IF buy THEN budgets[m].available \div Price ELSE budgets[m].coin
    IN  /\ step = "running"
        /\ orders[o] = Unused /\ left > 0
        /\ IF buy THEN left * Price <= krw ELSE left <= coin[m]   \* else refused
        /\ step' = "trading"
        /\ orders' = [orders EXCEPT ![o] = [state |-> "open", market |-> m, left |-> left,
                                            side |-> IF buy THEN "BID" ELSE "ASK"]]
        /\ krw' = IF buy THEN krw - left * Price ELSE krw
        /\ coin' = IF buy THEN coin ELSE [coin EXCEPT ![m] = @ - left]
        /\ UNCHANGED <<next, found, budgets, strategy, clean, moved>>

\* The process dies, and systemd starts it again.
Crash == NewProcess /\ moved' = {} /\ UNCHANGED exchange

RecoveryNext ==
    \/ \E o \in AllOrders : Fill(o) \/ Cancelled(o) \/ Cancel(o) \/ CancelFails(o)
    \/ \E o \in BotOrders, m \in Markets : Place(o, m)
    \/ FirstRebuild \/ FirstRebuildFails
    \/ List \/ ListFails \/ CancelsDone
    \/ Position \/ PositionFails
    \/ LastRebuild \/ LastRebuildFails
    \/ Crash

RecoverySpec == RecoveryInit /\ [][RecoveryNext]_recoveryVars

----------------------------------------------------------------------------
(* Properties *)

RecoveryTypeOK ==
    /\ step \in {"sync1", "list", "cancel", "position", "sync2", "running",
                  "trading", "failed"}
    /\ next \in DOMAIN MarketSeq
    /\ found \in SUBSET AllOrders
    /\ budgets \in [Markets -> Wallet]
    /\ strategy \in [Markets -> [state : {"Flat", "InPosition"}, entry : Nat]]
    /\ clean \in BOOLEAN /\ moved \in SUBSET Markets
    /\ orders \in [AllOrders -> ExOrder]
    /\ krw \in Nat /\ coin \in [Markets -> Nat]

\* The KRW the budgets promise to the markets.
Promised(ws) == MapThenSumSet(LAMBDA m : ws[m].available, Markets)

\* From the first synchronisation until the first order, the budgets never
\* promise KRW or coin that the exchange does not have free, although it fills
\* and cancels orders all the time, calls fail, and the second synchronisation
\* may be missing (MarketEngineManager.cpp:91-134, 209-243).
BudgetsFunded ==
    step # "trading" =>
        /\ Promised(budgets) <= krw
        /\ \A m \in Markets : budgets[m].coin <= coin[m]

\* A start whose calls all succeeded leaves no order of an earlier process
\* open, however many there are and whatever they did meanwhile
\* (StartupRecovery.cpp:43-80).
LeftoversCancelled ==
    step = "running" /\ clean => \A o \in BotOrders : orders[o].state # "open"

\* A market that did not trade since its position was read starts with the
\* strategy and the budget in agreement: coin in the budget is a position at
\* the price the budget has (MarketEngineManager.cpp:247-268).
PositionTaken ==
    step = "running" /\ clean =>
        \A m \in Markets \ moved :
            budgets[m].coin > 0 =>
                strategy[m] = [state |-> "InPosition", entry |-> budgets[m].avg]

============================================================================
