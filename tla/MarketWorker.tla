---------------------------- MODULE MarketWorker ----------------------------
(***************************************************************************)
(* One market at run time: the worker thread of the MarketEngineManager    *)
(* (src/app/MarketEngineManager.cpp) with its engine, its strategy and its *)
(* event queue, the private WebSocket that feeds the queue, and the        *)
(* exchange.                                                               *)
(*                                                                         *)
(* The worker repeats recover, pop, (intrabar,) poll, check.  The steps of *)
(* the exchange and of the WebSocket thread interleave between them;       *)
(* within one step the worker touches the shared flags, the queue and the  *)
(* exchange at most once, or in ways no other thread can tell apart.       *)
(*                                                                         *)
(* Candles are not kept in the queue: a candle handled while order         *)
(* messages wait is one that was queued before them.  The exchange fills   *)
(* orders one coin unit at a time, at FillPrice with fee FillFee.          *)
(***************************************************************************)
EXTENDS RsiMeanReversionStrategy

CONSTANTS
    Market,       \* the market (the only member of Markets)
    StartAccount, \* accounts at the last start-up synchronisation
    Closes,       \* candle close prices
    FillPrice,
    FillFee,
    Faults,       \* the kinds of faults that may happen
    MaxFaults     \* bound: number of faults

FaultKinds ==
    {"timeout",       \* a pending order outlives pending_timeout
     "disconnect",    \* the private WebSocket drops
     "overflow",      \* the queue drops its oldest message
     "lostReply",     \* postOrder reports an error for an order it placed
     "restError",     \* getOrder fails three times
     "unknownFunds"}  \* a report comes without its executed funds

ASSUME WorkerAssumption ==
    /\ Markets = {Market}
    /\ StartAccount \subseteq Account
    /\ Closes \subseteq Nat \ {0} /\ Closes # {}
    /\ FillPrice \in Nat \ {0} /\ FillFee \in 0..FillPrice
    \* The reserve margin covers the fee (Config.h:27-32: 0.1% and 0.05%).
    /\ (FillPrice + FillFee) * MarginDen <= FillPrice * MarginNum
    /\ Faults \subseteq FaultKinds
    /\ MaxFaults \in Nat
    \* Order n's first trade is <<n, 1>>; orders are placed in increasing order.
    /\ Orders \subseteq Nat
    \* Trades bounds the number of trades of an order.
    /\ \A t \in Trades : t \in Orders \X Nat

VARIABLES
    engine,     \* the MarketEngine, with the market's wallet
    strategy,
    queue,      \* order messages in the event queue, oldest first
    pc,         \* what the worker does next
    candle,     \* close of the unconfirmed candle, 0 if none (pending_candle)
    failed,     \* intrabar_fail_ts is the timestamp of that candle
    recovery,   \* recovery_requested
    hasPending, \* has_active_pending, read by the WebSocket thread
    tracking,   \* tracking_pending: the timeout clock runs
    connected,  \* the private WebSocket is up
    ex,         \* external: the exchange's orders
    net,        \* external: KRW and coin of the market on the exchange
    db,         \* orders recorded in the database
    faults,     \* faults so far (bounded by MaxFaults)
    placed,     \* history: orders whose submit succeeded
    taint       \* history: what happened that the books do not survive, and
                \* whether the strategy has yet to learn its position

worker == <<engine, strategy, pc, candle, failed, tracking, db, placed>>

vars == <<engine, strategy, queue, pc, candle, failed, recovery, hasPending,
          tracking, connected, ex, net, db, faults, placed, taint>>

----------------------------------------------------------------------------
(* The exchange (external) *)

ExOrder == [state : {"none", "wait", "done", "cancel"}, side : Sides, size : Nat, vol : Nat]

ExStates == {"wait", "trade", "done", "cancel"}

\* A message of the myOrder stream; known = FALSE if it lacks the funds.
Message == [order : Orders, state : ExStates, vol : Nat, known : BOOLEAN]

Report(o, state, vol, known) ==
    [order |-> o, state |-> state, vol |-> vol, known |-> known]

\* A message reaches the queue if the WebSocket is connected.
Send(msg) == queue' = IF connected THEN Append(queue, msg) ELSE queue

Fault(kind) ==
    /\ kind \in Faults
    /\ faults < MaxFaults
    /\ faults' = faults + 1

\* One coin unit of order o is traded.
Fill(o) ==
    LET side == ex[o].side
    IN  /\ ex[o].state = "wait" /\ ex[o].vol < ex[o].size
        /\ <<o, ex[o].vol + 1>> \in Trades
        /\ ex' = [ex EXCEPT ![o].vol = @ + 1]
        /\ net' = IF side = "BID"
                  THEN [krw |-> net.krw - FillPrice - FillFee, coin |-> net.coin + 1]
                  ELSE [krw |-> net.krw + FillPrice - FillFee, coin |-> net.coin - 1]
        /\ Send(Report(o, "trade", ex[o].vol + 1, TRUE))
        /\ UNCHANGED <<worker, recovery, hasPending, connected, faults, taint>>

\* Order o ends, filled or cancelled.
End(o, known) ==
    LET state == IF ex[o].vol = ex[o].size THEN "done" ELSE "cancel"
    IN  /\ ex[o].state = "wait"
        /\ ex' = [ex EXCEPT ![o].state = state]
        /\ Send(Report(o, state, ex[o].vol, known))
        /\ IF known THEN UNCHANGED faults ELSE Fault("unknownFunds")
        /\ UNCHANGED <<worker, recovery, hasPending, connected, net, taint>>

Exchange == \E o \in Orders : Fill(o) \/ \E known \in BOOLEAN : End(o, known)

----------------------------------------------------------------------------
(* The WebSocket thread and the queue *)

Disconnect ==
    /\ connected
    /\ Fault("disconnect")
    /\ connected' = FALSE
    /\ UNCHANGED <<worker, queue, recovery, hasPending, ex, net, taint>>

\* requestReconnectRecovery: only a market known to have a pending order.
Reconnect ==
    /\ ~connected
    /\ connected' = TRUE
    /\ recovery' = (recovery \/ hasPending)
    /\ UNCHANGED <<worker, queue, hasPending, ex, net, faults, taint>>

\* push on a full queue drops the oldest entry.
DropOldest ==
    /\ queue # <<>>
    /\ Fault("overflow")
    /\ queue' = Tail(queue)
    /\ UNCHANGED <<worker, recovery, hasPending, connected, ex, net, taint>>

----------------------------------------------------------------------------
(* MyOrderMapper: a message is a trade, if its state says so, and a snapshot *)

ToOrderStatus(state) ==
    CASE state \in {"wait", "trade"} -> "Open"
      [] state = "done" -> "Filled"
      [] state = "cancel" -> "Canceled"

ToTrade(msg) ==
    [id |-> <<msg.order, msg.vol>>, order |-> msg.order, vol |-> 1,
     price |-> FillPrice, funds |-> FillPrice, fee |-> FillFee]

ToSnapshot(msg) ==
    [order |-> msg.order, status |-> ToOrderStatus(msg.state), vol |-> msg.vol,
     funds |-> IF msg.known THEN FillPrice * msg.vol ELSE 0,
     fee   |-> FillFee * msg.vol]

----------------------------------------------------------------------------
(* runRecovery_ *)

\* getOrder for the active order: its present state, or no answer.
Answers == {"order", "incomplete", "none"}

AnswerHappens(a) ==
    CASE a = "order" -> UNCHANGED faults
      [] a = "incomplete" -> Fault("unknownFunds")
      [] a = "none" -> Fault("restError")

Queued(o) == \E i \in DOMAIN queue : queue[i].order = o

\* What applying the report s of an order that is still open spoils: messages
\* of fills it settles are still to come, or it forgets funds already settled.
RecoveryTaint(s) ==
    LET open == s.status \notin Terminal
    IN  {c \in {"overlap", "wiped"} :
            \/ c = "overlap" /\ open /\ Queued(s.order) /\ DeltaVol(engine, s) > 0
            \/ c = "wiped" /\ open /\ s.funds < engine.store[s.order].funds}

\* ON CONFLICT(order_uuid) DO NOTHING; the insert is taken to succeed.
InsertOrder(orders, o) == orders \cup {o}

\* mutant: an order that recovery closes is not recorded
BadRunRecovery(a) ==
    LET o == CHOOSE x \in ActivePendingIds(engine) : TRUE
        s == ToSnapshot(Report(o, ex[o].state, ex[o].vol, a = "order"))
    IN  /\ tracking' = FALSE
        /\ UNCHANGED <<db, taint>>
        /\ engine' = IF ActivePendingIds(engine) = {} \/ a = "none" THEN engine
                     ELSE ReconcileFromSnapshot(engine, s)

\* At most one order is active (MarketEngine never has a buy and a sell).
RunRecovery(a) ==
    LET o == CHOOSE x \in ActivePendingIds(engine) : TRUE
        s == ToSnapshot(Report(o, ex[o].state, ex[o].vol, a = "order"))
        ok == CanReconcile(engine, s)
    IN  /\ tracking' = FALSE
        /\ IF ActivePendingIds(engine) = {} \/ a = "none"
           THEN UNCHANGED <<engine, db, taint>>
           ELSE /\ engine' = ReconcileFromSnapshot(engine, s)
                /\ db' = IF ok /\ s.status \in Terminal THEN InsertOrder(db, o) ELSE db
                /\ taint' = IF ok THEN taint \cup RecoveryTaint(s) ELSE taint

\* Top of the loop: recovery_requested.exchange(false).
Recover(a) ==
    /\ pc = "recover"
    /\ pc' = "pop"
    /\ recovery' = FALSE
    /\ IF recovery
       THEN AnswerHappens(a) /\ RunRecovery(a)
       ELSE a = "order" /\ UNCHANGED <<engine, db, tracking, taint, faults>>
    /\ UNCHANGED <<strategy, queue, candle, failed, hasPending, connected, ex,
                   net, placed>>

----------------------------------------------------------------------------
(* handleMyOrder_ *)

\* A trade whose cumulative volume is not the next one: messages were lost.
Gap(msg) ==
    /\ msg.state = "trade" /\ InStore(engine, msg.order)
    /\ msg.vol # engine.store[msg.order].vol + 1

\* mutant: a terminal message is applied without settling the difference
BadHandleMyOrder(msg) ==
    /\ engine' = OnOrderSnapshot(IF msg.state = "trade"
                                 THEN OnMyTrade(engine, ToTrade(msg)) ELSE engine,
                                 ToSnapshot(msg))
    /\ db' = IF ToSnapshot(msg).status \in Terminal THEN InsertOrder(db, msg.order) ELSE db
    /\ UNCHANGED recovery

\* A terminal message (it carries no trade) goes through reconcile; if that
\* returns false, a recovery is requested and nothing is recorded.
HandleMyOrder(msg) ==
    LET s == ToSnapshot(msg)
        ok == CanReconcile(engine, s)
    IN  IF s.status \in Terminal
        THEN /\ engine' = ReconcileFromSnapshot(engine, s)
             /\ db' = IF ok THEN InsertOrder(db, msg.order) ELSE db
             /\ recovery' = (recovery \/ ~ok)
        ELSE /\ engine' = OnOrderSnapshot(IF msg.state = "trade"
                                          THEN OnMyTrade(engine, ToTrade(msg))
                                          ELSE engine, s)
             /\ UNCHANGED <<db, recovery>>

PopMessage ==
    /\ pc = "pop"
    /\ queue # <<>>
    /\ pc' = "poll"
    /\ queue' = Tail(queue)
    /\ HandleMyOrder(Head(queue))
    /\ taint' = IF Gap(Head(queue)) THEN taint \cup {"gap"} ELSE taint
    /\ UNCHANGED <<strategy, candle, failed, hasPending, tracking, connected,
                   ex, net, faults, placed>>

PopNothing ==
    /\ pc = "pop"
    /\ queue = <<>>
    /\ pc' = "poll"
    /\ UNCHANGED <<engine, strategy, queue, candle, failed, recovery, hasPending,
                   tracking, connected, ex, net, db, faults, placed, taint>>

----------------------------------------------------------------------------
(* handleMarketData_ *)

Coin == engine.wallet.coin

Krw == engine.wallet.available

Fresh(o) == ex[o].state = "none" /\ \A x \in Orders : x < o => ex[x].state # "none"

\* What the exchange can accept: it checks the balance.
Acceptable(r) ==
    IF r.side = "BID" THEN r.size <= net.krw ELSE r.size <= net.coin

\* Once all of Orders is used, every submit is refused (the bound on orders).
Accept(r, o) ==
    LET units == IF r.side = "BID" THEN r.size \div FillPrice ELSE r.size
    IN  /\ Fresh(o)
        /\ ex' = [ex EXCEPT ![o] = [state |-> "wait", side |-> r.side,
                                    size |-> units, vol |-> 0]]
        /\ Send(Report(o, "wait", 0, TRUE))

\* The strategy, now s, decided on request r as order o; e is the engine.  An
\* accepted order makes the strategy wait; an error rolls it back, whether
\* submit refused the request, the exchange did, or only the answer was lost.
SubmitAccepts(e, s, r, o) ==
    /\ CanSubmit(e, r) /\ Acceptable(r)
    /\ Accept(r, o)
    /\ engine' = SubmitAccepted(e, r, o)
    /\ strategy' = s
    /\ placed' = placed \cup {o}
    /\ taint' = taint \ {"unsynced"}
    /\ UNCHANGED faults

SubmitErrs(e, s, r) ==
    /\ engine' = IF CanSubmit(e, r) THEN SubmitFailed(e, r) ELSE e
    /\ strategy' = OnSubmitFailed(s)
    /\ taint' = taint \ {"unsynced"}
    /\ UNCHANGED <<queue, ex, placed, faults>>

ReplyLost(e, s, r, o) ==
    /\ CanSubmit(e, r) /\ Acceptable(r)
    /\ Fault("lostReply")
    /\ Accept(r, o)
    /\ engine' = SubmitFailed(e, r)
    /\ strategy' = OnSubmitFailed(s)
    /\ taint' = (taint \ {"unsynced"}) \cup {"orphan"}
    /\ UNCHANGED placed

NoSubmit(e, s) ==
    /\ engine' = e
    /\ strategy' = s
    /\ UNCHANGED <<queue, ex, placed, faults>>

\* Paths A and B: the first candle, or an update of the same candle.
UpdateCandle(close) ==
    /\ pc = "pop"
    /\ pc' = "intrabar"
    /\ candle' = close
    /\ UNCHANGED <<engine, strategy, queue, failed, recovery, hasPending, tracking,
                   connected, ex, net, db, faults, placed, taint>>

\* Path C: a candle with a new timestamp confirms the last one, and onCandle
\* decides on that.  The new timestamp clears intrabar_fail_ts.
ConfirmCandle(close, sig) ==
    LET e == SetMarkPrice(engine, candle)
        s == SelfHeal(strategy, Coin, candle)
        enter == MaybeEnter(s, Krw, sig)
        r == IF enter THEN MarketBuy(Krw) ELSE MarketSell(Coin)
        decided(o) == IF enter THEN Enter(s, o) ELSE Exit(s, o)
    IN  /\ pc = "pop"
        /\ candle # 0
        /\ pc' = "intrabar"
        /\ candle' = close
        /\ failed' = FALSE
        /\ IF enter \/ MaybeExit(s, Coin, candle, sig)
           THEN \E o \in Orders :
                    \/ SubmitAccepts(e, decided(o), r, o)
                    \/ SubmitErrs(e, decided(o), r)
                    \/ ReplyLost(e, decided(o), r, o)
           ELSE NoSubmit(e, s) /\ taint' = taint \ {"unsynced"}
        /\ UNCHANGED <<recovery, hasPending, tracking, connected, net, db>>

PopCandle ==
    \E close \in Closes :
        UpdateCandle(close) \/ \E sig \in Signals : ConfirmCandle(close, sig)

\* doIntrabarCheck, the end of every path: not again after a failure on the
\* same candle.
Intrabar ==
    LET e == SetMarkPrice(engine, candle)
        r == MarketSell(Coin)
    IN  /\ pc = "intrabar"
        /\ pc' = "poll"
        /\ IF ~failed /\ IntrabarExit(strategy, Coin, candle)
           THEN \E o \in Orders :
                    \/ SubmitAccepts(e, Exit(strategy, o), r, o) /\ UNCHANGED failed
                    \/ SubmitErrs(e, Exit(strategy, o), r) /\ failed' = TRUE
                    \/ ReplyLost(e, Exit(strategy, o), r, o) /\ failed' = TRUE
           ELSE NoSubmit(e, strategy) /\ UNCHANGED <<failed, taint>>
        /\ UNCHANGED <<candle, recovery, hasPending, tracking, connected, net, db>>

----------------------------------------------------------------------------
(* pollEvents and handleEngineEvents_ *)

Deliver(s, ev) == IF ev.kind = "fill" THEN OnFill(s, ev) ELSE OnOrderUpdate(s, ev)

\* The events are delivered one after the other.
Poll ==
    LET evs == engine.events
    IN  /\ pc = "poll"
        /\ pc' = IF Len(evs) > 1 THEN "poll" ELSE "check"
        /\ IF evs = <<>> THEN UNCHANGED <<engine, strategy>>
           ELSE /\ strategy' = Deliver(strategy, Head(evs))
                /\ engine' = [engine EXCEPT !.events = Tail(@)]
        /\ UNCHANGED <<queue, candle, failed, recovery, hasPending, tracking,
                       connected, ex, net, db, faults, placed, taint>>

----------------------------------------------------------------------------
(* checkPendingTimeout_ *)

\* mutant: the clock is never started
BadCheck ==
    /\ pc = "check"
    /\ pc' = "recover"
    /\ hasPending' = (ActivePendingIds(engine) # {})
    /\ tracking' = FALSE
    /\ UNCHANGED <<engine, strategy, queue, candle, failed, recovery, connected,
                   ex, net, db, faults, placed, taint>>

Check ==
    /\ pc = "check"
    /\ pc' = "recover"
    /\ hasPending' = (ActivePendingIds(engine) # {})
    /\ tracking' = (ActivePendingIds(engine) # {})
    /\ UNCHANGED <<engine, strategy, queue, candle, failed, recovery, connected,
                   ex, net, db, faults, placed, taint>>

\* The clock, started at an earlier check, has passed pending_timeout.
Timeout(a) ==
    /\ pc = "check"
    /\ "timeout" \in Faults
    /\ tracking /\ ActivePendingIds(engine) # {}
    /\ pc' = "recover"
    /\ hasPending' = TRUE
    /\ AnswerHappens(a)
    /\ RunRecovery(a)
    /\ UNCHANGED <<strategy, queue, candle, failed, recovery, connected, ex, net,
                   placed>>

----------------------------------------------------------------------------

\* StartupRecovery passes the position to the strategy, or none if the account
\* could not be read.
Init ==
    \E acc \in StartAccount :
        LET w == RebuildFromAccount(Construct(EmptyAccount), acc)[Market]
        IN  /\ engine = NewEngine(w)
            /\ \/ /\ strategy = SyncOnStart(acc.pos[Market].free, acc.pos[Market].avg)
                  /\ taint = {}
               \/ strategy = NewStrategy /\ taint = {"unsynced"}
            /\ net = [krw |-> w.available, coin |-> acc.pos[Market].free]
            /\ queue = <<>> /\ pc = "recover" /\ candle = 0 /\ failed = FALSE
            /\ recovery = FALSE /\ hasPending = FALSE /\ tracking = FALSE
            /\ connected = TRUE
            /\ ex = [o \in Orders |->
                        [state |-> "none", side |-> "BID", size |-> 0, vol |-> 0]]
            /\ db = {} /\ faults = 0 /\ placed = {}

Worker ==
    \/ \E a \in Answers : Recover(a) \/ Timeout(a)
    \/ PopMessage \/ PopNothing \/ PopCandle \/ Intrabar
    \/ Poll
    \/ Check

Next == Worker \/ Exchange \/ Disconnect \/ Reconnect \/ DropOldest

Spec == Init /\ [][Next]_vars

\* A candle with a new timestamp.
NewCandle(close) ==
    (candle = 0 /\ UpdateCandle(close)) \/ ConfirmCandle(close, "none")

MessageWaits == pc = "pop" /\ queue # <<>>

TimeoutDue == pc = "check" /\ tracking /\ ActivePendingIds(engine) # {}

\* The worker thread keeps running and reaches every queued message, its clock
\* passes pending_timeout, candles keep coming, the exchange ends every market
\* order and the WebSocket reconnects.  The second and third conjunct are
\* strong fairness with the guard written in place of ENABLED.
FairSpec ==
    /\ Spec
    /\ WF_vars(Recover("order") \/ PopNothing \/ Intrabar \/ Poll \/ Check)
    /\ []<>MessageWaits => []<><<PopMessage>>_vars
    /\ []<>TimeoutDue => []<><<Timeout("order")>>_vars
    /\ SF_vars(\E close \in Closes : NewCandle(close))
    /\ \A o \in Orders : WF_vars(End(o, TRUE))
    /\ WF_vars(Reconnect)

----------------------------------------------------------------------------
(* Properties *)

TypeOK ==
    /\ engine \in Engine
    /\ strategy \in Strategy
    /\ queue \in Seq(Message)
    /\ pc \in {"recover", "pop", "intrabar", "poll", "check"}
    /\ candle \in Closes \cup {0}
    /\ {failed, recovery, hasPending, tracking, connected} \subseteq BOOLEAN
    /\ ex \in [Orders -> ExOrder]
    /\ net \in [krw : Int, coin : Int]
    /\ db \subseteq Orders /\ placed \subseteq Orders
    /\ faults \in 0..MaxFaults
    /\ taint \subseteq {"overlap", "wiped", "gap", "orphan", "unsynced"}

Announced(o) ==
    \E i \in DOMAIN engine.events :
        engine.events[i].kind = "status" /\ engine.events[i].order = o

\* Strategy and engine never lose each other: the strategy waits for order o
\* exactly while o is active in the engine, on the side the strategy's state
\* says, or the event of o's end is on its way to the strategy.  It survives
\* lost messages, timeouts and failed submits (RsiMeanReversionStrategy.cpp:
\* 438-601, MarketEngineManager.cpp:582-617).
StrategyEngineAgree ==
    /\ \A o \in Orders :
           strategy.pending = o <=> o \in ActivePendingIds(engine) \/ Announced(o)
    /\ strategy.pending = NoOrder <=> strategy.state \in {"Flat", "InPosition"}
    /\ engine.buy # NoOrder => strategy.state = "PendingEntry"
    /\ engine.sell # NoOrder => strategy.state = "PendingExit"

\* No coin the market can have is dust: a unit counts, is worth enough at every
\* price, and so is what the account starts with.
NoDust ==
    /\ CoinEpsilon = 1
    /\ \A p \in Closes : p >= InitDust /\ p >= MinNotional
    /\ \A acc \in StartAccount :
           LET pos == acc.pos[Market]
           IN  pos.free > 0 => pos.avg > 0 /\ CoinValue(pos) >= InitDust

\* What the strategy believes about its position is what the wallet holds, as
\* long as no coin is dust: in position there is coin to sell, and flat there is
\* none.  A strategy that was not told its position at the start knows it after
\* the first candle (RsiMeanReversionStrategy.cpp:86-125, 157-181, 438-571,
\* MarketEngine.cpp:449-463).
PositionMatchesWallet ==
    NoDust =>
        /\ strategy.state = "InPosition" => Coin > 0
        /\ strategy.state = "Flat" /\ "unsynced" \notin taint => Coin = 0

\* Between orders the wallet has exactly the KRW of the exchange, and its coin
\* but for what was written off as dust, whatever was lost, repeated or late,
\* with four exceptions: a recovery that settles an open order whose messages
\* are still queued, one that replaces an open order's funds by smaller ones, a
\* trade message after a lost one, and an order whose placement was reported as
\* an error (MarketEngine.cpp:154-221, 500-584, MarketEngineManager.cpp:367-444,
\* 676-768).
BooksExact ==
    taint \subseteq {"unsynced"} /\ ActivePendingIds(engine) = {} =>
        /\ Krw = net.krw
        /\ Coin <= net.coin
        /\ NoDust => Coin = net.coin

\* Every order the engine placed and has taken off its books is in the
\* database, and only orders that ended on the exchange are
\* (MarketEngineManager.cpp:436, 735).
EndedIsRecorded ==
    /\ \A o \in placed : o \in db <=> ~InStore(engine, o)
    /\ \A o \in db : ex[o].state \in {"done", "cancel"}

\* Whatever is lost, the strategy does not wait for an order forever
\* (MarketEngineManager.cpp:796-836).
PendingReleased == \A o \in Orders : (strategy.pending = o) ~> (strategy.pending # o)

Unsellable == strategy.state = "InPosition" /\ Coin = 0

Unnoticed ==
    strategy.state = "Flat" /\ \A p \in Closes : engine.wallet.coin * p >= MinNotional

\* The strategy does not stay with a belief that the wallet contradicts: in
\* position with nothing to sell (a sell that ended without a fill wrote the
\* coin off as dust), or flat with coin that can be sold at every price (the
\* account could not be read at the start)
\* (RsiMeanReversionStrategy.cpp:157-181, StartupRecovery.cpp:113-118).
SelfHealed ==
    /\ Unsellable ~> (strategy.state # "InPosition")
    /\ Unnoticed ~> (strategy.state # "Flat")

----------------------------------------------------------------------------
(* Statements of the code's documentation that the code does not keep *)

\* Recovery settles only fills that were lost, so while a purchase runs the
\* wallet never has more coin than the exchange (MarketEngine.h:67-69).
SettledOnce == engine.buy # NoOrder => Coin <= net.coin

============================================================================
