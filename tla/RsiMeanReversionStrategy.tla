----------------------- MODULE RsiMeanReversionStrategy -----------------------
(***************************************************************************)
(* The trading strategy of one market                                      *)
(* (src/trading/strategies/RsiMeanReversionStrategy.{h,cpp}): a state      *)
(* machine Flat, PendingEntry, InPosition, PendingExit that follows one    *)
(* order at a time.  What the indicators say about a candle is an input    *)
(* (a SIGNAL); the account is the pair (KRW available, coin available).    *)
(*                                                                         *)
(* entry = 0 stands for "no entry price"; stop and target are set and      *)
(* reset together with it (setStopsFromEntry), so they are derived from it.*)
(***************************************************************************)
EXTENDS MarketEngine

CONSTANTS
    MinNotional,   \* StrategyConfig::min_notional_krw
    StopPct,       \* Params::stopLossPct
    TargetPct      \* Params::profitTargetPct

ASSUME StrategyAssumption ==
    /\ MinNotional \in Nat \ {0}
    /\ StopPct \in 0..100
    /\ TargetPct \in Nat

\* "buy": marketOk and RSI oversold; "sell": RSI ready and overbought.
Signals == {"none", "buy", "sell"}

States == {"Flat", "PendingEntry", "InPosition", "PendingExit"}

Strategy == [state : States, pending : Orders \cup {NoOrder}, entry : Int,
             filled : Int, cost : Int, last : Int]

\* Volume, cost and last price of the fills of the pending order.
ClearFills(s) == [s EXCEPT !.filled = 0, !.cost = 0, !.last = 0]

ClearPending(s) == [ClearFills(s) EXCEPT !.pending = NoOrder]

NewStrategy ==
    [state |-> "Flat", pending |-> NoOrder, entry |-> 0, filled |-> 0, cost |-> 0, last |-> 0]

\* syncOnStart: without a trusted average price a position is not taken over.
SyncOnStart(coin, avg) ==
    IF coin > 0 /\ avg > 0
    THEN [NewStrategy EXCEPT !.state = "InPosition", !.entry = avg]
    ELSE NewStrategy

----------------------------------------------------------------------------
(* Decisions *)

HitStop(s, close) == 100 * close <= s.entry * (100 - StopPct)

HitTarget(s, close) == 100 * close >= s.entry * (100 + TargetPct)

\* mutant: a position that became dust is kept
BadSelfHeal(s, coin, close) ==
    IF s.state = "Flat" /\ coin * close >= MinNotional
    THEN [s EXCEPT !.state = "InPosition", !.entry = close]
    ELSE s

\* Flat with a tradable position, or in position with dust: the wallet wins.
SelfHeal(s, coin, close) ==
    IF s.state = "Flat" /\ coin * close >= MinNotional
    THEN [s EXCEPT !.state = "InPosition", !.entry = close]
    ELSE IF s.state = "InPosition" /\ coin * close < MinNotional
    THEN [s EXCEPT !.state = "Flat", !.entry = 0]
    ELSE s

\* Amount of a market buy: the engine's reserve margin is taken off first
\* (utilization is 1).
KrwToUse(krw) == (krw * MarginDen) \div MarginNum

MaybeEnter(s, krw, sig) ==
    /\ s.state = "Flat"
    /\ krw > 0
    /\ sig = "buy"
    /\ KrwToUse(krw) >= MinNotional

MaybeExit(s, coin, close, sig) ==
    /\ s.state = "InPosition"
    /\ coin > 0
    /\ sig = "sell" \/ (s.entry # 0 /\ (HitStop(s, close) \/ HitTarget(s, close)))
    /\ coin * close >= MinNotional

IntrabarExit(s, coin, close) ==
    /\ s.state = "InPosition"
    /\ coin > 0
    /\ s.entry # 0
    /\ HitStop(s, close) \/ HitTarget(s, close)
    /\ coin * close >= MinNotional

\* The strategy has decided on order o.
Enter(s, o) == [ClearFills(s) EXCEPT !.state = "PendingEntry", !.pending = o]

Exit(s, o) == [ClearFills(s) EXCEPT !.state = "PendingExit", !.pending = o]

MarketBuy(krw) == [side |-> "BID", type |-> "Market", sized |-> "amount",
                   size |-> KrwToUse(krw), price |-> 0]

MarketSell(coin) == [side |-> "ASK", type |-> "Market", sized |-> "volume",
                     size |-> coin, price |-> 0]

----------------------------------------------------------------------------
(* Events of the engine *)

OnFill(s, ev) ==
    IF s.pending # ev.order THEN s
    ELSE [s EXCEPT !.last   = ev.price,
                   !.filled = IF ev.vol > 0 THEN @ + ev.vol ELSE @,
                   !.cost   = IF ev.vol > 0 THEN @ + ev.price * ev.vol ELSE @]

\* VWAP of the fills, else of the order, else the last fill price.
FinalPrice(s, ev) ==
    IF s.filled > 0 THEN s.cost \div s.filled
    ELSE IF ev.vol > 0 /\ ev.funds > 0 THEN ev.funds \div ev.vol
    ELSE s.last

\* The state before the order was decided on.
Rollback(s) == [s EXCEPT !.state = IF @ = "PendingEntry" THEN "Flat" ELSE "InPosition"]

\* mutant: a partly filled, then cancelled entry is rolled back to Flat
BadOnOrderUpdate(s, ev) ==
    IF s.pending # ev.order \/ ev.status \notin Terminal THEN s
    ELSE ClearPending(
        IF s.state = "PendingEntry" /\ ev.effect = "Opened" /\ ev.status = "Filled"
        THEN [s EXCEPT !.state = "InPosition", !.entry = FinalPrice(s, ev)]
        ELSE IF s.state = "PendingExit" /\ ev.effect = "Closed"
        THEN [s EXCEPT !.state = "Flat", !.entry = 0]
        ELSE Rollback(s))

OnOrderUpdate(s, ev) ==
    IF s.pending # ev.order \/ ev.status \notin Terminal THEN s
    ELSE ClearPending(
        IF s.state = "PendingEntry" /\ ev.effect = "Opened"
        THEN [s EXCEPT !.state = "InPosition",
                       !.entry = IF FinalPrice(s, ev) > 0 THEN FinalPrice(s, ev) ELSE @]
        ELSE IF s.state = "PendingExit" /\ ev.effect = "Closed"
        THEN [s EXCEPT !.state = "Flat", !.entry = 0]
        ELSE Rollback(s))

\* mutant: the pending order of a failed submit is not forgotten
BadOnSubmitFailed(s) == Rollback(s)

OnSubmitFailed(s) == IF s.pending = NoOrder THEN s ELSE ClearPending(Rollback(s))

============================================================================
