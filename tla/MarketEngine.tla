---------------------------- MODULE MarketEngine ----------------------------
(***************************************************************************)
(* The order engine of one market (src/engine/MarketEngine.{h,cpp}) with   *)
(* its part of the OrderStore (src/engine/OrderStore.{h,cpp}).             *)
(*                                                                         *)
(* An ENGINE is a record: the market's wallet and token, the uuids of the  *)
(* active buy and sell order, the trades already seen, the events not yet  *)
(* polled, the mark price, and the store's entry of every order.  Each     *)
(* public method is an operator from engine to engine, so that a handler   *)
(* that calls several of them is their composition.  The engine runs on    *)
(* its worker thread only (assertOwner_), so a call is one step.           *)
(*                                                                         *)
(* An order has one name here: its exchange uuid and the client identifier *)
(* are in bijection.  The side of an order is the submitted one: the       *)
(* exchange reports every order with the side it was posted with.          *)
(***************************************************************************)
EXTENDS AccountManager, Sequences

CONSTANTS
    Orders,      \* order uuids
    Trades,      \* trade uuids
    NoOrder,     \* the empty uuid
    MarginNum,   \* EngineConfig::reserve_margin = MarginNum / MarginDen
    MarginDen,
    MaxSeen      \* EngineConfig::max_seen_trades

ASSUME EngineAssumption ==
    /\ NoOrder \notin Orders
    /\ MarginNum \in Nat /\ MarginDen \in Nat \ {0}
    /\ MarginDen <= MarginNum
    /\ MaxSeen \in Nat \ {0}

Statuses == {"Pending", "Open", "Filled", "Canceled", "Rejected"}

Terminal == {"Filled", "Canceled", "Rejected"}

Sides == {"BID", "ASK"}

Effects == {"None", "Opened", "Reduced", "Closed"}

----------------------------------------------------------------------------
(* Types *)

\* The store's copy of an order; status "Absent" where the store has none.
StoredOrder == [status : Statuses \cup {"Absent"}, side : Sides,
                vol : Int, funds : Int, fee : Int]

Absent == [status |-> "Absent", side |-> "BID", vol |-> 0, funds |-> 0, fee |-> 0]

\* core::OrderRequest; price = 0 stands for "no price".
Request == [side : Sides, type : {"Limit", "Market"},
            sized : {"amount", "volume"}, size : Int, price : Int]

\* core::MyTrade and core::Order as far as the engine reads them.
Trade == [id : Trades, order : Orders, vol : Int, price : Int, funds : Int, fee : Int]

Snapshot == [order : Orders, status : Statuses, vol : Int, funds : Int, fee : Int]

\* EngineFillEvent (kind "fill") and EngineOrderStatusEvent (kind "status").
\* price is the fill price of a fill, funds the executed funds of a status.
Event == [kind : {"fill", "status"}, order : Orders, side : Sides, vol : Int,
          price : Int, funds : Int, status : Statuses, effect : Effects]

Engine == [wallet : Wallet, buy : Orders \cup {NoOrder}, sell : Orders \cup {NoOrder},
           seen : Seq(Trades), events : Seq(Event), mark : Int,
           store : [Orders -> StoredOrder]]

NewEngine(w) ==
    [wallet |-> w, buy |-> NoOrder, sell |-> NoOrder, seen |-> <<>>,
     events |-> <<>>, mark |-> 0, store |-> [o \in Orders |-> Absent]]

----------------------------------------------------------------------------
(* OrderStore: get is e.store[o]; update is refused when the order is absent, *)
(* which onOrderSnapshot has excluded by then.                                *)

InStore(e, o) == e.store[o].status # "Absent"

Upsert(e, o, rec) == [e EXCEPT !.store[o] = rec]

Erase(e, o) == [e EXCEPT !.store[o] = Absent]

----------------------------------------------------------------------------
(* submit *)

ValidateRequest(r) ==
    /\ r.type = "Limit"  => r.price # 0 /\ r.sized = "volume"
    /\ r.type = "Market" => /\ r.price = 0
                            /\ r.side = "BID" => r.sized = "amount"
                            /\ r.side = "ASK" => r.sized = "volume"
    /\ r.size > 0
    /\ r.price >= 0

ComputeReserveAmount(r) ==
    ((IF r.sized = "amount" THEN r.size ELSE r.price * r.size) * MarginNum) \div MarginDen

\* mutant: the opposite side is not looked at
BadCanSubmit(e, r) ==
    /\ ValidateRequest(r)
    /\ r.side = "BID" => /\ ~e.wallet.token.active
                         /\ CanReserve(e.wallet, ComputeReserveAmount(r))
    /\ r.side = "ASK" => e.sell = NoOrder

\* Every check submit makes before it calls postOrder.
CanSubmit(e, r) ==
    /\ ValidateRequest(r)
    /\ ~e.wallet.token.active
    /\ e.sell = NoOrder
    /\ r.side = "BID" => CanReserve(e.wallet, ComputeReserveAmount(r))

\* postOrder answered with the order's uuid.
SubmitAccepted(e, r, o) ==
    LET pending == [Absent EXCEPT !.status = "Pending", !.side = r.side]
    IN  IF r.side = "BID"
        THEN Upsert([e EXCEPT !.wallet = Reserve(@, ComputeReserveAmount(r)),
                              !.buy    = o], o, pending)
        ELSE Upsert([e EXCEPT !.sell = o], o, pending)

\* mutant: the reservation of a failed buy is kept
BadSubmitFailed(e, r) ==
    IF r.side = "BID"
    THEN [e EXCEPT !.wallet = Reserve(@, ComputeReserveAmount(r)), !.buy = NoOrder]
    ELSE e

\* postOrder answered with an error.
SubmitFailed(e, r) ==
    IF r.side = "BID"
    THEN [e EXCEPT !.wallet = Release(Reserve(@, ComputeReserveAmount(r))),
                   !.buy    = NoOrder]
    ELSE e

----------------------------------------------------------------------------
(* onMyTrade *)

Seen(e, t) == \E i \in DOMAIN e.seen : e.seen[i] = t.id

\* mutant: one trade too many is forgotten
BadMarkTradeEarly(e, t) ==
    LET fifo == Append(e.seen, t.id)
    IN  [e EXCEPT !.seen = IF Len(fifo) >= MaxSeen THEN Tail(fifo) ELSE fifo]

\* markTradeOnce for a trade not seen yet: the oldest is forgotten at the limit.
MarkTrade(e, t) ==
    LET fifo == Append(e.seen, t.id)
    IN  [e EXCEPT !.seen = IF Len(fifo) > MaxSeen THEN Tail(fifo) ELSE fifo]

PushEvent(e, ev) == [e EXCEPT !.events = Append(@, ev)]

Proceeds(funds, fee) == IF funds - fee < 0 THEN 0 ELSE funds - fee

\* What a fill of order o does to the wallet.
SettleFill(e, o, vol, price, funds, fee) ==
    IF e.store[o].side = "BID"
    THEN IF e.wallet.token.active /\ e.buy = o
         THEN FinalizeFillBuy(e.wallet, funds + fee, vol, price)
         ELSE e.wallet
    ELSE FinalizeFillSell(e.wallet, vol, Proceeds(funds, fee))

FillEvent(e, t) ==
    [kind |-> "fill", order |-> t.order, side |-> e.store[t.order].side,
     vol |-> t.vol, price |-> t.price, funds |-> 0, status |-> "Open",
     effect |-> "None"]

\* The trade is marked as seen before the store is asked: a trade of an order
\* the store does not know is ignored for good.
OnMyTrade(e, t) ==
    IF Seen(e, t) THEN e
    ELSE IF ~InStore(e, t.order) THEN MarkTrade(e, t)
    ELSE [PushEvent(MarkTrade(e, t), FillEvent(e, t)) EXCEPT
             !.wallet = SettleFill(e, t.order, t.vol, t.price, t.funds, t.fee)]

----------------------------------------------------------------------------
(* onOrderSnapshot *)

ResolvePositionEffect(e, o) ==
    IF e.store[o].vol <= 0 THEN "None"
    ELSE IF e.store[o].side = "BID" THEN "Opened"
    ELSE IF e.wallet.coin >= CoinEpsilon THEN "Reduced" ELSE "Closed"

\* finalizeBuyToken_, called for the active buy order only.
FinalizeBuyToken(e, o) ==
    IF e.wallet.token.active /\ e.buy = o
    THEN [e EXCEPT !.wallet = FinalizeOrder(@), !.buy = NoOrder]
    ELSE e

\* The active order o has ended: its token, or its sell, is closed.
CloseActive(e, o) ==
    IF e.store[o].side = "BID" /\ e.buy = o THEN FinalizeBuyToken(e, o)
    ELSE IF e.store[o].side = "ASK" /\ e.sell = o
    THEN [e EXCEPT !.wallet = FinalizeSellOrder(@, e.mark), !.sell = NoOrder]
    ELSE e

StatusEvent(e, o) ==
    [kind |-> "status", order |-> o, side |-> e.store[o].side,
     vol |-> e.store[o].vol, price |-> 0, funds |-> e.store[o].funds,
     status |-> e.store[o].status, effect |-> ResolvePositionEffect(e, o)]

\* The cumulative values are overwritten by the snapshot's, larger or not.
SyncFields(e, s) ==
    [e EXCEPT !.store[s.order] =
        [@ EXCEPT !.status = s.status, !.vol = s.vol, !.funds = s.funds, !.fee = s.fee]]

\* mutant: a terminal order stays in the store
BadOnOrderSnapshot(e, s) ==
    LET synced == SyncFields(e, s)
        closed == CloseActive(synced, s.order)
    IN  IF ~InStore(e, s.order) THEN e
        ELSE IF s.status \notin Terminal \/ s.status = e.store[s.order].status THEN synced
        ELSE PushEvent(closed, StatusEvent(closed, s.order))

\* mutant: an order the store does not know is added to it
BadAdoptUnknown(e, s) == SyncFields(e, s)

OnOrderSnapshot(e, s) ==
    LET synced == SyncFields(e, s)
        closed == CloseActive(synced, s.order)
    IN  IF ~InStore(e, s.order) THEN e
        ELSE IF s.status \notin Terminal THEN synced
        ELSE IF s.status = e.store[s.order].status THEN Erase(synced, s.order)
        ELSE Erase(PushEvent(closed, StatusEvent(closed, s.order)), s.order)

----------------------------------------------------------------------------
(* reconcileFromSnapshot *)

Positive(n) == IF n > 0 THEN n ELSE 0

DeltaVol(e, s) == Positive(s.vol - e.store[s.order].vol)

DeltaFunds(e, s) == Positive(s.funds - e.store[s.order].funds)

DeltaFee(e, s) == Positive(s.fee - e.store[s.order].fee)

IsActive(e, o) ==
    IF e.store[o].side = "BID" THEN e.wallet.token.active /\ e.buy = o ELSE e.sell = o

\* reconcileFromSnapshot returns true.
CanReconcile(e, s) ==
    /\ InStore(e, s.order)
    /\ DeltaVol(e, s) > 0 => DeltaFunds(e, s) > 0 /\ IsActive(e, s.order)

\* mutant: the store learns of the difference only when the order has ended
BadReconcileFromSnapshot(e, s) ==
    LET dv == DeltaVol(e, s)
        df == DeltaFunds(e, s)
        settled == IF dv > 0
                   THEN [e EXCEPT !.wallet =
                            SettleFill(e, s.order, dv, df \div dv, df, DeltaFee(e, s))]
                   ELSE e
    IN  IF ~CanReconcile(e, s) THEN e
        ELSE IF s.status \in Terminal THEN OnOrderSnapshot(settled, s)
        ELSE settled

\* Settle the difference to the store's cumulative values, then apply the
\* snapshot; when it returns false nothing changes.
ReconcileFromSnapshot(e, s) ==
    LET dv == DeltaVol(e, s)
        df == DeltaFunds(e, s)
        settled == IF dv > 0
                   THEN [e EXCEPT !.wallet =
                            SettleFill(e, s.order, dv, df \div dv, df, DeltaFee(e, s))]
                   ELSE e
    IN  IF CanReconcile(e, s) THEN OnOrderSnapshot(settled, s) ELSE e

----------------------------------------------------------------------------
(* pollEvents, activePendingIds, setMarkPrice *)

PollEvents(e) == [e EXCEPT !.events = <<>>]

ActivePendingIds(e) == {e.buy, e.sell} \ {NoOrder}

SetMarkPrice(e, p) == [e EXCEPT !.mark = p]

============================================================================
