--------------------------- MODULE MarketEngines ---------------------------
(***************************************************************************)
(* The engines of all markets, each driven by its worker with any requests *)
(* and any exchange reports: trades and snapshots may be lost, repeated,   *)
(* late, out of order, partial or of orders the bot never placed.  What    *)
(* holds here holds whatever the exchange and the network deliver.         *)
(***************************************************************************)
EXTENDS MarketEngine

CONSTANTS
    Accounts,    \* accounts the last start-up synchronisation may report
    Requests,    \* order requests
    TradeMsgs,   \* trades the private stream may carry
    Snapshots,   \* order states the private stream and REST may report
    Marks,       \* close prices of confirmed candles
    MaxCalls     \* bound: engine calls

ASSUME EnginesAssumption ==
    /\ Accounts \subseteq Account
    /\ Requests \subseteq Request
    /\ TradeMsgs \subseteq Trade
    /\ Snapshots \subseteq Snapshot
    /\ Marks \subseteq Int
    /\ MaxCalls \in Nat
    /\ "nobody" \notin Markets

VARIABLES
    engines,   \* the engine of each market
    owner,     \* history: the market that placed an order, or "nobody"
    calls      \* engine calls so far (bounded by MaxCalls)

vars == <<engines, owner, calls>>

----------------------------------------------------------------------------

Init ==
    /\ \E acc \in Accounts :
           engines = [m \in Markets |->
               NewEngine(RebuildFromAccount(Construct(EmptyAccount), acc)[m])]
    /\ owner = [o \in Orders |-> "nobody"]
    /\ calls = 0

Call(m, e) ==
    /\ calls < MaxCalls
    /\ calls' = calls + 1
    /\ engines' = [engines EXCEPT ![m] = e]

\* postOrder returns a uuid no order has had before.
Submit(m, r, o) ==
    /\ CanSubmit(engines[m], r)
    /\ owner[o] = "nobody"
    /\ Call(m, SubmitAccepted(engines[m], r, o))
    /\ owner' = [owner EXCEPT ![o] = m]

SubmitFails(m, r) ==
    /\ CanSubmit(engines[m], r)
    /\ Call(m, SubmitFailed(engines[m], r))
    /\ UNCHANGED owner

\* Reports are routed by market: an engine sees its own orders and orders
\* placed outside the bot.
Routed(m, o) == owner[o] \in {m, "nobody"}

ReceiveTrade(m, t) ==
    /\ Routed(m, t.order)
    /\ Call(m, OnMyTrade(engines[m], t))
    /\ UNCHANGED owner

ReceiveSnapshot(m, s) ==
    /\ Routed(m, s.order)
    /\ Call(m, OnOrderSnapshot(engines[m], s))
    /\ UNCHANGED owner

Reconcile(m, s) ==
    /\ Routed(m, s.order)
    /\ Call(m, ReconcileFromSnapshot(engines[m], s))
    /\ UNCHANGED owner

Poll(m) ==
    /\ Call(m, PollEvents(engines[m]))
    /\ UNCHANGED owner

Mark(m, p) ==
    /\ Call(m, SetMarkPrice(engines[m], p))
    /\ UNCHANGED owner

Next ==
    \E m \in Markets :
        \/ \E r \in Requests, o \in Orders : Submit(m, r, o)
        \/ \E r \in Requests : SubmitFails(m, r)
        \/ \E t \in TradeMsgs : ReceiveTrade(m, t)
        \/ \E s \in Snapshots : ReceiveSnapshot(m, s) \/ Reconcile(m, s)
        \/ Poll(m)
        \/ \E p \in Marks : Mark(m, p)

Spec == Init /\ [][Next]_vars

----------------------------------------------------------------------------
(* Properties *)

TypeOK ==
    /\ engines \in [Markets -> Engine]
    /\ owner \in [Orders -> Markets \cup {"nobody"}]
    /\ calls \in Nat

\* The token, the active uuids and the store of an engine tell one story: a
\* token exists exactly while a buy order is active, never beside an active
\* sell, the reserved KRW is what the token has left, and the store holds
\* exactly the active orders, none of them terminal (MarketEngine.cpp:66-96,
\* OrderStore.h:25-26).
EngineConsistent(e) ==
    /\ e.wallet.available >= 0
    /\ e.wallet.reserved = Remaining(e.wallet.token)
    /\ e.wallet.token.consumed >= 0
    /\ e.wallet.token.consumed <= e.wallet.token.amount
    /\ e.wallet.token.active <=> e.buy # NoOrder
    /\ ~e.wallet.token.active => e.wallet.token = NoToken
    /\ e.buy = NoOrder \/ e.sell = NoOrder
    /\ \A o \in Orders : InStore(e, o) <=> o \in {e.buy, e.sell}
    /\ \A o \in Orders : e.store[o].status \notin Terminal
    /\ e.buy # NoOrder => e.store[e.buy].side = "BID"
    /\ e.sell # NoOrder => e.store[e.sell].side = "ASK"

SlotsConsistent == \A m \in Markets : EngineConsistent(engines[m])

\* An order is in the store of the market that placed it, and of no other.
StoreOfOwner ==
    \A m \in Markets, o \in Orders : InStore(engines[m], o) => owner[o] = m

\* The end of an order is announced exactly once: an order leaves the store in
\* the step that appends its status event, no other step appends one, and an
\* order that has left never comes back (MarketEngine.cpp:287-326).
EndAnnouncedOnce ==
    [][\A m \in Markets, o \in Orders :
          LET e == engines[m]
              f == engines'[m]
              announced == /\ Len(f.events) = Len(e.events) + 1
                           /\ f.events[Len(f.events)].kind = "status"
                           /\ f.events[Len(f.events)].order = o
          IN  /\ InStore(e, o) /\ ~InStore(f, o) <=> announced
              /\ owner[o] # "nobody" /\ ~InStore(e, o) => ~InStore(f, o)]_vars

\* A trade settled now is not settled again when the stream repeats it, not
\* even after another trade at the dedupe limit (MarketEngine.cpp:627-646).
TradeSettledOnce ==
    MaxSeen >= 2 =>
        \A m \in Markets : \A t, u \in TradeMsgs :
            LET e == OnMyTrade(OnMyTrade(engines[m], t), u)
            IN  ~Seen(engines[m], t) => OnMyTrade(e, t) = e

\* A reconciliation repeated with the same report changes nothing, whatever the
\* engine has seen before (MarketEngine.h:69).
ReconcileIdempotent ==
    \A m \in Markets : \A s \in Snapshots :
        LET once == ReconcileFromSnapshot(engines[m], s)
        IN  ReconcileFromSnapshot(once, s) = once

\* Every engine call is a step of the abstract slot of its market: purchases
\* are paid from their reservation only, idle markets' KRW never moves.
Slot == INSTANCE TradingSlot WITH
    slot   <- [m \in Markets |-> IF engines[m].buy # NoOrder THEN "buying"
                                 ELSE IF engines[m].sell # NoOrder THEN "selling"
                                 ELSE "idle"],
    free   <- [m \in Markets |-> engines[m].wallet.available],
    locked <- [m \in Markets |-> engines[m].wallet.reserved]

ImplementsSlot == Slot!Spec

============================================================================
