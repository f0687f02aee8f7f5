------------------------ MODULE MarketEnginesProofs ------------------------
(***************************************************************************)
(* The engines' invariants, for any markets, orders, requests and reports, *)
(* and that every engine call is a step of the abstract slot.  EngineOK is *)
(* the invariant of one engine; each public method is shown to keep it and *)
(* to move the slot the way TradingSlot allows.                            *)
(***************************************************************************)
EXTENDS MarketEngines, MarketEngineProofs

IInv == TypeOK /\ (\A m \in Markets : EngineOK(engines[m])) /\ StoreOfOwner

----------------------------------------------------------------------------
(* The inductive invariant *)

\* The start-up synchronisation establishes the invariant.
LEMMA InitIInv == Init => IInv
<1> SUFFICES ASSUME Init PROVE IInv
  OBVIOUS
<1> DEFINE ws == Construct(EmptyAccount)
<1>1. PICK acc \in Accounts :
          engines = [m \in Markets |-> NewEngine(RebuildFromAccount(ws, acc)[m])]
  BY DEF Init
<1>2. acc \in Account
  BY EnginesAssumption
<1>3. ws = [m \in Markets |-> ws[m]]
  BY DEF Construct
<1> HIDE DEF ws
<1>4. \A m \in Markets : WalletOK(ws[m]) /\ ws[m].token = NoToken
  BY ConstructEmpty DEF ws
<1>5. ws \in [Markets -> Wallet]
  BY <1>3, <1>4 DEF WalletOK
<1>6. \A m \in Markets : /\ WalletOK(RebuildFromAccount(ws, acc)[m])
                         /\ RebuildFromAccount(ws, acc)[m].token = NoToken
  BY <1>2, <1>4, <1>5, RebuildSound
<1>7. \A m \in Markets : EngineOK(NewEngine(RebuildFromAccount(ws, acc)[m]))
  BY <1>6, NewEngineOK
<1>8. \A m \in Markets : EngineOK(engines[m])
  BY <1>1, <1>7
<1>9. TypeOK
  <2>1. engines \in [Markets -> Engine]
    BY <1>1, <1>8 DEF EngineOK
  <2> QED
    BY <2>1 DEF Init, TypeOK
<1>10. StoreOfOwner
  <2> SUFFICES ASSUME NEW m \in Markets, NEW o \in Orders PROVE ~InStore(engines[m], o)
    BY DEF StoreOfOwner
  <2>1. engines[m].buy = NoOrder /\ engines[m].sell = NoOrder
    BY <1>1 DEF NewEngine
  <2> QED
    BY <1>8, <2>1, EngineAssumption DEF EngineOK
<1> QED
  BY <1>8, <1>9, <1>10 DEF IInv

\* What one engine call does to the engine of its market.
StepOK(m, e) == EngineOK(e) /\ SlotStep(engines[m], e) /\ Announces(engines[m], e)

\* Every step is a sound call of one market's engine, in which only an order
\* that nobody had placed enters a store.
LEMMA NextCalls ==
    ASSUME IInv, Next
    PROVE  \E m \in Markets, e \in Engine :
               /\ Call(m, e) /\ StepOK(m, e)
               /\ \/ Shrinks(engines[m], e) /\ UNCHANGED owner
                  \/ \E o \in Orders : /\ owner[o] = "nobody"
                                       /\ owner' = [owner EXCEPT ![o] = m]
                                       /\ \A p \in Orders : InStore(e, p) => p = o
<1>1. PICK m \in Markets :
          \/ \E r \in Requests, o \in Orders : Submit(m, r, o)
          \/ \E r \in Requests : SubmitFails(m, r)
          \/ \E t \in TradeMsgs : ReceiveTrade(m, t)
          \/ \E s \in Snapshots : ReceiveSnapshot(m, s) \/ Reconcile(m, s)
          \/ Poll(m)
          \/ \E p \in Marks : Mark(m, p)
  BY DEF Next
<1>2. EngineOK(engines[m])
  BY DEF IInv
<1> DEFINE Sound(e) == /\ Call(m, e) /\ StepOK(m, e)
                       /\ Shrinks(engines[m], e) /\ UNCHANGED owner
<1>3. CASE \E r \in Requests, o \in Orders : Submit(m, r, o)
  <2>1. PICK r \in Requests, o \in Orders : Submit(m, r, o)
    BY <1>3
  <2> DEFINE e == SubmitAccepted(engines[m], r, o)
  <2>2. r \in Request /\ CanSubmit(engines[m], r)
    BY <2>1, EnginesAssumption DEF Submit
  <2>3. Call(m, e) /\ owner[o] = "nobody" /\ owner' = [owner EXCEPT ![o] = m]
    BY <2>1 DEF Submit
  <2>4. StepOK(m, e) /\ \A p \in Orders : InStore(e, p) => p = o
    BY <1>2, <2>2, SubmitAcceptedOK DEF StepOK
  <2> HIDE DEF e
  <2>5. e \in Engine
    BY <2>4 DEF StepOK, EngineOK
  <2> QED
    BY <2>3, <2>4, <2>5
<1>4. ASSUME \/ \E r \in Requests : SubmitFails(m, r)
             \/ \E t \in TradeMsgs : ReceiveTrade(m, t)
             \/ \E s \in Snapshots : ReceiveSnapshot(m, s) \/ Reconcile(m, s)
             \/ Poll(m)
             \/ \E p \in Marks : Mark(m, p)
      PROVE  \E e : Sound(e)
  <2>1. CASE \E r \in Requests : SubmitFails(m, r)
    <3>1. PICK r \in Requests : SubmitFails(m, r)
      BY <2>1
    <3>2. r \in Request /\ CanSubmit(engines[m], r)
      BY <3>1, EnginesAssumption DEF SubmitFails
    <3>3. Sound(SubmitFailed(engines[m], r))
      BY <1>2, <3>1, <3>2, SubmitFailedOK DEF SubmitFails, StepOK
    <3> QED
      BY <3>3
  <2>2. CASE \E t \in TradeMsgs : ReceiveTrade(m, t)
    <3>1. PICK t \in TradeMsgs : ReceiveTrade(m, t)
      BY <2>2
    <3>2. t \in Trade
      BY EnginesAssumption
    <3>3. Sound(OnMyTrade(engines[m], t))
      BY <1>2, <3>1, <3>2, OnMyTradeOK DEF ReceiveTrade, StepOK
    <3> QED
      BY <3>3
  <2>3. CASE \E s \in Snapshots : ReceiveSnapshot(m, s) \/ Reconcile(m, s)
    <3>1. PICK s \in Snapshots : ReceiveSnapshot(m, s) \/ Reconcile(m, s)
      BY <2>3
    <3>2. s \in Snapshot
      BY EnginesAssumption
    <3>3. CASE ReceiveSnapshot(m, s)
      <4>1. Sound(OnOrderSnapshot(engines[m], s))
        BY <1>2, <3>2, <3>3, OnOrderSnapshotOK DEF ReceiveSnapshot, StepOK, SlotStep
      <4> QED
        BY <4>1
    <3>4. CASE Reconcile(m, s)
      <4>1. Sound(ReconcileFromSnapshot(engines[m], s))
        BY <1>2, <3>2, <3>4, ReconcileOK DEF Reconcile, StepOK
      <4> QED
        BY <4>1
    <3> QED
      BY <3>1, <3>3, <3>4
  <2>4. CASE Poll(m)
    <3>1. Sound(PollEvents(engines[m]))
      BY <1>2, <2>4, PollOK DEF Poll, StepOK
    <3> QED
      BY <3>1
  <2>5. CASE \E p \in Marks : Mark(m, p)
    <3>1. PICK p \in Marks : Mark(m, p)
      BY <2>5
    <3>2. p \in Int
      BY EnginesAssumption
    <3>3. Sound(SetMarkPrice(engines[m], p))
      BY <1>2, <3>1, <3>2, MarkOK DEF Mark, StepOK
    <3> QED
      BY <3>3
  <2> QED
    BY <1>4, <2>1, <2>2, <2>3, <2>4, <2>5
<1>5. CASE \E e : Sound(e)
  <2>1. PICK e : Sound(e)
    BY <1>5
  <2>2. e \in Engine
    BY <2>1 DEF StepOK, EngineOK
  <2> QED
    BY <2>1, <2>2
<1> QED
  BY <1>1, <1>3, <1>4, <1>5

\* A call replaces the engine of its market and no other.
LEMMA CallEffect ==
    ASSUME TypeOK, NEW m \in Markets, NEW e \in Engine, Call(m, e)
    PROVE  /\ engines' \in [Markets -> Engine] /\ calls' \in Nat
           /\ engines'[m] = e
           /\ \A n \in Markets : n # m => engines'[n] = engines[n]
BY DEF TypeOK, Call

\* Every call keeps the invariant.
LEMMA NextIInv ==
    ASSUME IInv, Next PROVE IInv'
<1>1. PICK m \in Markets, e \in Engine :
          /\ Call(m, e) /\ StepOK(m, e)
          /\ \/ Shrinks(engines[m], e) /\ UNCHANGED owner
             \/ \E o \in Orders : /\ owner[o] = "nobody"
                                  /\ owner' = [owner EXCEPT ![o] = m]
                                  /\ \A p \in Orders : InStore(e, p) => p = o
  BY NextCalls
<1>2. TypeOK /\ owner \in [Orders -> Markets \cup {"nobody"}]
  BY DEF IInv, TypeOK
<1>3. /\ engines' \in [Markets -> Engine] /\ calls' \in Nat
      /\ engines'[m] = e
      /\ \A n \in Markets : n # m => engines'[n] = engines[n]
  BY <1>1, <1>2, CallEffect
<1>4. \A n \in Markets : EngineOK(engines'[n])
  BY <1>1, <1>3 DEF IInv, StepOK
<1>5. \A n \in Markets, o \in Orders : InStore(engines[n], o) => owner[o] = n
  BY DEF IInv, StoreOfOwner
<1>6. CASE Shrinks(engines[m], e) /\ UNCHANGED owner
  <2>1. TypeOK'
    BY <1>2, <1>3, <1>6 DEF TypeOK
  <2>2. StoreOfOwner'
    BY <1>3, <1>5, <1>6 DEF StoreOfOwner, Shrinks
  <2> QED
    BY <1>4, <2>1, <2>2 DEF IInv
<1>7. CASE \E o \in Orders : /\ owner[o] = "nobody"
                             /\ owner' = [owner EXCEPT ![o] = m]
                             /\ \A p \in Orders : InStore(e, p) => p = o
  <2>1. PICK o \in Orders : /\ owner[o] = "nobody"
                            /\ owner' = [owner EXCEPT ![o] = m]
                            /\ \A p \in Orders : InStore(e, p) => p = o
    BY <1>7
  <2>2. /\ owner' \in [Orders -> Markets \cup {"nobody"}] /\ owner'[o] = m
        /\ \A p \in Orders : p # o => owner'[p] = owner[p]
    BY <1>2, <2>1
  <2>3. \A n \in Markets : ~InStore(engines[n], o)
    BY <1>5, <2>1, EnginesAssumption
  <2>4. TypeOK'
    BY <1>3, <2>2 DEF TypeOK
  <2>5. StoreOfOwner'
    <3> SUFFICES ASSUME NEW n \in Markets, NEW p \in Orders, InStore(engines'[n], p)
                 PROVE  owner'[p] = n
      BY DEF StoreOfOwner
    <3>1. CASE n = m
      BY <1>3, <2>1, <2>2, <3>1
    <3>2. CASE n # m
      <4>1. InStore(engines[n], p)
        BY <1>3, <3>2
      <4> QED
        BY <1>5, <2>2, <2>3, <4>1
    <3> QED
      BY <3>1, <3>2
  <2> QED
    BY <1>4, <2>4, <2>5 DEF IInv
<1> QED
  BY <1>1, <1>6, <1>7

\* IInv is inductive: every engine call of every market keeps it.
THEOREM EnginesInvariant == Spec => []IInv
<1>1. Init => IInv
  BY InitIInv
<1>2. IInv /\ [Next]_vars => IInv'
  <2> SUFFICES ASSUME IInv, [Next]_vars PROVE IInv'
    OBVIOUS
  <2>1. CASE Next
    BY <2>1, NextIInv
  <2>2. CASE UNCHANGED vars
    BY <2>2 DEF vars, IInv, TypeOK, StoreOfOwner
  <2> QED
    BY <2>1, <2>2
<1> QED
  BY <1>1, <1>2, PTL DEF Spec

\* The engines, their owners and the call count keep their types.
THEOREM EnginesTypeCorrect == Spec => []TypeOK
<1>1. IInv => TypeOK
  BY DEF IInv
<1> QED
  BY <1>1, EnginesInvariant, PTL

\* Token, active uuids and store of every engine tell one story after any
\* requests and any reports, lost, repeated, late or foreign
\* (MarketEngine.cpp:66-96, OrderStore.h:25-26).
THEOREM OneOrderPerMarket == Spec => []SlotsConsistent
<1>1. ASSUME NEW e, EngineOK(e) PROVE EngineConsistent(e)
  <2>1. WalletOK(e.wallet) /\ e.wallet \in Wallet
    BY <1>1 DEF EngineOK, WalletOK
  <2>2. ~e.wallet.token.active => e.wallet.token = NoToken
    BY <2>1 DEF WalletOK
  <2>3. /\ e.wallet.available >= 0 /\ e.wallet.reserved = Remaining(e.wallet.token)
        /\ e.wallet.token.consumed >= 0
        /\ e.wallet.token.consumed <= e.wallet.token.amount
    BY <2>1, WalletFields DEF WalletOK
  <2> QED
    BY <1>1, <2>2, <2>3 DEF EngineOK, EngineConsistent
<1>2. IInv => SlotsConsistent
  BY <1>1 DEF IInv, SlotsConsistent
<1> QED
  BY <1>2, EnginesInvariant, PTL

\* No order is ever in the store of a market that did not place it.
THEOREM OrdersStayHome == Spec => []StoreOfOwner
<1>1. IInv => StoreOfOwner
  BY DEF IInv
<1> QED
  BY <1>1, EnginesInvariant, PTL

----------------------------------------------------------------------------
(* The end of an order *)

\* One market, one order: how a call announces the end of it.
AnnouncedOnce(e, f, o, own) ==
    /\ InStore(e, o) /\ ~InStore(f, o) <=> Tells(e, f, o)
    /\ own # "nobody" /\ ~InStore(e, o) => ~InStore(f, o)

\* Whatever happens between engine and exchange, an order leaves the store in
\* the step that announces its end, and only once (MarketEngine.cpp:287-326).
THEOREM EndIsAnnouncedOnce == Spec => EndAnnouncedOnce
<1>1. ASSUME IInv, Next, NEW n \in Markets, NEW o \in Orders
      PROVE  AnnouncedOnce(engines[n], engines'[n], o, owner[o])
  <2>1. PICK m \in Markets, e \in Engine :
            /\ Call(m, e) /\ StepOK(m, e)
            /\ \/ Shrinks(engines[m], e) /\ UNCHANGED owner
               \/ \E q \in Orders : /\ owner[q] = "nobody"
                                    /\ owner' = [owner EXCEPT ![q] = m]
                                    /\ \A p \in Orders : InStore(e, p) => p = q
    BY <1>1, NextCalls
  <2>2. /\ engines'[m] = e /\ engines[n] \in Engine
        /\ \A k \in Markets : k # m => engines'[k] = engines[k]
    BY <1>1, <2>1, CallEffect DEF IInv, TypeOK
  <2>3. CASE n = m
    <3>1. InStore(engines[n], o) /\ ~InStore(e, o) <=> Tells(engines[n], e, o)
      BY <2>1, <2>3 DEF StepOK, Announces
    <3>2. owner[o] # "nobody" /\ ~InStore(engines[n], o) => ~InStore(e, o)
      BY <2>1, <2>3 DEF Shrinks
    <3> QED
      BY <2>2, <2>3, <3>1, <3>2 DEF AnnouncedOnce
  <2>4. CASE n # m
    <3>1. engines'[n] = engines[n] /\ Len(engines[n].events) \in Nat
      BY <2>2, <2>4, EngineFields
    <3> QED
      BY <3>1 DEF AnnouncedOnce, Tells
  <2> QED
    BY <2>3, <2>4
<1>2. IInv /\ [Next]_vars =>
        [\A m \in Markets, o \in Orders :
          LET e == engines[m]
              f == engines'[m]
              announced == /\ Len(f.events) = Len(e.events) + 1
                           /\ f.events[Len(f.events)].kind = "status"
                           /\ f.events[Len(f.events)].order = o
          IN  /\ InStore(e, o) /\ ~InStore(f, o) <=> announced
              /\ owner[o] # "nobody" /\ ~InStore(e, o) => ~InStore(f, o)]_vars
  BY <1>1 DEF AnnouncedOnce, Tells
<1> QED
  BY <1>2, EnginesInvariant, PTL DEF Spec, EndAnnouncedOnce

----------------------------------------------------------------------------
(* The refinement of the abstract slot *)

\* The mapping's three functions, before and after a step.
SlotOfMarkets == [m \in Markets |-> SlotOf(engines[m])]

FreeOfMarkets == [m \in Markets |-> Free(engines[m])]

LockedOfMarkets == [m \in Markets |-> Locked(engines[m])]

\* A sound call is a step of the slot of its market, or none.
LEMMA CallIsSlotStep ==
    ASSUME IInv, NEW m \in Markets, NEW e \in Engine, Call(m, e), StepOK(m, e)
    PROVE  Slot!Next \/ UNCHANGED Slot!slotVars
<1> DEFINE s == SlotOfMarkets
           s2 == SlotOfMarkets'
           f == FreeOfMarkets
           f2 == FreeOfMarkets'
           l == LockedOfMarkets
           l2 == LockedOfMarkets'
<1>1. /\ engines'[m] = e
      /\ \A n \in Markets : n # m => engines'[n] = engines[n]
  BY CallEffect DEF IInv
<1>2. /\ s[m] = SlotOf(engines[m]) /\ s2[m] = SlotOf(e)
      /\ f[m] = Free(engines[m]) /\ f2[m] = Free(e)
      /\ l[m] = Locked(engines[m]) /\ l2[m] = Locked(e)
  BY <1>1 DEF SlotOfMarkets, FreeOfMarkets, LockedOfMarkets
<1>3. /\ s2 = [s EXCEPT ![m] = s2[m]]
      /\ f2 = [f EXCEPT ![m] = f2[m]]
      /\ l2 = [l EXCEPT ![m] = l2[m]]
  BY <1>1 DEF SlotOfMarkets, FreeOfMarkets, LockedOfMarkets
<1>4. /\ s = [n \in Markets |-> IF engines[n].buy # NoOrder THEN "buying"
                                ELSE IF engines[n].sell # NoOrder THEN "selling"
                                ELSE "idle"]
      /\ f = [n \in Markets |-> engines[n].wallet.available]
      /\ l = [n \in Markets |-> engines[n].wallet.reserved]
  BY DEF SlotOfMarkets, FreeOfMarkets, LockedOfMarkets, SlotOf, Free, Locked
<1>5. /\ s2 = [n \in Markets |-> IF engines'[n].buy # NoOrder THEN "buying"
                                 ELSE IF engines'[n].sell # NoOrder THEN "selling"
                                 ELSE "idle"]
      /\ f2 = [n \in Markets |-> engines'[n].wallet.available]
      /\ l2 = [n \in Markets |-> engines'[n].wallet.reserved]
  BY DEF SlotOfMarkets, FreeOfMarkets, LockedOfMarkets, SlotOf, Free, Locked
<1> HIDE DEF s, s2, f, f2, l, l2
<1>6. SlotStep(engines[m], e)
  BY DEF StepOK
<1>7. CASE FillStep(engines[m], e)
  <2>1. s2[m] = s[m]
    BY <1>2, <1>7 DEF FillStep
  <2>2. CASE f2[m] = f[m] /\ l2[m] = l[m]
    <3>1. s2 = s /\ f2 = f /\ l2 = l
      <4>1. /\ s = [s EXCEPT ![m] = s[m]] /\ f = [f EXCEPT ![m] = f[m]]
            /\ l = [l EXCEPT ![m] = l[m]]
        BY <1>4
      <4> QED
        BY <1>3, <2>1, <2>2, <4>1
    <3> QED
      BY <1>4, <1>5, <3>1 DEF Slot!slotVars
  <2>3. CASE s[m] = "buying" /\ f2[m] = f[m] /\ l2[m] \in 0..l[m]
    <3>1. Slot!Pay(m)
      BY <1>3, <1>4, <1>5, <2>1, <2>3 DEF Slot!Pay, Slot!Becomes
    <3> QED
      BY <3>1 DEF Slot!Next
  <2>4. CASE s[m] = "selling" /\ f2[m] >= f[m] /\ l2[m] = l[m]
    <3>1. Slot!Earn(m)
      BY <1>3, <1>4, <1>5, <2>1, <2>4 DEF Slot!Earn, Slot!Becomes
    <3> QED
      BY <3>1 DEF Slot!Next
  <2> QED
    BY <1>2, <1>7, <2>2, <2>3, <2>4 DEF FillStep
<1>8. CASE EndStep(engines[m], e)
  <2>1. s2[m] = "idle"
    BY <1>2, <1>8 DEF EndStep
  <2>2. CASE s[m] = "buying" /\ l2[m] = 0 /\ f2[m] - f[m] \in 0..l[m]
    <3>1. Slot!EndBuy(m)
      BY <1>3, <1>4, <1>5, <2>1, <2>2 DEF Slot!EndBuy, Slot!Becomes
    <3> QED
      BY <3>1 DEF Slot!Next
  <2>3. CASE s[m] = "selling" /\ f2[m] >= f[m] /\ l2[m] = l[m]
    <3>1. Slot!EndSell(m)
      BY <1>3, <1>4, <1>5, <2>1, <2>3 DEF Slot!EndSell, Slot!Becomes
    <3> QED
      BY <3>1 DEF Slot!Next
  <2> QED
    BY <1>2, <1>8, <2>2, <2>3 DEF EndStep
<1>9. CASE StartStep(engines[m], e)
  <2>1. s[m] = "idle"
    BY <1>2, <1>9 DEF StartStep
  <2>2. CASE s2[m] = "buying" /\ l2[m] \in 1..f[m] /\ f2[m] = f[m] - l2[m]
    <3>1. Slot!StartBuy(m)
      BY <1>3, <1>4, <1>5, <2>1, <2>2 DEF Slot!StartBuy, Slot!Becomes
    <3> QED
      BY <3>1 DEF Slot!Next
  <2>3. CASE s2[m] = "selling" /\ f2[m] = f[m] /\ l2[m] = l[m]
    <3>1. Slot!StartSell(m)
      BY <1>3, <1>4, <1>5, <2>1, <2>3 DEF Slot!StartSell, Slot!Becomes
    <3> QED
      BY <3>1 DEF Slot!Next
  <2> QED
    BY <1>2, <1>9, <2>2, <2>3 DEF StartStep
<1> QED
  BY <1>6, <1>7, <1>8, <1>9 DEF SlotStep

\* Every behaviour of the engines is a behaviour of the abstract slots: KRW
\* leaves a market only through its own reservation.
THEOREM EnginesImplementSlot == Spec => ImplementsSlot
<1>1. Init => Slot!Init
  <2> SUFFICES ASSUME Init PROVE Slot!Init
    OBVIOUS
  <2>1. IInv
    BY InitIInv
  <2>2. \A m \in Markets : engines[m].buy = NoOrder /\ engines[m].sell = NoOrder
    BY DEF Init, NewEngine
  <2>3. \A m \in Markets : engines[m].wallet.available \in Nat
                           /\ engines[m].wallet.reserved = 0
    <3> SUFFICES ASSUME NEW m \in Markets
                 PROVE  engines[m].wallet.available \in Nat
                        /\ engines[m].wallet.reserved = 0
      OBVIOUS
    <3>1. EngineOK(engines[m]) /\ SlotOf(engines[m]) = "idle"
      BY <2>1, <2>2 DEF IInv, SlotOf
    <3> QED
      BY <3>1, MoneyTypes DEF Free, Locked
  <2> QED
    BY <2>2, <2>3 DEF Slot!Init
<1>2. IInv /\ [Next]_vars => [Slot!Next]_(Slot!slotVars)
  <2> SUFFICES ASSUME IInv, [Next]_vars PROVE Slot!Next \/ UNCHANGED Slot!slotVars
    OBVIOUS
  <2>1. CASE Next
    BY <2>1, NextCalls, CallIsSlotStep
  <2>2. CASE UNCHANGED vars
    BY <2>2 DEF vars, Slot!slotVars
  <2> QED
    BY <2>1, <2>2
<1> QED
  BY <1>1, <1>2, EnginesInvariant, PTL DEF Spec, ImplementsSlot, Slot!Spec

----------------------------------------------------------------------------
(* What is repeated changes nothing *)

\* The trades seen after a new one.
Remember(q, t) == IF Len(q) + 1 > MaxSeen THEN Tail(Append(q, t)) ELSE Append(q, t)

\* A trade not seen before is the newest of the trades seen.
LEMMA OnMyTradeSeen ==
    ASSUME NEW e, EngineOK(e), NEW t \in Trade
    PROVE  LET f == OnMyTrade(e, t)
           IN  f.seen = IF Seen(e, t) THEN e.seen ELSE Remember(e.seen, t.id)
<1> DEFINE f == OnMyTrade(e, t)
           g == MarkTrade(e, t)
           ev == FillEvent(e, t)
           h == PushEvent(g, ev)
           w == SettleFill(e, t.order, t.vol, t.price, t.funds, t.fee)
<1>1. /\ e \in Engine /\ t.order \in Orders /\ t.vol \in Int /\ t.price \in Int
      /\ t.funds \in Int /\ t.fee \in Int
  BY DEF EngineOK, Trade
<1>2. g \in Engine /\ g.seen = Remember(e.seen, t.id)
  BY <1>1, MarkTradeFields DEF Remember
<1>3. CASE Seen(e, t)
  BY <1>3 DEF OnMyTrade
<1>4. CASE ~Seen(e, t) /\ ~InStore(e, t.order)
  <2>1. f = g
    BY <1>4 DEF OnMyTrade
  <2> HIDE DEF f, g
  <2> QED
    BY <1>2, <1>4, <2>1 DEF f
<1>5. CASE ~Seen(e, t) /\ InStore(e, t.order)
  <2>1. f = [h EXCEPT !.wallet = w]
    BY <1>5 DEF OnMyTrade
  <2>2. ev \in Event
    <3>1. e.store[t.order].side \in Sides
      BY <1>1, EngineFields DEF StoredOrder
    <3> QED
      BY <1>1, <3>1 DEF FillEvent, Event, Statuses, Effects
  <2>3. w \in Wallet
    BY <1>1, <1>5, SettleFillOK DEF WalletOK
  <2> HIDE DEF f, g, ev, w
  <2>4. h \in Engine /\ h.seen = g.seen
    BY <1>2, <2>2, PushEventFields
  <2> HIDE DEF h
  <2>5. f.seen = h.seen
    BY <2>1, <2>3, <2>4, SetWallet DEF SameLog
  <2> QED
    BY <1>2, <1>5, <2>4, <2>5 DEF f
<1> QED
  BY <1>3, <1>4, <1>5

\* The dedupe list q holds trade t.
Holds(q, t) == \E i \in 1..Len(q) : q[i] = t

\* The newest trade is the last one.
LEMMA RememberLast ==
    ASSUME NEW q \in Seq(Trades), NEW t \in Trades
    PROVE  /\ Remember(q, t) \in Seq(Trades)
           /\ Len(Remember(q, t)) >= 1
           /\ Remember(q, t)[Len(Remember(q, t))] = t
<1> DEFINE a == Append(q, t)
<1>1. /\ a \in Seq(Trades) /\ Len(a) = Len(q) + 1 /\ a[Len(a)] = t /\ a # <<>>
      /\ MaxSeen \in Nat /\ MaxSeen >= 1 /\ Len(q) \in Nat
  BY EngineAssumption
<1> HIDE DEF a
<1>2. CASE Len(q) + 1 > MaxSeen
  <2>1. Remember(q, t) = Tail(a)
    BY <1>2 DEF Remember, a
  <2>2. Tail(a) \in Seq(Trades) /\ Len(Tail(a)) = Len(q) /\ Len(q) >= 1
    BY <1>1, <1>2
  <2>3. Tail(a)[Len(q)] = a[Len(q) + 1]
    BY <1>1, <2>2
  <2> QED
    BY <1>1, <2>1, <2>2, <2>3
<1>3. CASE ~(Len(q) + 1 > MaxSeen)
  <2>1. Remember(q, t) = a
    BY <1>3 DEF Remember, a
  <2> QED
    BY <1>1, <2>1
<1> QED
  BY <1>2, <1>3

\* A dedupe list of at least two holds a trade beyond the next one.
LEMMA RememberKeeps ==
    ASSUME NEW q \in Seq(Trades), NEW t \in Trades, NEW u \in Trades, MaxSeen >= 2,
           Len(q) >= 1, q[Len(q)] = t
    PROVE  Holds(Remember(q, u), t)
<1> DEFINE a == Append(q, u)
           n == Len(q)
<1>1. /\ a \in Seq(Trades) /\ Len(a) = n + 1 /\ a[n] = t /\ a # <<>>
      /\ MaxSeen \in Nat /\ n \in Nat /\ n >= 1
  BY EngineAssumption
<1> HIDE DEF a, n
<1>2. CASE n + 1 > MaxSeen
  <2>1. Remember(q, u) = Tail(a)
    BY <1>2 DEF Remember, a, n
  <2>2. Len(Tail(a)) = n /\ n - 1 \in 1..n
    BY <1>1, <1>2
  <2>3. Tail(a)[n - 1] = a[n]
    BY <1>1, <2>2
  <2> QED
    BY <1>1, <2>1, <2>2, <2>3 DEF Holds
<1>3. CASE ~(n + 1 > MaxSeen)
  <2>1. Remember(q, u) = a
    BY <1>3 DEF Remember, a, n
  <2>2. n \in 1..(n + 1)
    BY <1>1
  <2> QED
    BY <1>1, <2>1, <2>2 DEF Holds
<1> QED
  BY <1>2, <1>3

\* A trade that the stream repeats is settled once, also when another trade
\* came in between at the dedupe limit (MarketEngine.cpp:627-646).
THEOREM TradesSettleOnce == Spec => []TradeSettledOnce
<1>1. IInv => TradeSettledOnce
  <2> SUFFICES ASSUME IInv, MaxSeen >= 2, NEW m \in Markets,
                      NEW t \in TradeMsgs, NEW u \in TradeMsgs, ~Seen(engines[m], t)
               PROVE  LET e == OnMyTrade(OnMyTrade(engines[m], t), u)
                      IN  OnMyTrade(e, t) = e
    BY DEF TradeSettledOnce
  <2> DEFINE x == engines[m]
             y == OnMyTrade(x, t)
             e == OnMyTrade(y, u)
  <2>1. t \in Trade /\ u \in Trade /\ t.id \in Trades /\ u.id \in Trades
    BY EnginesAssumption DEF Trade
  <2>2. EngineOK(x) /\ x.seen \in Seq(Trades)
    BY EngineFields DEF IInv, EngineOK
  <2>3. EngineOK(y)
    BY <2>1, <2>2, OnMyTradeOK
  <2>4. y.seen = Remember(x.seen, t.id)
    BY <2>1, <2>2, OnMyTradeSeen
  <2> HIDE DEF x, y
  <2>5. e.seen = IF Seen(y, u) THEN y.seen ELSE Remember(y.seen, u.id)
    BY <2>1, <2>3, OnMyTradeSeen
  <2>6. EngineOK(e)
    BY <2>1, <2>3, OnMyTradeOK
  <2> HIDE DEF e
  <2>7. y.seen \in Seq(Trades) /\ Len(y.seen) >= 1 /\ y.seen[Len(y.seen)] = t.id
    BY <2>1, <2>2, <2>4, RememberLast
  <2>8. Holds(e.seen, t.id)
    <3>1. CASE Seen(y, u)
      BY <2>5, <2>7, <3>1 DEF Holds
    <3>2. CASE ~Seen(y, u)
      BY <2>1, <2>5, <2>7, <3>2, RememberKeeps
    <3> QED
      BY <3>1, <3>2
  <2>9. Seen(e, t)
    <3>1. e.seen \in Seq(Trades)
      BY <2>6, EngineFields DEF EngineOK
    <3> QED
      BY <2>8, <3>1 DEF Seen, Holds
  <2> QED
    BY <2>9 DEF OnMyTrade, e, y, x
<1> QED
  BY <1>1, EnginesInvariant, PTL

\* A report applied twice leaves the store as it was after the first time.
LEMMA SyncTwice ==
    ASSUME NEW e \in Engine, NEW s \in Snapshot
    PROVE  SyncFields(SyncFields(e, s), s) = SyncFields(e, s)
<1> DEFINE f == SyncFields(e, s)
           rec == f.store[s.order]
           rec2 == [rec EXCEPT !.status = s.status, !.vol = s.vol,
                               !.funds = s.funds, !.fee = s.fee]
           st == [f.store EXCEPT ![s.order] = rec2]
<1>1. f \in Engine /\ s.order \in Orders
  BY SyncFieldsFields DEF Snapshot
<1>2. /\ rec.status = s.status /\ rec.vol = s.vol /\ rec.funds = s.funds /\ rec.fee = s.fee
  BY SyncFieldsFields
<1>3. SyncFields(f, s) = [f EXCEPT !.store = st]
  BY DEF SyncFields
<1> HIDE DEF f
<1>4. f.store \in [Orders -> StoredOrder] /\ rec \in StoredOrder
  BY <1>1, EngineFields
<1> HIDE DEF rec
<1>5. rec2 = rec
  BY <1>2, <1>4 DEF StoredOrder
<1> HIDE DEF rec2
<1>6. st = f.store
  BY <1>1, <1>4, <1>5 DEF rec
<1> HIDE DEF st
<1>7. [f EXCEPT !.store = st] = f
  BY <1>1, <1>6 DEF Engine
<1> QED
  BY <1>3, <1>7 DEF f

\* reconcileFromSnapshot may be retried with the same report at any time: the
\* second call settles nothing (MarketEngine.h:69).
THEOREM RetriedReconcileIsIdle == Spec => []ReconcileIdempotent
<1>1. ASSUME NEW e, EngineOK(e), NEW s \in Snapshot
      PROVE  LET once == ReconcileFromSnapshot(e, s)
             IN  ReconcileFromSnapshot(once, s) = once
  <2> DEFINE f == ReconcileFromSnapshot(e, s)
             o == s.order
             d == ReconcileSettled(e, s)
  <2>1. CASE ~CanReconcile(e, s)
    <3>1. f = e
      BY <2>1 DEF ReconcileFromSnapshot
    <3> QED
      BY <3>1
  <2>2. CASE CanReconcile(e, s)
    <3>1. f = OnOrderSnapshot(d, s) /\ InStore(e, o)
      BY <2>2 DEF ReconcileFromSnapshot, ReconcileSettled, CanReconcile
    <3>2. EngineOK(d) /\ d.store = e.store
      BY <1>1, <3>1, SettledOK
    <3>3. d \in Engine /\ InStore(d, o) /\ s.vol \in Int /\ s.status \in Statuses
      BY <1>1, <3>1, <3>2 DEF EngineOK, InStore, Snapshot
    <3> HIDE DEF d
    <3>4. CASE s.status \in Terminal
      <4>1. ~InStore(f, o)
        BY <1>1, <3>1, <3>2, <3>4, OnOrderSnapshotOK
      <4> QED
        BY <4>1 DEF ReconcileFromSnapshot, CanReconcile
    <3>5. CASE s.status \notin Terminal
      <4>1. f = SyncFields(d, s)
        BY <3>1, <3>3, <3>5 DEF OnOrderSnapshot
      <4>2. f.store[o].status = s.status /\ f.store[o].vol = s.vol
        BY <1>1, <3>3, <4>1, SyncFieldsFields
      <4>3. SyncFields(f, s) = f
        BY <1>1, <3>3, <4>1, SyncTwice
      <4> HIDE DEF f
      <4>4. InStore(f, o)
        BY <3>3, <4>2 DEF InStore, Statuses
      <4>5. DeltaVol(f, s) = 0
        BY <3>3, <4>2 DEF DeltaVol, Positive
      <4>6. CanReconcile(f, s)
        BY <4>4, <4>5 DEF CanReconcile
      <4>7. ReconcileFromSnapshot(f, s) = OnOrderSnapshot(f, s)
        BY <4>5, <4>6 DEF ReconcileFromSnapshot
      <4>8. OnOrderSnapshot(f, s) = f
        BY <3>5, <4>3, <4>4 DEF OnOrderSnapshot
      <4> QED
        BY <4>7, <4>8 DEF f
    <3> QED
      BY <3>4, <3>5
  <2> QED
    BY <2>1, <2>2
<1>2. IInv => ReconcileIdempotent
  BY <1>1, EnginesAssumption DEF IInv, ReconcileIdempotent
<1> QED
  BY <1>2, EnginesInvariant, PTL

============================================================================
