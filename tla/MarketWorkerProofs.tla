------------------------- MODULE MarketWorkerProofs -------------------------
(***************************************************************************)
(* One market at run time, for any account, candles, fills and faults: the *)
(* strategy and the engine never lose each other, every order that left the *)
(* engine's books is recorded, and the books agree with the exchange.      *)
(*                                                                         *)
(* IInv, the invariant of the control, has one part per pair of actors:    *)
(* strategy and engine (AgreeOK), engine and database (RecordsOK), queue and *)
(* exchange (QueueOK).  The engine's methods are known by what             *)
(* MarketEngineProofs says of them: they are Quiet, or one order Ends.     *)
(* JInv adds the amounts (AmountsOK): what is reported is never ahead of the *)
(* exchange (FlowOK), what the strategy believes is what the wallet holds  *)
(* (PositionOK), and what the books still lack is on its way (BooksOK).    *)
(***************************************************************************)
EXTENDS MarketWorker, MarketEngineProofs

\* Event i of the list is the end of an order.
EndAt(events, i) == events[i].kind = "status"

Telling(events, o) == \E i \in 1..Len(events) : EndAt(events, i) /\ events[i].order = o

OneEnd(events) ==
    \A i, j \in 1..Len(events) : EndAt(events, i) /\ EndAt(events, j) => i = j

\* StrategyEngineAgree, and at most one end is on its way, of an order that the
\* engine has closed.
AgreeOK(s, e) ==
    /\ s \in Strategy
    /\ \A o \in Orders : s.pending = o <=> (o \in {e.buy, e.sell} \/ Telling(e.events, o))
    /\ s.pending = NoOrder <=> s.state \in {"Flat", "InPosition"}
    /\ e.buy # NoOrder => s.state = "PendingEntry"
    /\ e.sell # NoOrder => s.state = "PendingExit"
    /\ \A i \in 1..Len(e.events) : EndAt(e.events, i) =>
           e.events[i].status \in Terminal /\ e.buy = NoOrder /\ e.sell = NoOrder
    /\ OneEnd(e.events)

Ended(x, o) == x[o].state \in {"done", "cancel"}

\* EndedIsRecorded, and the engine's orders were placed on the exchange.
RecordsOK(e, d, p, x) ==
    /\ d \subseteq Orders /\ p \subseteq Orders
    /\ \A o \in p : o \in d <=> ~InStore(e, o)
    /\ \A o \in d : Ended(x, o)
    /\ \A o \in Orders : InStore(e, o) => x[o].state # "none"

\* A queued end is one of an ended order, a queued trade one that is possible.
QueueOK(q, x) ==
    /\ q \in Seq(Message)
    /\ \A i \in 1..Len(q) :
           /\ q[i].state \in {"done", "cancel"} => Ended(x, q[i].order)
           /\ q[i].state = "trade" => <<q[i].order, q[i].vol>> \in Trades

IInv ==
    /\ EngineOK(engine)
    /\ AgreeOK(strategy, engine)
    /\ RecordsOK(engine, db, placed, ex)
    /\ QueueOK(queue, ex)
    /\ ex \in [Orders -> ExOrder]
    /\ candle \in Nat

----------------------------------------------------------------------------
(* The list of events *)

\* Appending an event: the old ones stay where they are.
LEMMA AppendEvent ==
    ASSUME NEW q \in Seq(Event), NEW ev \in Event
    PROVE  LET r == Append(q, ev)
           IN  /\ Len(r) = Len(q) + 1 /\ Len(q) \in Nat
               /\ \A i \in 1..Len(q) : r[i] = q[i]
               /\ r[Len(q) + 1] = ev
OBVIOUS

\* Taking the first event off: the others move down by one.
LEMMA TailEvent ==
    ASSUME NEW q \in Seq(Event), q # <<>>
    PROVE  /\ Tail(q) \in Seq(Event) /\ Len(q) \in Nat /\ Len(q) > 0
           /\ Head(q) = q[1] /\ Head(q) \in Event
           /\ Len(Tail(q)) = Len(q) - 1
           /\ \A i \in 1..Len(Tail(q)) : Tail(q)[i] = q[i + 1]
OBVIOUS

\* A fill tells of no end.
LEMMA AppendFill ==
    ASSUME NEW q \in Seq(Event), NEW ev \in Event, ev.kind = "fill"
    PROVE  LET r == Append(q, ev)
           IN  /\ \A i \in 1..Len(r) : EndAt(r, i) =>
                      i \in 1..Len(q) /\ EndAt(q, i) /\ r[i] = q[i]
               /\ \A o \in Orders : Telling(r, o) <=> Telling(q, o)
<1> DEFINE r == Append(q, ev)
<1>1. /\ Len(r) = Len(q) + 1 /\ Len(q) \in Nat
      /\ \A i \in 1..Len(q) : r[i] = q[i]
      /\ r[Len(q) + 1] = ev
  BY AppendEvent
<1> HIDE DEF r
<1>2. \A i \in 1..Len(r) : EndAt(r, i) => i \in 1..Len(q) /\ EndAt(q, i) /\ r[i] = q[i]
  BY <1>1 DEF EndAt
<1>3. \A o \in Orders : Telling(r, o) <=> Telling(q, o)
  BY <1>1, <1>2 DEF Telling, EndAt
<1> QED
  BY <1>2, <1>3 DEF r

\* The end of an order is the only end of a list that had none.
LEMMA AppendEnd ==
    ASSUME NEW q \in Seq(Event), NEW ev \in Event, ev.kind = "status",
           \A i \in 1..Len(q) : ~EndAt(q, i)
    PROVE  LET r == Append(q, ev)
           IN  /\ \A i \in 1..Len(r) : EndAt(r, i) => i = Len(q) + 1 /\ r[i] = ev
               /\ \A o \in Orders : Telling(r, o) <=> o = ev.order
<1> DEFINE r == Append(q, ev)
<1>1. /\ Len(r) = Len(q) + 1 /\ Len(q) \in Nat
      /\ \A i \in 1..Len(q) : r[i] = q[i]
      /\ r[Len(q) + 1] = ev
  BY AppendEvent
<1> HIDE DEF r
<1>2. \A i \in 1..Len(r) : EndAt(r, i) => i = Len(q) + 1 /\ r[i] = ev
  BY <1>1 DEF EndAt
<1>3. Len(q) + 1 \in 1..Len(r) /\ EndAt(r, Len(q) + 1)
  BY <1>1 DEF EndAt
<1>4. \A o \in Orders : Telling(r, o) <=> o = ev.order
  BY <1>1, <1>2, <1>3 DEF Telling
<1> QED
  BY <1>2, <1>4 DEF r

\* The ends that are left once the first event is taken off.
LEMMA TailEnds ==
    ASSUME NEW q \in Seq(Event), q # <<>>, OneEnd(q), NEW r, r = Tail(q)
    PROVE  /\ \A i \in 1..Len(r) : EndAt(r, i) =>
                  i + 1 \in 1..Len(q) /\ EndAt(q, i + 1) /\ r[i] = q[i + 1]
           /\ OneEnd(r)
           /\ q[1].kind = "status" => \A i \in 1..Len(r) : ~EndAt(r, i)
           /\ q[1].kind # "status" => \A o \in Orders : Telling(r, o) <=> Telling(q, o)
<1>1. /\ Len(q) \in Nat /\ Len(q) > 0 /\ Len(r) = Len(q) - 1
      /\ \A i \in 1..Len(r) : r[i] = q[i + 1]
  BY TailEvent
<1>2. \A i \in 1..Len(r) : EndAt(r, i) => i + 1 \in 1..Len(q) /\ EndAt(q, i + 1) /\ r[i] = q[i + 1]
  BY <1>1 DEF EndAt
<1>3. OneEnd(r)
  <2> SUFFICES ASSUME NEW i \in 1..Len(r), NEW j \in 1..Len(r), EndAt(r, i), EndAt(r, j)
               PROVE  i = j
    BY DEF OneEnd
  <2>1. i + 1 = j + 1
    BY <1>2 DEF OneEnd
  <2> QED
    BY <1>1, <2>1
<1>4. ASSUME q[1].kind = "status", NEW i \in 1..Len(r), EndAt(r, i)
      PROVE  FALSE
  <2>1. 1 \in 1..Len(q) /\ EndAt(q, 1) /\ i + 1 \in 1..Len(q) /\ EndAt(q, i + 1)
    BY <1>1, <1>2, <1>4 DEF EndAt
  <2>2. i + 1 = 1
    BY <2>1 DEF OneEnd
  <2> QED
    BY <1>1, <2>2
<1>5. ASSUME q[1].kind # "status", NEW o \in Orders
      PROVE  Telling(r, o) <=> Telling(q, o)
  <2>1. ASSUME Telling(r, o) PROVE Telling(q, o)
    BY <1>2, <2>1 DEF Telling
  <2>2. ASSUME Telling(q, o) PROVE Telling(r, o)
    <3>1. PICK i \in 1..Len(q) : EndAt(q, i) /\ q[i].order = o
      BY <2>2 DEF Telling
    <3>2. i # 1
      BY <1>5, <3>1 DEF EndAt
    <3>3. i - 1 \in 1..Len(r) /\ r[i - 1] = q[i]
      BY <1>1, <3>1, <3>2
    <3>4. EndAt(r, i - 1) /\ r[i - 1].order = o
      BY <3>1, <3>3 DEF EndAt
    <3> QED
      BY <3>3, <3>4 DEF Telling
  <2> QED
    BY <2>1, <2>2
<1> QED
  BY <1>2, <1>3, <1>4, <1>5

----------------------------------------------------------------------------
(* The strategy *)

\* The fields of a strategy.
LEMMA StrategyFields ==
    ASSUME NEW s \in Strategy
    PROVE  /\ s.state \in States /\ s.pending \in Orders \cup {NoOrder} /\ s.entry \in Int
           /\ s.filled \in Int /\ s.cost \in Int /\ s.last \in Int
BY DEF Strategy

\* The shapes of update the strategy makes; the provers meet them by name.
SetDecided(s, state, o) == [s EXCEPT !.state = state, !.pending = o]

SetPosition(s, state, entry) == [s EXCEPT !.state = state, !.entry = entry]

SetFills(s, last, filled, cost) ==
    [s EXCEPT !.last = last, !.filled = filled, !.cost = cost]

\* The fields of a strategy that starts to wait.
LEMMA SetDecidedType ==
    ASSUME NEW s \in Strategy, NEW state \in States, NEW o \in Orders \cup {NoOrder}
    PROVE  LET t == SetDecided(s, state, o)
           IN  t \in Strategy /\ t.state = state /\ t.pending = o
BY DEF Strategy, SetDecided

\* The fields of a strategy whose position changes.
LEMMA SetPositionType ==
    ASSUME NEW s \in Strategy, NEW state \in States, NEW entry \in Int
    PROVE  LET t == SetPosition(s, state, entry)
           IN  t \in Strategy /\ t.state = state /\ t.pending = s.pending
BY DEF Strategy, SetPosition

\* The fields of a strategy that counts a fill.
LEMMA SetFillsType ==
    ASSUME NEW s \in Strategy, NEW last \in Int, NEW filled \in Int, NEW cost \in Int
    PROVE  LET t == SetFills(s, last, filled, cost)
           IN  t \in Strategy /\ t.state = s.state /\ t.pending = s.pending
BY DEF Strategy, SetFills

\* The fills are forgotten.
LEMMA ClearFillsFields ==
    ASSUME NEW s \in Strategy
    PROVE  LET t == ClearFills(s)
           IN  t \in Strategy /\ t.state = s.state /\ t.pending = s.pending
<1>1. ASSUME NEW z \in Int
      PROVE  LET t == [s EXCEPT !.filled = z, !.cost = z, !.last = z]
             IN  t \in Strategy /\ t.state = s.state /\ t.pending = s.pending
  BY DEF Strategy
<1>2. ClearFills(s) = [s EXCEPT !.filled = 0, !.cost = 0, !.last = 0]
  BY DEF ClearFills
<1>3. LET t == [s EXCEPT !.filled = 0, !.cost = 0, !.last = 0]
      IN  t \in Strategy /\ t.state = s.state /\ t.pending = s.pending
  <2>1. 0 \in Int
    OBVIOUS
  <2> QED
    BY <1>1, <2>1, Zenon
<1> QED
  BY <1>2, <1>3

\* The pending order is forgotten.
LEMMA ClearPendingFields ==
    ASSUME NEW s \in Strategy
    PROVE  LET t == ClearPending(s)
           IN  t \in Strategy /\ t.state = s.state /\ t.pending = NoOrder
<1> DEFINE u == ClearFills(s)
<1>1. u \in Strategy /\ u.state = s.state
  BY ClearFillsFields
<1>2. ClearPending(s) = [u EXCEPT !.pending = NoOrder]
  BY DEF ClearPending
<1> HIDE DEF u
<1> QED
  BY <1>1, <1>2 DEF Strategy

\* The strategy goes back to the state before its order.
LEMMA RollbackFields ==
    ASSUME NEW s \in Strategy
    PROVE  LET t == Rollback(s)
           IN  /\ t \in Strategy /\ t.pending = s.pending
               /\ t.state \in {"Flat", "InPosition"}
BY DEF Strategy, Rollback, States

\* A decision for an order of the right side.
LEMMA DecidedFields ==
    ASSUME NEW s \in Strategy, NEW o \in Orders
    PROVE  /\ Enter(s, o) \in Strategy /\ Enter(s, o).state = "PendingEntry"
           /\ Enter(s, o).pending = o
           /\ Exit(s, o) \in Strategy /\ Exit(s, o).state = "PendingExit"
           /\ Exit(s, o).pending = o
<1> DEFINE u == ClearFills(s)
<1>1. u \in Strategy
  BY ClearFillsFields
<1>2. /\ Enter(s, o) = SetDecided(u, "PendingEntry", o)
      /\ Exit(s, o) = SetDecided(u, "PendingExit", o)
  BY DEF Enter, Exit, SetDecided
<1>3. "PendingEntry" \in States /\ "PendingExit" \in States
  BY DEF States
<1> HIDE DEF u
<1> QED
  BY <1>1, <1>2, <1>3, SetDecidedType

\* A failed submit takes the decision back.
LEMMA FailedFields ==
    ASSUME NEW s \in Strategy, s.pending # NoOrder
    PROVE  LET t == OnSubmitFailed(s)
           IN  /\ t \in Strategy /\ t.pending = NoOrder
               /\ t.state \in {"Flat", "InPosition"}
BY RollbackFields, ClearPendingFields DEF OnSubmitFailed

\* The repair of the position leaves the pending order alone.
LEMMA SelfHealFields ==
    ASSUME NEW s \in Strategy, NEW coin \in Int, NEW close \in Int
    PROVE  LET t == SelfHeal(s, coin, close)
           IN  /\ t \in Strategy /\ t.pending = s.pending
               /\ t = s \/ (/\ s.state \in {"Flat", "InPosition"}
                            /\ t.state \in {"Flat", "InPosition"})
<1> DEFINE t == SelfHeal(s, coin, close)
<1>1. \/ t = s
      \/ s.state = "Flat" /\ t = SetPosition(s, "InPosition", close)
      \/ s.state = "InPosition" /\ t = SetPosition(s, "Flat", 0)
  BY DEF SelfHeal, SetPosition
<1> HIDE DEF t
<1>2. "InPosition" \in States /\ "Flat" \in States /\ 0 \in Int
  BY DEF States
<1>3. CASE t = s
  BY <1>3 DEF t
<1>4. CASE s.state = "Flat" /\ t = SetPosition(s, "InPosition", close)
  BY <1>2, <1>4, SetPositionType DEF t
<1>5. CASE s.state = "InPosition" /\ t = SetPosition(s, "Flat", 0)
  <2>1. t \in Strategy /\ t.state = "Flat" /\ t.pending = s.pending
    BY <1>2, <1>5, SetPositionType
  <2> QED
    BY <1>5, <2>1 DEF t
<1> QED
  BY <1>1, <1>3, <1>4, <1>5

\* A fill is counted.
LEMMA OnFillFields ==
    ASSUME NEW s \in Strategy, NEW ev \in Event
    PROVE  LET t == OnFill(s, ev)
           IN  t \in Strategy /\ t.pending = s.pending /\ t.state = s.state
<1> DEFINE t == OnFill(s, ev)
           filled == IF ev.vol > 0 THEN s.filled + ev.vol ELSE s.filled
           cost == IF ev.vol > 0 THEN s.cost + ev.price * ev.vol ELSE s.cost
<1>1. ev.price \in Int /\ ev.vol \in Int
  BY DEF Event
<1>2. filled \in Int /\ cost \in Int
  <2>1. ev.price * ev.vol \in Int
    BY <1>1
  <2> QED
    BY <1>1, <2>1, StrategyFields
<1>3. t = s \/ t = SetFills(s, ev.price, filled, cost)
  BY DEF OnFill, SetFills, Strategy
<1> HIDE DEF t, filled, cost
<1> QED
  BY <1>1, <1>2, <1>3, SetFillsType DEF t

\* The price of an ended order is a number.
LEMMA FinalPriceType ==
    ASSUME NEW s \in Strategy, NEW ev \in Event
    PROVE  FinalPrice(s, ev) \in Int
<1>1. ev.funds \in Int /\ ev.vol \in Int
  BY DEF Event
<1>2. s.cost \in Int /\ s.filled \in Int /\ s.last \in Int
  BY StrategyFields
<1>3. s.filled > 0 => s.cost \div s.filled \in Int
  BY <1>2, QuotientType
<1>4. ev.vol > 0 => ev.funds \div ev.vol \in Int
  BY <1>1, QuotientType
<1> QED
  BY <1>2, <1>3, <1>4 DEF FinalPrice

\* The end of the pending order releases the strategy.
LEMMA OnOrderUpdateFields ==
    ASSUME NEW s \in Strategy, NEW ev \in Event, s.pending = ev.order,
           ev.status \in Terminal
    PROVE  LET t == OnOrderUpdate(s, ev)
           IN  /\ t \in Strategy /\ t.pending = NoOrder
               /\ t.state \in {"Flat", "InPosition"}
<1> DEFINE price == IF FinalPrice(s, ev) > 0 THEN FinalPrice(s, ev) ELSE s.entry
           t == OnOrderUpdate(s, ev)
           u == IF s.state = "PendingEntry" /\ ev.effect = "Opened"
                THEN SetPosition(s, "InPosition", price)
                ELSE IF s.state = "PendingExit" /\ ev.effect = "Closed"
                THEN SetPosition(s, "Flat", 0)
                ELSE Rollback(s)
<1>1. t = ClearPending(u)
  BY DEF OnOrderUpdate, SetPosition, Strategy
<1>2. price \in Int
  BY FinalPriceType, StrategyFields
<1>3. "InPosition" \in States /\ "Flat" \in States /\ 0 \in Int
  BY DEF States
<1> HIDE DEF t, price
<1>4. u \in Strategy /\ u.state \in {"Flat", "InPosition"}
  BY <1>2, <1>3, SetPositionType, RollbackFields
<1> HIDE DEF u
<1> QED
  BY <1>1, <1>4, ClearPendingFields DEF t

----------------------------------------------------------------------------
(* Strategy and engine *)

\* An engine call that ends no order.
LEMMA AgreeQuiet ==
    ASSUME NEW s, NEW e \in Engine, NEW f \in Engine, AgreeOK(s, e), Quiet(e, f)
    PROVE  AgreeOK(s, f)
<1>1. e.events \in Seq(Event) /\ f.buy = e.buy /\ f.sell = e.sell
  BY EngineFields DEF Quiet
<1>2. CASE f.events = e.events
  BY <1>1, <1>2 DEF AgreeOK
<1>3. CASE \E ev \in Event : ev.kind = "fill" /\ f.events = Append(e.events, ev)
  <2>1. /\ \A i \in 1..Len(f.events) : EndAt(f.events, i) =>
               i \in 1..Len(e.events) /\ EndAt(e.events, i) /\ f.events[i] = e.events[i]
        /\ \A o \in Orders : Telling(f.events, o) <=> Telling(e.events, o)
    BY <1>1, <1>3, AppendFill
  <2>2. OneEnd(f.events)
    BY <2>1 DEF AgreeOK, OneEnd
  <2> QED
    BY <1>1, <2>1, <2>2 DEF AgreeOK
<1> QED
  BY <1>2, <1>3 DEF Quiet

\* The active order ends: the strategy goes on waiting for it until it is told.
LEMMA AgreeEnds ==
    ASSUME NEW s, NEW e \in Engine, NEW f \in Engine, NEW o \in Orders,
           AgreeOK(s, e), e.buy = NoOrder \/ e.sell = NoOrder, Ends(e, f, o)
    PROVE  AgreeOK(s, f)
<1>1. e.events \in Seq(Event) /\ o # NoOrder
  BY EngineFields, EngineAssumption
<1>2. PICK ev \in Event : /\ ev.kind = "status" /\ ev.order = o /\ ev.status \in Terminal
                          /\ f.events = Append(e.events, ev)
  BY DEF Ends
<1>3. o \in {e.buy, e.sell} /\ f.buy = NoOrder /\ f.sell = NoOrder
  BY DEF Ends
<1>4. \A i \in 1..Len(e.events) : ~EndAt(e.events, i)
  BY <1>1, <1>3 DEF AgreeOK
<1>5. /\ \A i \in 1..Len(f.events) :
             EndAt(f.events, i) => i = Len(e.events) + 1 /\ f.events[i] = ev
      /\ \A p \in Orders : Telling(f.events, p) <=> p = o
  BY <1>1, <1>2, <1>4, AppendEnd
<1>6. s.pending = o
  BY <1>3 DEF AgreeOK
<1>7. \A p \in Orders : s.pending = p <=> (p \in {f.buy, f.sell} \/ Telling(f.events, p))
  BY <1>3, <1>5, <1>6, EngineAssumption
<1>8. \A i \in 1..Len(f.events) : EndAt(f.events, i) => f.events[i].status \in Terminal
  BY <1>2, <1>5
<1>9. OneEnd(f.events)
  BY <1>5 DEF OneEnd
<1> QED
  BY <1>3, <1>7, <1>8, <1>9 DEF AgreeOK

\* A strategy that waits for nothing: the engine has nothing active and nothing
\* to tell.
LEMMA AgreeIdle ==
    ASSUME NEW s, NEW e \in Engine, AgreeOK(s, e), s.state \in {"Flat", "InPosition"}
    PROVE  /\ s.pending = NoOrder /\ e.buy = NoOrder /\ e.sell = NoOrder
           /\ \A i \in 1..Len(e.events) : ~EndAt(e.events, i)
           /\ \A o \in Orders : ~Telling(e.events, o)
<1>1. s.pending = NoOrder /\ \A o \in Orders : s.pending # o
  BY EngineAssumption DEF AgreeOK
<1>2. \A o \in Orders : o # e.buy /\ o # e.sell /\ ~Telling(e.events, o)
  BY <1>1 DEF AgreeOK
<1>3. e.buy = NoOrder /\ e.sell = NoOrder
  BY <1>2, EngineFields
<1>4. \A i \in 1..Len(e.events) : ~EndAt(e.events, i)
  <2> SUFFICES ASSUME NEW i \in 1..Len(e.events), EndAt(e.events, i) PROVE FALSE
    OBVIOUS
  <2>1. e.events[i] \in Event
    BY EngineFields
  <2>2. e.events[i].order \in Orders
    BY <2>1 DEF Event
  <2>3. Telling(e.events, e.events[i].order)
    BY DEF Telling
  <2> QED
    BY <1>2, <2>2, <2>3
<1> QED
  BY <1>1, <1>2, <1>3, <1>4

\* A strategy and an engine that both wait for nothing agree.
LEMMA IdleAgree ==
    ASSUME NEW s \in Strategy, NEW e \in Engine, s.pending = NoOrder,
           s.state \in {"Flat", "InPosition"}, e.buy = NoOrder, e.sell = NoOrder,
           \A i \in 1..Len(e.events) : ~EndAt(e.events, i)
    PROVE  AgreeOK(s, e)
<1>1. \A o \in Orders : ~Telling(e.events, o) /\ o # NoOrder
  BY EngineAssumption DEF Telling
<1>2. OneEnd(e.events)
  BY DEF OneEnd
<1> QED
  BY <1>1, <1>2 DEF AgreeOK

\* The repair of the position.
LEMMA AgreeHeal ==
    ASSUME NEW s, NEW e \in Engine, AgreeOK(s, e), NEW coin \in Int, NEW close \in Int
    PROVE  AgreeOK(SelfHeal(s, coin, close), e)
<1> DEFINE t == SelfHeal(s, coin, close)
<1>1. s \in Strategy
  BY DEF AgreeOK
<1>2. /\ t \in Strategy /\ t.pending = s.pending
      /\ t = s \/ (/\ s.state \in {"Flat", "InPosition"}
                   /\ t.state \in {"Flat", "InPosition"})
  BY <1>1, SelfHealFields
<1> HIDE DEF t
<1>3. CASE t = s
  BY <1>3 DEF t
<1>4. CASE s.state \in {"Flat", "InPosition"} /\ t.state \in {"Flat", "InPosition"}
  <2>1. AgreeOK(t, e)
    BY <1>2, <1>4, AgreeIdle, IdleAgree
  <2> QED
    BY <2>1 DEF t
<1> QED
  BY <1>2, <1>3, <1>4

\* One event is delivered.
LEMMA AgreeDeliver ==
    ASSUME NEW s, NEW e \in Engine, AgreeOK(s, e), e.events # <<>>,
           NEW f \in Engine, f.events = Tail(e.events), f.buy = e.buy, f.sell = e.sell
    PROVE  AgreeOK(Deliver(s, Head(e.events)), f)
<1> DEFINE q == e.events
           ev == Head(q)
           t == Deliver(s, ev)
<1>1. s \in Strategy /\ q \in Seq(Event)
  BY EngineFields DEF AgreeOK
<1>2. /\ ev = q[1] /\ ev \in Event /\ Len(q) \in Nat /\ Len(q) > 0
  BY <1>1, TailEvent
<1>3. /\ \A i \in 1..Len(f.events) : EndAt(f.events, i) =>
             i + 1 \in 1..Len(q) /\ EndAt(q, i + 1) /\ f.events[i] = q[i + 1]
      /\ OneEnd(f.events)
      /\ q[1].kind = "status" => \A i \in 1..Len(f.events) : ~EndAt(f.events, i)
      /\ q[1].kind # "status" => \A o \in Orders : Telling(f.events, o) <=> Telling(q, o)
  <2>1. OneEnd(q)
    BY DEF AgreeOK
  <2>2. f.events = Tail(q) /\ q # <<>>
    OBVIOUS
  <2> HIDE DEF q
  <2> QED
    BY <1>1, <2>1, <2>2, TailEnds, Zenon
<1> HIDE DEF q, ev
<1>4. CASE ev.kind = "fill"
  <2>1. t = OnFill(s, ev)
    BY <1>4 DEF Deliver
  <2>2. t \in Strategy /\ t.pending = s.pending /\ t.state = s.state
    BY <1>1, <1>2, <2>1, OnFillFields
  <2> HIDE DEF t
  <2>3. \A o \in Orders : Telling(f.events, o) <=> Telling(q, o)
    BY <1>2, <1>3, <1>4
  <2>4. \A i \in 1..Len(f.events) : EndAt(f.events, i) =>
            f.events[i].status \in Terminal /\ f.buy = NoOrder /\ f.sell = NoOrder
    BY <1>3 DEF AgreeOK, q
  <2>5. \A o \in Orders : t.pending = o <=> (o \in {f.buy, f.sell} \/ Telling(f.events, o))
    BY <2>2, <2>3 DEF AgreeOK, q
  <2>6. AgreeOK(t, f)
    BY <1>3, <2>2, <2>4, <2>5 DEF AgreeOK
  <2> QED
    BY <2>6 DEF t, ev, q
<1>5. CASE ev.kind # "fill"
  <2>1. t = OnOrderUpdate(s, ev) /\ ev.kind = "status" /\ ev.order \in Orders
    BY <1>2, <1>5 DEF Deliver, Event
  <2>2. 1 \in 1..Len(q) /\ EndAt(q, 1)
    BY <1>2, <2>1 DEF EndAt
  <2>3. ev.status \in Terminal /\ e.buy = NoOrder /\ e.sell = NoOrder
    BY <1>2, <2>2 DEF AgreeOK, q
  <2>4. Telling(q, ev.order)
    BY <1>2, <2>2 DEF Telling
  <2>5. s.pending = ev.order
    BY <2>1, <2>4 DEF AgreeOK, q
  <2>6. t \in Strategy /\ t.pending = NoOrder /\ t.state \in {"Flat", "InPosition"}
    BY <1>1, <1>2, <2>1, <2>3, <2>5, OnOrderUpdateFields
  <2> HIDE DEF t
  <2>7. \A i \in 1..Len(f.events) : ~EndAt(f.events, i)
    BY <1>2, <1>3, <2>1
  <2>8. AgreeOK(t, f)
    BY <2>3, <2>6, <2>7, IdleAgree
  <2> QED
    BY <2>8 DEF t, ev, q
<1> QED
  BY <1>4, <1>5

\* An accepted order: strategy and engine both wait for it.
LEMMA AgreeAccepted ==
    ASSUME NEW s, NEW e, EngineOK(e), AgreeOK(s, e), s.state \in {"Flat", "InPosition"},
           NEW r \in Request, CanSubmit(e, r), NEW o \in Orders,
           NEW t \in Strategy, t.pending = o,
           t.state = IF r.side = "BID" THEN "PendingEntry" ELSE "PendingExit"
    PROVE  AgreeOK(t, SubmitAccepted(e, r, o))
<1> DEFINE f == SubmitAccepted(e, r, o)
<1>1. e \in Engine /\ o # NoOrder
  BY EngineAssumption DEF EngineOK
<1>2. /\ f.buy = (IF r.side = "BID" THEN o ELSE NoOrder)
      /\ f.sell = (IF r.side = "BID" THEN NoOrder ELSE o)
      /\ f.events = e.events
  BY SubmitAcceptedOK
<1> HIDE DEF f
<1>3. /\ \A i \in 1..Len(e.events) : ~EndAt(e.events, i)
      /\ \A p \in Orders : ~Telling(e.events, p)
  BY <1>1, AgreeIdle
<1>4. \A p \in Orders : t.pending = p <=> (p \in {f.buy, f.sell} \/ Telling(f.events, p))
  BY <1>2, <1>3, EngineAssumption
<1>5. \A i \in 1..Len(f.events) : ~EndAt(f.events, i)
  BY <1>2, <1>3
<1>6. OneEnd(f.events)
  BY <1>5 DEF OneEnd
<1>7. /\ t.pending = NoOrder <=> t.state \in {"Flat", "InPosition"}
      /\ f.buy # NoOrder => t.state = "PendingEntry"
      /\ f.sell # NoOrder => t.state = "PendingExit"
  BY <1>1, <1>2
<1>8. AgreeOK(t, f)
  BY <1>4, <1>5, <1>6, <1>7 DEF AgreeOK
<1> QED
  BY <1>8 DEF f

\* A failed submit: neither waits.
LEMMA AgreeFailed ==
    ASSUME NEW s, NEW e \in Engine, AgreeOK(s, e), s.state \in {"Flat", "InPosition"},
           NEW f \in Engine, Quiet(e, f), NEW t \in Strategy, t.pending # NoOrder
    PROVE  AgreeOK(OnSubmitFailed(t), f)
<1> DEFINE u == OnSubmitFailed(t)
<1>1. u \in Strategy /\ u.pending = NoOrder /\ u.state \in {"Flat", "InPosition"}
  BY FailedFields
<1> HIDE DEF u
<1>2. AgreeOK(s, f)
  BY AgreeQuiet
<1>3. AgreeOK(u, f)
  BY <1>1, <1>2, AgreeIdle, IdleAgree
<1> QED
  BY <1>3 DEF u

----------------------------------------------------------------------------
(* Engine and database, queue and exchange *)

\* An engine call that ends no order.
LEMMA RecordsQuiet ==
    ASSUME NEW e, NEW f, NEW d, NEW p, NEW x, RecordsOK(e, d, p, x), Quiet(e, f)
    PROVE  RecordsOK(f, d, p, x)
BY DEF RecordsOK, Quiet

\* The active order ends and is recorded.
LEMMA RecordsEnds ==
    ASSUME NEW e, NEW f, NEW d, NEW p, NEW x, RecordsOK(e, d, p, x),
           NEW o \in Orders, Ends(e, f, o), Ended(x, o)
    PROVE  RecordsOK(f, InsertOrder(d, o), p, x)
BY DEF RecordsOK, Ends, InsertOrder

\* The exchange's orders never go back.
Advances(x, y) ==
    \A o \in Orders : /\ Ended(x, o) => Ended(y, o)
                      /\ x[o].state # "none" => y[o].state # "none"

\* Records survive the progress of the exchange.
LEMMA RecordsAdvance ==
    ASSUME NEW e, NEW d, NEW p, NEW x, NEW y, RecordsOK(e, d, p, x), Advances(x, y)
    PROVE  RecordsOK(e, d, p, y)
BY DEF RecordsOK, Advances

\* An accepted order is new to the database.
LEMMA RecordsAccepted ==
    ASSUME NEW e, EngineOK(e), NEW r \in Request, CanSubmit(e, r), NEW o \in Orders,
           NEW d, NEW p, NEW x, NEW y, RecordsOK(e, d, p, x), Advances(x, y),
           x[o].state = "none", y[o].state # "none"
    PROVE  RecordsOK(SubmitAccepted(e, r, o), d, p \cup {o}, y)
<1> DEFINE f == SubmitAccepted(e, r, o)
<1>1. \A q \in Orders : InStore(f, q) <=> q = o
  BY SubmitAcceptedOK
<1> HIDE DEF f
<1>2. \A q \in Orders : ~InStore(e, q)
  BY CanSubmitIdle
<1>3. o \notin d
  BY DEF RecordsOK, Ended
<1>4. \A q \in p \cup {o} : q \in d <=> ~InStore(f, q)
  BY <1>1, <1>2, <1>3 DEF RecordsOK
<1>5. RecordsOK(f, d, p \cup {o}, y)
  BY <1>1, <1>4 DEF RecordsOK, Advances
<1> QED
  BY <1>5 DEF f

\* A message that the queue may hold.
MessageOK(msg, x) ==
    /\ msg \in Message
    /\ msg.state \in {"done", "cancel"} => Ended(x, msg.order)
    /\ msg.state = "trade" => <<msg.order, msg.vol>> \in Trades

\* A message is appended.
LEMMA QueueAppend ==
    ASSUME NEW q, NEW x, QueueOK(q, x), NEW msg, MessageOK(msg, x)
    PROVE  QueueOK(Append(q, msg), x)
<1> DEFINE r == Append(q, msg)
<1>1. q \in Seq(Message) /\ msg \in Message
  BY DEF QueueOK, MessageOK
<1>2. /\ r \in Seq(Message) /\ Len(q) \in Nat /\ Len(r) = Len(q) + 1
      /\ \A i \in 1..Len(q) : r[i] = q[i]
      /\ r[Len(q) + 1] = msg
  BY <1>1
<1> HIDE DEF r
<1>3. \A i \in 1..Len(r) : i \in 1..Len(q) \/ i = Len(q) + 1
  BY <1>2
<1>4. QueueOK(r, x)
  BY <1>2, <1>3 DEF QueueOK, MessageOK
<1> QED
  BY <1>4 DEF r

\* The oldest message is taken off.
LEMMA QueueTail ==
    ASSUME NEW q, NEW x, QueueOK(q, x), q # <<>>
    PROVE  QueueOK(Tail(q), x) /\ MessageOK(Head(q), x)
<1> DEFINE r == Tail(q)
<1>1. q \in Seq(Message)
  BY DEF QueueOK
<1>2. /\ r \in Seq(Message) /\ Len(q) \in Nat /\ Len(q) > 0 /\ Len(r) = Len(q) - 1
      /\ \A i \in 1..Len(r) : r[i] = q[i + 1]
      /\ Head(q) = q[1] /\ Head(q) \in Message
  BY <1>1
<1> HIDE DEF r
<1>3. 1 \in 1..Len(q) /\ \A i \in 1..Len(r) : i + 1 \in 1..Len(q)
  BY <1>2
<1>4. QueueOK(r, x)
  BY <1>2, <1>3 DEF QueueOK
<1>5. MessageOK(Head(q), x)
  BY <1>2, <1>3 DEF QueueOK, MessageOK
<1> QED
  BY <1>4, <1>5 DEF r

\* The queue survives the progress of the exchange.
LEMMA QueueAdvance ==
    ASSUME NEW q, NEW x, NEW y, QueueOK(q, x), Advances(x, y)
    PROVE  QueueOK(q, y)
<1>1. q \in Seq(Message)
  BY DEF QueueOK
<1>2. \A i \in 1..Len(q) : q[i] \in Message
  BY <1>1
<1>3. \A i \in 1..Len(q) : q[i].order \in Orders
  BY <1>2 DEF Message
<1> QED
  BY <1>1, <1>3 DEF QueueOK, Advances

\* What a message says of its order.
LEMMA SnapshotType ==
    ASSUME NEW msg, msg.order \in Orders, msg.state \in ExStates, msg.vol \in Nat
    PROVE  LET s == ToSnapshot(msg)
           IN  /\ s \in Snapshot /\ s.order = msg.order
               /\ s.status \in Terminal <=> msg.state \in {"done", "cancel"}
<1> DEFINE s == ToSnapshot(msg)
           status == ToOrderStatus(msg.state)
           funds == IF msg.known THEN FillPrice * msg.vol ELSE 0
<1>1. /\ status \in Statuses
      /\ status \in Terminal <=> msg.state \in {"done", "cancel"}
  BY DEF ToOrderStatus, Statuses, Terminal, ExStates
<1>2. FillPrice * msg.vol \in Int /\ FillFee * msg.vol \in Int /\ msg.vol \in Int
  BY WorkerAssumption
<1>3. funds \in Int
  BY <1>2
<1>4. s = [order |-> msg.order, status |-> status, vol |-> msg.vol, funds |-> funds,
           fee |-> FillFee * msg.vol]
  BY DEF ToSnapshot
<1> HIDE DEF s, status, funds
<1>5. s \in Snapshot /\ s.order = msg.order /\ s.status = status
  BY <1>1, <1>2, <1>3, <1>4 DEF Snapshot
<1> QED
  BY <1>1, <1>5 DEF s

\* A trade message carries a trade.
LEMMA TradeType ==
    ASSUME NEW msg, msg.order \in Orders, <<msg.order, msg.vol>> \in Trades
    PROVE  ToTrade(msg) \in Trade
<1>1. FillPrice \in Int /\ FillFee \in Int
  BY WorkerAssumption
<1> QED
  BY <1>1 DEF ToTrade, Trade

----------------------------------------------------------------------------
(* The exchange *)

\* One order of the exchange changes, never back to "none" or to open.
LEMMA ExchangeUpdate ==
    ASSUME NEW x \in [Orders -> ExOrder], NEW o \in Orders, NEW z \in ExOrder,
           z.state # "none", ~Ended(x, o)
    PROVE  LET y == [x EXCEPT ![o] = z]
           IN  y \in [Orders -> ExOrder] /\ Advances(x, y) /\ y[o] = z
<1> DEFINE y == [x EXCEPT ![o] = z]
<1>1. y \in [Orders -> ExOrder] /\ y[o] = z /\ \A p \in Orders : p # o => y[p] = x[p]
  OBVIOUS
<1> HIDE DEF y
<1>2. Advances(x, y)
  BY <1>1 DEF Advances, Ended
<1> QED
  BY <1>1, <1>2 DEF y

\* A message that is sent may reach the queue or be lost.
LEMMA SendOK ==
    ASSUME QueueOK(queue, ex), Advances(ex, ex'), NEW msg, MessageOK(msg, ex'), Send(msg)
    PROVE  QueueOK(queue', ex')
<1>1. QueueOK(queue, ex')
  BY QueueAdvance
<1>2. queue' = Append(queue, msg) \/ queue' = queue
  BY DEF Send
<1> QED
  BY <1>1, <1>2, QueueAppend

\* The steps of the exchange.
LEMMA ExchangeStep ==
    ASSUME IInv, NEW o \in Orders, NEW known \in BOOLEAN, Fill(o) \/ End(o, known)
    PROVE  IInv'
<1>1. /\ ex \in [Orders -> ExOrder] /\ ex[o] \in ExOrder
      /\ QueueOK(queue, ex) /\ RecordsOK(engine, db, placed, ex)
  BY DEF IInv
<1>2. /\ ex[o].state \in {"none", "wait", "done", "cancel"} /\ ex[o].side \in Sides
      /\ ex[o].size \in Nat /\ ex[o].vol \in Nat
  BY <1>1 DEF ExOrder
<1>3. /\ engine' = engine /\ strategy' = strategy /\ candle' = candle
      /\ db' = db /\ placed' = placed
  BY DEF Fill, End, worker
<1>4. PICK z \in ExOrder, msg \in Message :
          /\ z.state # "none" /\ ~Ended(ex, o) /\ ex' = [ex EXCEPT ![o] = z]
          /\ Send(msg) /\ msg.order = o
          /\ msg.state \in {"done", "cancel"} => z.state \in {"done", "cancel"}
          /\ msg.state = "trade" => <<msg.order, msg.vol>> \in Trades
  <2>1. CASE Fill(o)
    <3> DEFINE z == [ex[o] EXCEPT !.vol = @ + 1]
               msg == Report(o, "trade", ex[o].vol + 1, TRUE)
    <3>1. /\ ex[o].state = "wait" /\ ex' = [ex EXCEPT ![o] = z] /\ Send(msg)
          /\ <<o, ex[o].vol + 1>> \in Trades
      BY <1>1, <2>1 DEF Fill
    <3>2. z \in ExOrder /\ z.state = "wait"
      BY <1>1, <1>2, <3>1 DEF ExOrder
    <3>3. msg.order = o /\ msg.state = "trade" /\ msg.vol = ex[o].vol + 1
      BY DEF Report
    <3>4. msg \in Message
      BY <1>2 DEF Report, Message, ExStates
    <3>5. ~Ended(ex, o)
      BY <3>1 DEF Ended
    <3> HIDE DEF z, msg
    <3> QED
      BY <3>1, <3>2, <3>3, <3>4, <3>5
  <2>2. CASE End(o, known)
    <3> DEFINE st == IF ex[o].vol = ex[o].size THEN "done" ELSE "cancel"
               z == [ex[o] EXCEPT !.state = st]
               msg == Report(o, st, ex[o].vol, known)
    <3>1. ex[o].state = "wait" /\ ex' = [ex EXCEPT ![o] = z] /\ Send(msg)
      BY <1>1, <2>2 DEF End
    <3>2. st \in {"done", "cancel"}
      OBVIOUS
    <3> HIDE DEF st
    <3>3. z \in ExOrder /\ z.state = st
      BY <1>1, <1>2, <3>2 DEF ExOrder
    <3>4. msg.order = o /\ msg.state = st
      BY DEF Report
    <3>5. msg \in Message
      BY <1>2, <3>2 DEF Report, Message, ExStates
    <3>6. ~Ended(ex, o)
      BY <3>1 DEF Ended
    <3> HIDE DEF z, msg
    <3> QED
      BY <3>1, <3>2, <3>3, <3>4, <3>5, <3>6
  <2> QED
    BY <2>1, <2>2
<1>5. ex' \in [Orders -> ExOrder] /\ Advances(ex, ex') /\ ex'[o] = z
  BY <1>1, <1>4, ExchangeUpdate
<1>6. MessageOK(msg, ex')
  BY <1>4, <1>5 DEF MessageOK, Ended
<1>7. QueueOK(queue', ex')
  BY <1>1, <1>4, <1>5, <1>6, SendOK
<1>8. RecordsOK(engine', db', placed', ex')
  BY <1>1, <1>3, <1>5, RecordsAdvance
<1> QED
  BY <1>3, <1>5, <1>7, <1>8 DEF IInv

----------------------------------------------------------------------------
(* The worker *)

\* The engine handles what the exchange says of an order.
LEMMA HandleOK ==
    ASSUME IInv, NEW f \in Engine, EngineOK(f), NEW d,
           \/ Quiet(engine, f) /\ d = db
           \/ \E o \in Orders : /\ Ends(engine, f, o) /\ Ended(ex, o)
                               /\ d = InsertOrder(db, o)
    PROVE  AgreeOK(strategy, f) /\ RecordsOK(f, d, placed, ex)
<1>1. /\ engine \in Engine
      /\ engine.buy = NoOrder \/ engine.sell = NoOrder
      /\ AgreeOK(strategy, engine) /\ RecordsOK(engine, db, placed, ex)
  BY DEF IInv, EngineOK
<1>2. CASE Quiet(engine, f) /\ d = db
  BY <1>1, <1>2, AgreeQuiet, RecordsQuiet
<1>3. CASE \E o \in Orders : /\ Ends(engine, f, o) /\ Ended(ex, o)
                             /\ d = InsertOrder(db, o)
  BY <1>1, <1>3, AgreeEnds, RecordsEnds
<1> QED
  BY <1>2, <1>3

\* What a reconcile does to engine and database.
LEMMA ReconcileHandled ==
    ASSUME IInv, NEW s \in Snapshot, s.status \in Terminal => Ended(ex, s.order), NEW d,
           d = IF CanReconcile(engine, s) /\ s.status \in Terminal
               THEN InsertOrder(db, s.order) ELSE db
    PROVE  LET f == ReconcileFromSnapshot(engine, s)
           IN  EngineOK(f) /\ AgreeOK(strategy, f) /\ RecordsOK(f, d, placed, ex)
<1> DEFINE f == ReconcileFromSnapshot(engine, s)
<1>1. EngineOK(engine) /\ s.order \in Orders
  BY DEF IInv, Snapshot
<1>2. /\ EngineOK(f)
      /\ CanReconcile(engine, s) /\ s.status \in Terminal => Ends(engine, f, s.order)
      /\ ~CanReconcile(engine, s) \/ s.status \notin Terminal => Quiet(engine, f)
  BY <1>1, ReconcileOK
<1> HIDE DEF f
<1>3. f \in Engine
  BY <1>2 DEF EngineOK
<1>4. AgreeOK(strategy, f) /\ RecordsOK(f, d, placed, ex)
  BY <1>1, <1>2, <1>3, HandleOK
<1> QED
  BY <1>2, <1>4 DEF f

\* runRecovery_, whatever getOrder answers.
LEMMA RunRecoveryOK ==
    ASSUME IInv, NEW a, RunRecovery(a)
    PROVE  EngineOK(engine') /\ AgreeOK(strategy, engine') /\ RecordsOK(engine', db', placed, ex)
<1> DEFINE o == CHOOSE p \in ActivePendingIds(engine) : TRUE
           msg == Report(o, ex[o].state, ex[o].vol, a = "order")
           s == ToSnapshot(msg)
<1>1. /\ EngineOK(engine) /\ AgreeOK(strategy, engine)
      /\ RecordsOK(engine, db, placed, ex) /\ ex \in [Orders -> ExOrder]
  BY DEF IInv
<1>2. CASE ActivePendingIds(engine) = {} \/ a = "none"
  BY <1>1, <1>2 DEF RunRecovery
<1>3. CASE ~(ActivePendingIds(engine) = {} \/ a = "none")
  <2>1. /\ engine' = ReconcileFromSnapshot(engine, s)
        /\ db' = IF CanReconcile(engine, s) /\ s.status \in Terminal
                 THEN InsertOrder(db, o) ELSE db
    BY <1>3 DEF RunRecovery
  <2>2. o \in ActivePendingIds(engine)
    BY <1>3
  <2> HIDE DEF o
  <2>3. o \in Orders /\ InStore(engine, o)
    BY <1>1, <2>2, EngineFields DEF ActivePendingIds, EngineOK
  <2>4. ex[o] \in ExOrder /\ ex[o].state # "none"
    BY <1>1, <2>3 DEF RecordsOK
  <2>5. ex[o].state \in ExStates /\ ex[o].vol \in Nat
    BY <2>4 DEF ExOrder, ExStates
  <2>6. msg.order = o /\ msg.state = ex[o].state /\ msg.vol = ex[o].vol
    BY DEF Report
  <2> HIDE DEF msg
  <2>7. /\ s \in Snapshot /\ s.order = o
        /\ s.status \in Terminal => Ended(ex, o)
    BY <2>3, <2>5, <2>6, SnapshotType DEF Ended
  <2> HIDE DEF s
  <2> QED
    BY <2>1, <2>7, ReconcileHandled
<1> QED
  BY <1>2, <1>3

\* A queued message is handled.
LEMMA PopMessageStep == IInv /\ PopMessage => IInv'
<1> SUFFICES ASSUME IInv, PopMessage PROVE IInv'
  OBVIOUS
<1> DEFINE msg == Head(queue)
           s == ToSnapshot(msg)
           g == IF msg.state = "trade" THEN OnMyTrade(engine, ToTrade(msg)) ELSE engine
<1>1. /\ EngineOK(engine) /\ QueueOK(queue, ex) /\ queue # <<>>
      /\ queue' = Tail(queue) /\ strategy' = strategy /\ candle' = candle
      /\ ex' = ex /\ placed' = placed /\ HandleMyOrder(msg)
  BY DEF IInv, PopMessage
<1>2. QueueOK(queue', ex') /\ MessageOK(msg, ex)
  BY <1>1, QueueTail
<1>3. /\ IF s.status \in Terminal
         THEN /\ engine' = ReconcileFromSnapshot(engine, s)
              /\ db' = IF CanReconcile(engine, s) THEN InsertOrder(db, msg.order) ELSE db
         ELSE engine' = OnOrderSnapshot(g, s) /\ db' = db
  BY <1>1 DEF HandleMyOrder
<1> HIDE DEF msg
<1>4. msg.order \in Orders /\ msg.state \in ExStates /\ msg.vol \in Nat
  BY <1>2 DEF MessageOK, Message
<1>5. /\ s \in Snapshot /\ s.order = msg.order
      /\ s.status \in Terminal <=> msg.state \in {"done", "cancel"}
  BY <1>4, SnapshotType
<1> HIDE DEF s
<1>6. /\ EngineOK(engine') /\ AgreeOK(strategy, engine')
      /\ RecordsOK(engine', db', placed, ex)
  <2>1. CASE s.status \in Terminal
    <3>1. Ended(ex, s.order)
      BY <1>2, <1>5, <2>1 DEF MessageOK
    <3> QED
      BY <1>3, <1>5, <2>1, <3>1, ReconcileHandled
  <2>2. CASE s.status \notin Terminal
    <3>1. EngineOK(g) /\ Quiet(engine, g)
      <4>1. CASE msg.state = "trade"
        <5>1. ToTrade(msg) \in Trade
          BY <1>2, <1>4, <4>1, TradeType DEF MessageOK
        <5> QED
          BY <1>1, <4>1, <5>1, OnMyTradeOK
      <4>2. CASE msg.state # "trade"
        BY <1>1, <4>2 DEF Quiet
      <4> QED
        BY <4>1, <4>2
    <3> DEFINE f == OnOrderSnapshot(g, s)
    <3> HIDE DEF g
    <3>2. EngineOK(f) /\ Quiet(g, f)
      BY <1>5, <2>2, <3>1, OnOrderSnapshotOK
    <3>3. engine' = f /\ db' = db
      BY <1>3, <2>2
    <3> HIDE DEF f
    <3>4. f \in Engine /\ g \in Engine /\ engine \in Engine
      BY <1>1, <3>1, <3>2 DEF EngineOK
    <3>5. AgreeOK(strategy, g) /\ RecordsOK(g, db, placed, ex)
      BY <3>1, <3>4, HandleOK
    <3>6. AgreeOK(strategy, f) /\ RecordsOK(f, db, placed, ex)
      BY <3>2, <3>4, <3>5, AgreeQuiet, RecordsQuiet
    <3> QED
      BY <3>2, <3>3, <3>6
  <2> QED
    BY <2>1, <2>2
<1> QED
  BY <1>1, <1>2, <1>6 DEF IInv

\* Recovery at the top of the loop or at a timeout.
LEMMA RecoverStep ==
    ASSUME IInv, NEW a, Recover(a) \/ Timeout(a)
    PROVE  IInv'
<1>1. /\ strategy' = strategy /\ queue' = queue /\ candle' = candle
      /\ ex' = ex /\ placed' = placed
  BY DEF Recover, Timeout
<1>2. RunRecovery(a) \/ (engine' = engine /\ db' = db)
  BY DEF Recover, Timeout
<1>3. /\ EngineOK(engine') /\ AgreeOK(strategy, engine')
      /\ RecordsOK(engine', db', placed, ex)
  BY <1>2, RunRecoveryOK DEF IInv
<1> QED
  BY <1>1, <1>3 DEF IInv

\* One event goes from the engine to the strategy.
LEMMA PollStep == IInv /\ Poll => IInv'
<1> SUFFICES ASSUME IInv, Poll PROVE IInv'
  OBVIOUS
<1>1. /\ queue' = queue /\ candle' = candle /\ ex' = ex /\ db' = db /\ placed' = placed
      /\ EngineOK(engine) /\ AgreeOK(strategy, engine) /\ engine \in Engine
  BY DEF Poll, IInv, EngineOK
<1>2. CASE engine.events = <<>>
  BY <1>1, <1>2 DEF Poll, IInv
<1>3. CASE engine.events # <<>>
  <2>1. /\ strategy' = Deliver(strategy, Head(engine.events))
        /\ engine' = [engine EXCEPT !.events = Tail(@)]
    BY <1>3 DEF Poll
  <2> DEFINE q == Tail(engine.events)
  <2>2. q \in Seq(Event)
    BY <1>1, <1>3, EngineFields
  <2>3. engine' = [engine EXCEPT !.events = q]
    BY <2>1
  <2> HIDE DEF q
  <2>4. /\ engine' \in Engine /\ engine'.events = q /\ engine'.wallet = engine.wallet
        /\ engine'.buy = engine.buy /\ engine'.sell = engine.sell
        /\ engine'.store = engine.store
    BY <1>1, <2>2, <2>3 DEF Engine
  <2>5. EngineOK(engine')
    BY <1>1, <2>4, Untouched
  <2>6. engine'.events = Tail(engine.events)
    BY <2>4 DEF q
  <2>7. AgreeOK(strategy', engine')
    BY <1>1, <1>3, <2>1, <2>4, <2>6, AgreeDeliver
  <2>8. RecordsOK(engine', db', placed', ex')
    BY <1>1, <2>4 DEF IInv, RecordsOK, InStore
  <2> QED
    BY <1>1, <2>5, <2>7, <2>8 DEF IInv
<1> QED
  BY <1>2, <1>3

----------------------------------------------------------------------------
(* Orders *)

\* The strategy's requests are requests.
LEMMA RequestTypes ==
    ASSUME EngineOK(engine)
    PROVE  /\ Coin \in Int /\ Krw \in Int
           /\ MarketBuy(Krw) \in Request /\ MarketBuy(Krw).side = "BID"
           /\ MarketSell(Coin) \in Request /\ MarketSell(Coin).side = "ASK"
<1>1. Coin \in Int /\ Krw \in Int
  BY EngineFields, WalletFields DEF EngineOK, Coin, Krw
<1>2. KrwToUse(Krw) \in Int
  <2>1. MarginDen \in Int /\ MarginNum \in Int /\ MarginNum > 0
    BY EngineAssumption
  <2>2. Krw * MarginDen \in Int
    BY <1>1, <2>1
  <2> QED
    BY <2>1, <2>2, QuotientType DEF KrwToUse
<1> QED
  BY <1>1, <1>2 DEF MarketBuy, MarketSell, Request, Sides

\* The exchange takes a valid request as a new order.
LEMMA AcceptOK ==
    ASSUME IInv, NEW r \in Request, r.size > 0, NEW o \in Orders, Accept(r, o)
    PROVE  /\ ex' \in [Orders -> ExOrder] /\ Advances(ex, ex')
           /\ ex[o].state = "none" /\ ex'[o].state # "none"
           /\ QueueOK(queue', ex')
<1> DEFINE units == IF r.side = "BID" THEN r.size \div FillPrice ELSE r.size
           z == [state |-> "wait", side |-> r.side, size |-> units, vol |-> 0]
           msg == Report(o, "wait", 0, TRUE)
<1>1. /\ ex \in [Orders -> ExOrder] /\ QueueOK(queue, ex) /\ r.side \in Sides
      /\ r.size \in Nat /\ FillPrice \in Nat /\ FillPrice > 0
  BY WorkerAssumption DEF IInv, Request
<1>2. units \in Nat
  <2>1. r.size \div FillPrice \in Nat
    BY <1>1
  <2> QED
    BY <1>1, <2>1
<1>3. ex[o].state = "none" /\ ex' = [ex EXCEPT ![o] = z] /\ Send(msg)
  BY DEF Accept, Fresh
<1> HIDE DEF units
<1>4. z \in ExOrder /\ z.state = "wait"
  BY <1>1, <1>2 DEF ExOrder
<1>5. msg \in Message /\ msg.state = "wait"
  BY DEF Report, Message, ExStates
<1>6. ~Ended(ex, o)
  BY <1>3 DEF Ended
<1> HIDE DEF z, msg
<1>7. ex' \in [Orders -> ExOrder] /\ Advances(ex, ex') /\ ex'[o] = z
  BY <1>1, <1>3, <1>4, <1>6, ExchangeUpdate
<1>8. QueueOK(queue', ex')
  BY <1>1, <1>3, <1>5, <1>7, SendOK DEF MessageOK
<1> QED
  BY <1>3, <1>4, <1>7, <1>8

\* The strategy, s before and t after its decision, places order o.
LEMMA SubmitStep ==
    ASSUME IInv, NEW s, NEW e, EngineOK(e), AgreeOK(s, e), RecordsOK(e, db, placed, ex),
           s.state \in {"Flat", "InPosition"}, NEW r \in Request, NEW o \in Orders,
           NEW t \in Strategy, t.pending = o,
           t.state = IF r.side = "BID" THEN "PendingEntry" ELSE "PendingExit",
           SubmitAccepts(e, t, r, o) \/ SubmitErrs(e, t, r) \/ ReplyLost(e, t, r, o),
           db' = db, candle' \in Nat
    PROVE  IInv'
<1>1. /\ e \in Engine /\ o # NoOrder /\ QueueOK(queue, ex) /\ ex \in [Orders -> ExOrder]
  BY EngineAssumption DEF EngineOK, IInv
<1>2. ASSUME CanSubmit(e, r) PROVE r.size > 0
  BY <1>2 DEF CanSubmit, ValidateRequest
<1>3. CASE SubmitAccepts(e, t, r, o)
  <2>1. /\ CanSubmit(e, r) /\ Accept(r, o) /\ engine' = SubmitAccepted(e, r, o)
        /\ strategy' = t /\ placed' = placed \cup {o}
    BY <1>3 DEF SubmitAccepts
  <2>2. /\ ex' \in [Orders -> ExOrder] /\ Advances(ex, ex')
        /\ ex[o].state = "none" /\ ex'[o].state # "none"
        /\ QueueOK(queue', ex')
    BY <1>2, <2>1, AcceptOK
  <2>3. EngineOK(engine')
    BY <2>1, SubmitAcceptedOK
  <2>4. AgreeOK(strategy', engine')
    BY <2>1, AgreeAccepted
  <2>5. RecordsOK(engine', db', placed', ex')
    BY <2>1, <2>2, RecordsAccepted
  <2> QED
    BY <2>2, <2>3, <2>4, <2>5 DEF IInv
<1>4. CASE SubmitErrs(e, t, r)
  <2>1. /\ engine' = (IF CanSubmit(e, r) THEN SubmitFailed(e, r) ELSE e)
        /\ strategy' = OnSubmitFailed(t) /\ queue' = queue /\ ex' = ex /\ placed' = placed
    BY <1>4 DEF SubmitErrs
  <2>2. EngineOK(engine') /\ Quiet(e, engine')
    <3>1. CASE CanSubmit(e, r)
      BY <2>1, <3>1, SubmitFailedOK
    <3>2. CASE ~CanSubmit(e, r)
      BY <2>1, <3>2 DEF Quiet
    <3> QED
      BY <3>1, <3>2
  <2>3. engine' \in Engine
    BY <2>2 DEF EngineOK
  <2>4. AgreeOK(strategy', engine')
    BY <1>1, <2>1, <2>2, <2>3, AgreeFailed
  <2>5. RecordsOK(engine', db', placed', ex')
    BY <2>1, <2>2, RecordsQuiet
  <2> QED
    BY <1>1, <2>1, <2>2, <2>4, <2>5 DEF IInv
<1>5. CASE ReplyLost(e, t, r, o)
  <2>1. /\ CanSubmit(e, r) /\ Accept(r, o) /\ engine' = SubmitFailed(e, r)
        /\ strategy' = OnSubmitFailed(t) /\ placed' = placed
    BY <1>5 DEF ReplyLost
  <2>2. /\ ex' \in [Orders -> ExOrder] /\ Advances(ex, ex') /\ QueueOK(queue', ex')
    BY <1>2, <2>1, AcceptOK
  <2>3. EngineOK(engine') /\ Quiet(e, engine')
    BY <2>1, SubmitFailedOK
  <2>4. engine' \in Engine
    BY <2>3 DEF EngineOK
  <2>5. AgreeOK(strategy', engine')
    BY <1>1, <2>1, <2>3, <2>4, AgreeFailed
  <2>6. RecordsOK(engine', db', placed', ex')
    BY <2>1, <2>2, <2>3, RecordsQuiet, RecordsAdvance
  <2> QED
    BY <2>2, <2>3, <2>5, <2>6 DEF IInv
<1> QED
  BY <1>3, <1>4, <1>5

\* The mark price is set before the strategy looks.
LEMMA Marked ==
    ASSUME IInv
    PROVE  LET e == SetMarkPrice(engine, candle)
           IN  /\ EngineOK(e) /\ e \in Engine /\ AgreeOK(strategy, e)
               /\ RecordsOK(e, db, placed, ex)
<1> DEFINE e == SetMarkPrice(engine, candle)
<1>1. /\ EngineOK(engine) /\ engine \in Engine /\ candle \in Int
      /\ AgreeOK(strategy, engine) /\ RecordsOK(engine, db, placed, ex)
  BY DEF IInv, EngineOK
<1>2. EngineOK(e) /\ Quiet(engine, e)
  BY <1>1, MarkOK
<1> HIDE DEF e
<1>3. e \in Engine
  BY <1>2 DEF EngineOK
<1>4. AgreeOK(strategy, e) /\ RecordsOK(e, db, placed, ex)
  BY <1>1, <1>2, <1>3, AgreeQuiet, RecordsQuiet
<1> QED
  BY <1>2, <1>3, <1>4 DEF e

\* The last candle is confirmed, and the strategy decides on it.
LEMMA ConfirmCandleStep ==
    ASSUME IInv, NEW close \in Closes, NEW sig, ConfirmCandle(close, sig)
    PROVE  IInv'
<1> DEFINE e == SetMarkPrice(engine, candle)
           s == SelfHeal(strategy, Coin, candle)
           enter == MaybeEnter(s, Krw, sig)
           r == IF enter THEN MarketBuy(Krw) ELSE MarketSell(Coin)
           decided(o) == IF enter THEN Enter(s, o) ELSE Exit(s, o)
<1>1. /\ EngineOK(engine) /\ candle \in Int /\ close \in Nat
  BY WorkerAssumption DEF IInv
<1>2. /\ Coin \in Int /\ r \in Request
      /\ r.side = IF enter THEN "BID" ELSE "ASK"
  BY <1>1, RequestTypes
<1>3. /\ candle' = close /\ db' = db
      /\ IF enter \/ MaybeExit(s, Coin, candle, sig)
         THEN \E o \in Orders : \/ SubmitAccepts(e, decided(o), r, o)
                                \/ SubmitErrs(e, decided(o), r)
                                \/ ReplyLost(e, decided(o), r, o)
         ELSE NoSubmit(e, s)
  BY DEF ConfirmCandle
<1>4. /\ EngineOK(e) /\ e \in Engine /\ AgreeOK(strategy, e)
      /\ RecordsOK(e, db, placed, ex)
  BY Marked
<1>5. enter => s.state = "Flat"
  BY DEF MaybeEnter
<1>6. MaybeExit(s, Coin, candle, sig) => s.state = "InPosition"
  BY DEF MaybeExit
<1> HIDE DEF e, r, enter
<1>7. AgreeOK(s, e)
  BY <1>1, <1>2, <1>4, AgreeHeal
<1> HIDE DEF s
<1>8. s \in Strategy
  BY <1>7 DEF AgreeOK
<1>9. CASE enter \/ MaybeExit(s, Coin, candle, sig)
  <2>1. PICK o \in Orders : \/ SubmitAccepts(e, decided(o), r, o)
                            \/ SubmitErrs(e, decided(o), r)
                            \/ ReplyLost(e, decided(o), r, o)
    BY <1>3, <1>9
  <2>2. /\ decided(o) \in Strategy /\ decided(o).pending = o
        /\ decided(o).state = IF r.side = "BID" THEN "PendingEntry" ELSE "PendingExit"
    BY <1>2, <1>8, DecidedFields
  <2>3. s.state \in {"Flat", "InPosition"}
    BY <1>5, <1>6, <1>9
  <2> HIDE DEF decided
  <2> QED
    BY <1>1, <1>2, <1>3, <1>4, <1>7, <2>1, <2>2, <2>3, SubmitStep
<1>10. CASE ~(enter \/ MaybeExit(s, Coin, candle, sig))
  BY <1>1, <1>3, <1>4, <1>7, <1>10 DEF NoSubmit, IInv
<1> QED
  BY <1>9, <1>10

\* The stop-loss and target check on the unconfirmed candle.
LEMMA IntrabarStep == IInv /\ Intrabar => IInv'
<1> SUFFICES ASSUME IInv, Intrabar PROVE IInv'
  OBVIOUS
<1> DEFINE e == SetMarkPrice(engine, candle)
           r == MarketSell(Coin)
<1>1. /\ EngineOK(engine) /\ candle \in Nat /\ candle' = candle /\ db' = db
  BY DEF IInv, Intrabar
<1>2. /\ r \in Request /\ r.side = "ASK"
  BY <1>1, RequestTypes
<1>3. IF ~failed /\ IntrabarExit(strategy, Coin, candle)
      THEN \E o \in Orders : \/ SubmitAccepts(e, Exit(strategy, o), r, o)
                             \/ SubmitErrs(e, Exit(strategy, o), r)
                             \/ ReplyLost(e, Exit(strategy, o), r, o)
      ELSE NoSubmit(e, strategy)
  BY DEF Intrabar
<1>4. /\ EngineOK(e) /\ e \in Engine /\ AgreeOK(strategy, e)
      /\ RecordsOK(e, db, placed, ex)
  BY Marked
<1>5. IntrabarExit(strategy, Coin, candle) => strategy.state = "InPosition"
  BY DEF IntrabarExit
<1>6. strategy \in Strategy
  BY <1>4 DEF AgreeOK
<1> HIDE DEF e, r
<1>7. CASE ~failed /\ IntrabarExit(strategy, Coin, candle)
  <2>1. PICK o \in Orders : \/ SubmitAccepts(e, Exit(strategy, o), r, o)
                            \/ SubmitErrs(e, Exit(strategy, o), r)
                            \/ ReplyLost(e, Exit(strategy, o), r, o)
    BY <1>3, <1>7
  <2> DEFINE t == Exit(strategy, o)
  <2>2. /\ t \in Strategy /\ t.pending = o
        /\ t.state = IF r.side = "BID" THEN "PendingEntry" ELSE "PendingExit"
    BY <1>2, <1>6, DecidedFields
  <2>3. SubmitAccepts(e, t, r, o) \/ SubmitErrs(e, t, r) \/ ReplyLost(e, t, r, o)
    BY <2>1
  <2>4. strategy.state \in {"Flat", "InPosition"}
    BY <1>5, <1>7
  <2> HIDE DEF t
  <2> QED
    BY <1>1, <1>2, <1>4, <2>2, <2>3, <2>4, SubmitStep
<1>8. CASE ~(~failed /\ IntrabarExit(strategy, Coin, candle))
  BY <1>1, <1>3, <1>4, <1>8 DEF NoSubmit, IInv
<1> QED
  BY <1>7, <1>8

----------------------------------------------------------------------------
(* The theorems *)

\* The start-up synchronisation: nothing is active, told, queued or recorded.
LEMMA InitIInv == Init => IInv
<1> SUFFICES ASSUME Init PROVE IInv
  OBVIOUS
<1> DEFINE ws == Construct(EmptyAccount)
           w(acc) == RebuildFromAccount(ws, acc)[Market]
           none == [state |-> "none", side |-> "BID", size |-> 0, vol |-> 0]
<1>1. PICK acc \in StartAccount :
          /\ engine = NewEngine(w(acc))
          /\ \/ strategy = SyncOnStart(acc.pos[Market].free, acc.pos[Market].avg)
             \/ strategy = NewStrategy
          /\ queue = <<>> /\ candle = 0 /\ ex = [o \in Orders |-> none]
          /\ db = {} /\ placed = {}
  BY DEF Init
<1>2. acc \in Account /\ Market \in Markets
  BY WorkerAssumption
<1>3. ws = [m \in Markets |-> ws[m]]
  BY DEF Construct
<1> HIDE DEF ws
<1>4. \A m \in Markets : WalletOK(ws[m]) /\ ws[m].token = NoToken
  BY ConstructEmpty DEF ws
<1>5. ws \in [Markets -> Wallet]
  BY <1>3, <1>4 DEF WalletOK
<1>6. WalletOK(w(acc)) /\ w(acc).token = NoToken
  BY <1>2, <1>4, <1>5, RebuildSound
<1> HIDE DEF w
<1>7. EngineOK(engine)
  BY <1>1, <1>6, NewEngineOK
<1>8. engine \in Engine /\ engine.buy = NoOrder /\ engine.sell = NoOrder /\ engine.events = <<>>
  BY <1>1, <1>7 DEF EngineOK, NewEngine
<1>9. /\ NewStrategy \in Strategy /\ NewStrategy.pending = NoOrder
      /\ NewStrategy.state = "Flat"
  BY DEF NewStrategy, Strategy, States
<1>10. /\ strategy \in Strategy /\ strategy.pending = NoOrder
       /\ strategy.state \in {"Flat", "InPosition"}
  <2>1. CASE strategy = NewStrategy
    BY <1>9, <2>1
  <2>2. CASE strategy = SyncOnStart(acc.pos[Market].free, acc.pos[Market].avg)
    <3> DEFINE avg == acc.pos[Market].avg
    <3>1. avg \in Int
      BY <1>2 DEF Account
    <3>2. strategy = NewStrategy \/ strategy = SetPosition(NewStrategy, "InPosition", avg)
      BY <2>2 DEF SyncOnStart, SetPosition
    <3> HIDE DEF avg
    <3>3. "InPosition" \in States
      BY DEF States
    <3> QED
      BY <1>9, <3>1, <3>2, <3>3, SetPositionType
  <2> QED
    BY <1>1, <2>1, <2>2
<1>11. AgreeOK(strategy, engine)
  BY <1>8, <1>10, IdleAgree
<1>12. none \in ExOrder
  BY DEF ExOrder, Sides
<1>13. ex \in [Orders -> ExOrder]
  BY <1>1, <1>12
<1>14. \A o \in Orders : ~InStore(engine, o)
  BY <1>7, <1>8, EngineAssumption DEF EngineOK
<1>15. RecordsOK(engine, db, placed, ex)
  BY <1>1, <1>14 DEF RecordsOK
<1>16. QueueOK(queue, ex)
  BY <1>1 DEF QueueOK
<1> QED
  BY <1>1, <1>7, <1>11, <1>13, <1>15, <1>16 DEF IInv

\* Steps that leave engine, strategy, exchange and database alone.
LEMMA QuietStep ==
    ASSUME IInv, UNCHANGED <<engine, strategy, ex, db, placed>>,
           candle' \in Nat, queue' = queue \/ (queue # <<>> /\ queue' = Tail(queue))
    PROVE  IInv'
<1>1. QueueOK(queue', ex')
  BY QueueTail DEF IInv
<1> QED
  BY <1>1 DEF IInv

\* Every step keeps the invariant.
LEMMA NextIInv == IInv /\ [Next]_vars => IInv'
<1> SUFFICES ASSUME IInv, [Next]_vars PROVE IInv'
  OBVIOUS
<1>1. candle \in Nat /\ \A c \in Closes : c \in Nat
  BY WorkerAssumption DEF IInv
<1>2. ASSUME NEW a \in Answers, Recover(a) \/ Timeout(a) PROVE IInv'
  BY <1>2, RecoverStep
<1>3. CASE PopMessage
  BY <1>3, PopMessageStep
<1>4. CASE PopNothing
  BY <1>1, <1>4, QuietStep DEF PopNothing
<1>5. CASE PopCandle
  <2>1. PICK close \in Closes :
            UpdateCandle(close) \/ \E sig \in Signals : ConfirmCandle(close, sig)
    BY <1>5 DEF PopCandle
  <2>2. CASE UpdateCandle(close)
    BY <1>1, <2>2, QuietStep DEF UpdateCandle
  <2>3. CASE \E sig \in Signals : ConfirmCandle(close, sig)
    BY <2>3, ConfirmCandleStep
  <2> QED
    BY <2>1, <2>2, <2>3
<1>6. CASE Intrabar
  BY <1>6, IntrabarStep
<1>7. CASE Poll
  BY <1>7, PollStep
<1>8. CASE Check
  BY <1>1, <1>8, QuietStep DEF Check
<1>9. CASE Exchange
  <2>1. PICK o \in Orders : Fill(o) \/ \E known \in BOOLEAN : End(o, known)
    BY <1>9 DEF Exchange
  <2>2. TRUE \in BOOLEAN
    OBVIOUS
  <2> QED
    BY <2>1, <2>2, ExchangeStep
<1>10. CASE Disconnect
  BY <1>1, <1>10, QuietStep DEF Disconnect, worker
<1>11. CASE Reconnect
  BY <1>1, <1>11, QuietStep DEF Reconnect, worker
<1>12. CASE DropOldest
  BY <1>1, <1>12, QuietStep DEF DropOldest, worker
<1>13. CASE UNCHANGED vars
  BY <1>1, <1>13, QuietStep DEF vars
<1> QED
  BY <1>2, <1>3, <1>4, <1>5, <1>6, <1>7, <1>8, <1>9, <1>10, <1>11, <1>12, <1>13
     DEF Next, Worker

\* The invariant holds in every reachable state.
THEOREM WorkerInvariant == Spec => []IInv
<1> QED
  BY InitIInv, NextIInv, PTL DEF Spec

\* The strategy waits for exactly the order that the engine has active, or
\* whose end is on its way to it, on the side its state says, whatever messages
\* are lost, late or repeated, whatever times out and whichever submit fails.
THEOREM StrategyAndEngineAgree == Spec => []StrategyEngineAgree
<1>1. ASSUME IInv PROVE StrategyEngineAgree
  <2>1. /\ engine.events \in Seq(Event) /\ AgreeOK(strategy, engine)
    BY <1>1, EngineFields DEF IInv, EngineOK
  <2>2. DOMAIN engine.events = 1..Len(engine.events)
    BY <2>1
  <2>3. \A o \in Orders : Announced(o) <=> Telling(engine.events, o)
    BY <2>2 DEF Announced, Telling, EndAt
  <2>4. \A o \in Orders : o \in ActivePendingIds(engine) <=> o \in {engine.buy, engine.sell}
    BY EngineAssumption DEF ActivePendingIds
  <2> QED
    BY <2>1, <2>3, <2>4 DEF AgreeOK, StrategyEngineAgree
<1> QED
  BY <1>1, WorkerInvariant, PTL

\* Every order that the engine placed and took off its books is in the
\* database, and nothing is that has not ended on the exchange.
THEOREM EndedOrdersRecorded == Spec => []EndedIsRecorded
<1>1. ASSUME IInv PROVE EndedIsRecorded
  BY <1>1 DEF IInv, RecordsOK, Ended, EndedIsRecorded
<1> QED
  BY <1>1, WorkerInvariant, PTL

\* Whatever reaches the queue, the engine's slots and wallet stay sound: one
\* active order at most, a token exactly while it is a purchase.
THEOREM WorkerEngineSound == Spec => []EngineOK(engine)
<1>1. IInv => EngineOK(engine)
  BY DEF IInv
<1> QED
  BY <1>1, WorkerInvariant, PTL

----------------------------------------------------------------------------
(* The amounts of an order *)

\* What one coin unit costs, and what it brings.
Cost == FillPrice + FillFee

Gain == FillPrice - FillFee

\* An amount of coin in the books, and on the exchange: dust is forgotten.
Within(a, b) == a <= b /\ (NoDust => a = b)

\* The books while order y of the exchange runs, its volume settled up to v; n
\* is what the exchange has.
Bought(w, v, y, n) ==
    /\ w.available + w.reserved = n.krw + Cost * (y.vol - v)
    /\ Within(w.coin + (y.vol - v), n.coin)
    /\ w.reserved >= Cost * (y.size - v)

Sold(w, v, y, n) ==
    /\ w.available + Gain * (y.vol - v) = n.krw
    /\ Within(w.coin - (y.vol - v), n.coin)
    /\ w.coin = y.size - v

Running(w, side, v, y, n) == IF side = "BID" THEN Bought(w, v, y, n) ELSE Sold(w, v, y, n)

\* The books between orders.
Settled(w, n) == w.available = n.krw /\ Within(w.coin, n.coin)

\* k coin units of an order of this side are settled.
Moved(w, f, side, k) ==
    IF side = "BID"
    THEN f.available = w.available /\ f.reserved = w.reserved - Cost * k /\ f.coin = w.coin + k
    ELSE f.available = w.available + Gain * k /\ f.coin = w.coin - k

\* What of the position holds while an order runs: a purchase that brought no
\* coin yet has KRW left to pay the first unit, and a sale without a fill has its
\* coin.
Holding(w, side, v, filled) ==
    IF side = "BID"
    THEN w.coin >= 0 /\ IF w.coin = 0 THEN w.reserved > 0 /\ v = 0 ELSE filled > 0
    ELSE filled = 0 => w.coin > 0

Net == [krw : Int, coin : Int]

\* A product with a difference.
LEMMA Distribute ==
    ASSUME NEW c \in Int, NEW a \in Int, NEW v \in Int, NEW k \in Int
    PROVE  c * (a - (v + k)) = c * (a - v) - c * k /\ c * k \in Int
OBVIOUS

\* A product grows with its factor.
LEMMA Monotone ==
    ASSUME NEW c \in Nat, NEW a \in Int, NEW b \in Int, a <= b
    PROVE  c * a <= c * b
OBVIOUS

\* A product of positive numbers is positive, and of others is not.
LEMMA Product ==
    ASSUME NEW a \in Int, NEW b \in Int, b > 0
    PROVE  /\ a * b \in Int
           /\ a > 0 <=> a * b > 0
           /\ a > 0 => a * b >= b
           /\ a = 0 => a * b = 0
<1>1. a > 0 => a * b >= b
  OBVIOUS
<1>2. a <= 0 => a * b <= 0
  OBVIOUS
<1> QED
  BY <1>1, <1>2

\* The prices are numbers.
LEMMA PriceTypes ==
    /\ FillPrice \in Nat /\ FillFee \in Nat /\ FillPrice > 0
    /\ Cost \in Nat /\ Cost > 0 /\ Gain \in Nat
BY WorkerAssumption DEF Cost, Gain

\* The books follow a settlement.
LEMMA RunningMoves ==
    ASSUME NEW w \in Wallet, NEW f \in Wallet, NEW side, NEW v \in Int, NEW k \in Int,
           NEW y \in ExOrder, NEW n \in Net, Running(w, side, v, y, n), Moved(w, f, side, k)
    PROVE  Running(f, side, v + k, y, n)
<1>1. /\ w.available \in Int /\ w.reserved \in Int /\ w.coin \in Int
      /\ f.available \in Int /\ f.reserved \in Int /\ f.coin \in Int
  BY WalletFields
<1>2. y.vol \in Int /\ y.size \in Int /\ n.krw \in Int /\ n.coin \in Int
  BY DEF ExOrder, Net
<1>3. Cost \in Int /\ Gain \in Int
  BY PriceTypes
<1>4. /\ y.vol - v \in Int /\ y.size - v \in Int
      /\ y.vol - (v + k) = (y.vol - v) - k /\ y.size - (v + k) = (y.size - v) - k
  BY <1>2
<1>5. CASE side = "BID"
  <2>1. /\ Cost * (y.vol - (v + k)) = Cost * (y.vol - v) - Cost * k
        /\ Cost * (y.size - (v + k)) = Cost * (y.size - v) - Cost * k
        /\ Cost * k \in Int /\ Cost * (y.vol - v) \in Int /\ Cost * (y.size - v) \in Int
    BY <1>2, <1>3, <1>4, Distribute
  <2>2. Within(f.coin + (y.vol - (v + k)), n.coin)
    <3>1. f.coin + (y.vol - (v + k)) = w.coin + (y.vol - v)
      BY <1>1, <1>2, <1>5 DEF Moved
    <3> QED
      BY <1>5, <3>1 DEF Running, Bought
  <2>3. Bought(f, v + k, y, n)
    <3> DEFINE a == Cost * (y.vol - v)
               b == Cost * k
               c == Cost * (y.size - v)
    <3>1. /\ w.available + w.reserved = n.krw + a /\ w.reserved >= c
          /\ f.available = w.available /\ f.reserved = w.reserved - b
          /\ a \in Int /\ b \in Int /\ c \in Int
          /\ Cost * (y.vol - (v + k)) = a - b /\ Cost * (y.size - (v + k)) = c - b
      BY <1>5, <2>1 DEF Running, Bought, Moved
    <3> HIDE DEF a, b, c
    <3>2. /\ f.available + f.reserved = n.krw + (a - b) /\ f.reserved >= c - b
      BY <1>1, <1>2, <3>1
    <3> QED
      BY <2>2, <3>1, <3>2 DEF Bought
  <2> QED
    BY <1>5, <2>3 DEF Running
<1>6. CASE side # "BID"
  <2>1. /\ Gain * (y.vol - (v + k)) = Gain * (y.vol - v) - Gain * k
        /\ Gain * k \in Int /\ Gain * (y.vol - v) \in Int
    BY <1>2, <1>3, <1>4, Distribute
  <2>2. Within(f.coin - (y.vol - (v + k)), n.coin)
    <3>1. f.coin - (y.vol - (v + k)) = w.coin - (y.vol - v)
      BY <1>1, <1>2, <1>6 DEF Moved
    <3> QED
      BY <1>6, <3>1 DEF Running, Sold
  <2>3. f.coin = y.size - (v + k)
    BY <1>1, <1>2, <1>6 DEF Running, Sold, Moved
  <2>4. Sold(f, v + k, y, n)
    <3> DEFINE a == Gain * (y.vol - v)
               b == Gain * k
    <3>1. /\ w.available + a = n.krw /\ f.available = w.available + b
          /\ a \in Int /\ b \in Int /\ Gain * (y.vol - (v + k)) = a - b
      BY <1>6, <2>1 DEF Running, Sold, Moved
    <3> HIDE DEF a, b
    <3>2. f.available + (a - b) = n.krw
      BY <1>1, <1>2, <3>1
    <3> QED
      BY <2>2, <2>3, <3>1, <3>2 DEF Sold
  <2> QED
    BY <1>6, <2>4 DEF Running
<1> QED
  BY <1>5, <1>6

\* A settled fill moves its price and fee, and its coin.
LEMMA SettleMoves ==
    ASSUME NEW e, EngineOK(e), NEW o \in Orders, InStore(e, o),
           NEW k \in Nat, k > 0, NEW price \in Int, price > 0,
           e.store[o].side = "BID" => e.wallet.reserved >= Cost * k
    PROVE  Moved(e.wallet, SettleFill(e, o, k, price, FillPrice * k, FillFee * k),
                 e.store[o].side, k)
<1> DEFINE w == e.wallet
           f == SettleFill(e, o, k, price, FillPrice * k, FillFee * k)
<1>1. WalletOK(w) /\ w \in Wallet /\ w.reserved \in Nat
  BY WalletFields DEF EngineOK, WalletOK
<1>2. /\ FillPrice * k \in Int /\ FillFee * k \in Int
      /\ FillPrice * k + FillFee * k = Cost * k /\ FillPrice * k - FillFee * k = Gain * k
      /\ Cost * k \in Int /\ Cost * k > 0 /\ Gain * k \in Int /\ Gain * k >= 0
  <2>1. FillPrice \in Nat /\ FillFee \in Nat /\ k \in Int
    BY PriceTypes
  <2>2. /\ FillPrice * k \in Int /\ FillFee * k \in Int
        /\ (FillPrice + FillFee) * k = FillPrice * k + FillFee * k
        /\ (FillPrice - FillFee) * k = FillPrice * k - FillFee * k
    BY <2>1
  <2>3. Cost * k > 0 /\ Cost * k \in Int
    BY <2>1, PriceTypes, Product
  <2>4. Gain * k >= 0 /\ Gain * k \in Int
    BY <2>1, PriceTypes
  <2> QED
    BY <2>2, <2>3, <2>4 DEF Cost, Gain
<1>3. CASE e.store[o].side = "BID"
  <2>1. o = e.buy /\ w.token.active
    BY <1>3, EngineAssumption DEF EngineOK
  <2>2. f = FinalizeFillBuy(w, Cost * k, k, price)
    BY <1>2, <1>3, <2>1 DEF SettleFill
  <2> DEFINE c == Cost * k
  <2> HIDE DEF w, f, c
  <2>3. w.reserved >= c /\ c > 0 /\ c \in Int /\ f = FinalizeFillBuy(w, c, k, price)
    BY <1>2, <1>3, <2>2 DEF c, w
  <2>4. Booked(w, c, k, price)
    BY <1>1, <2>1, <2>3 DEF Booked
  <2>5. /\ f.available = w.available /\ f.coin = w.coin + k
        /\ f.reserved = IF c > w.reserved THEN 0 ELSE w.reserved - c
    BY <1>1, <2>3, <2>4, FillBuySound
  <2>6. f.reserved = w.reserved - c
    BY <1>1, <2>3, <2>5
  <2> QED
    BY <1>3, <2>5, <2>6 DEF Moved, c, w, f
<1>4. CASE e.store[o].side # "BID"
  <2>1. Proceeds(FillPrice * k, FillFee * k) = Gain * k
    BY <1>2 DEF Proceeds
  <2>2. f = FinalizeFillSell(w, k, Gain * k)
    BY <1>4, <2>1 DEF SettleFill
  <2> DEFINE c == Gain * k
  <2> HIDE DEF w, f, c
  <2>3. c >= 0 /\ c \in Int /\ f = FinalizeFillSell(w, k, c)
    BY <1>2, <2>2 DEF c
  <2>4. f.available = w.available + c /\ f.coin = w.coin - k
    BY <1>1, <2>3, FillSellSound
  <2> QED
    BY <1>4, <2>4 DEF Moved, c, w, f
<1> QED
  BY <1>3, <1>4

\* The books follow a fill.
LEMMA SettleRuns ==
    ASSUME NEW e, EngineOK(e), NEW o \in Orders, InStore(e, o), NEW v \in Int,
           NEW k \in Nat, k > 0, NEW price \in Int, price > 0,
           NEW y \in ExOrder, v + k <= y.size, NEW n \in Net,
           Running(e.wallet, e.store[o].side, v, y, n)
    PROVE  Running(SettleFill(e, o, k, price, FillPrice * k, FillFee * k),
                   e.store[o].side, v + k, y, n)
<1> DEFINE w == e.wallet
           f == SettleFill(e, o, k, price, FillPrice * k, FillFee * k)
           side == e.store[o].side
<1>1. w \in Wallet /\ w.reserved \in Nat
  BY WalletFields DEF EngineOK, WalletOK
<1>2. f \in Wallet
  <2> DEFINE a == FillPrice * k
             b == FillFee * k
  <2>1. a \in Int /\ b \in Int /\ k \in Int
    BY PriceTypes
  <2> HIDE DEF a, b
  <2>2. WalletOK(SettleFill(e, o, k, price, a, b))
    BY <2>1, SettleFillOK
  <2> QED
    BY <2>2 DEF WalletOK, a, b
<1>3. ASSUME side = "BID" PROVE w.reserved >= Cost * k
  <2>1. w.reserved >= Cost * (y.size - v)
    BY <1>3 DEF Running, Bought
  <2>2. k <= y.size - v /\ y.size - v \in Int /\ k \in Int
    BY DEF ExOrder
  <2>3. Cost * k <= Cost * (y.size - v)
    BY <2>2, PriceTypes, Monotone
  <2>4. Cost * k \in Int /\ Cost * (y.size - v) \in Int
    BY <2>2, PriceTypes
  <2> QED
    BY <1>1, <2>1, <2>3, <2>4
<1>4. Moved(w, f, side, k)
  BY <1>3, SettleMoves
<1> HIDE DEF f
<1>5. Running(f, side, v + k, y, n)
  BY <1>1, <1>2, <1>4, RunningMoves
<1> QED
  BY <1>5 DEF f

\* A purchase has coin once any fill was settled.
LEMMA SettleHolds ==
    ASSUME NEW e, EngineOK(e), NEW o \in Orders, InStore(e, o), e.store[o].side = "BID",
           NEW v, NEW filled, Holding(e.wallet, "BID", v, filled),
           NEW vol \in Int, vol > 0, NEW price \in Int, price > 0,
           NEW funds \in Int, NEW fee \in Int, funds + fee > 0
    PROVE  SettleFill(e, o, vol, price, funds, fee).coin > 0
<1> DEFINE w == e.wallet
           f == SettleFill(e, o, vol, price, funds, fee)
           krw == funds + fee
<1>1. WalletOK(w) /\ w.reserved \in Nat /\ w.coin \in Int
  BY WalletFields DEF EngineOK, WalletOK
<1>2. o = e.buy /\ w.token.active
  BY EngineAssumption DEF EngineOK
<1>3. f = FinalizeFillBuy(w, krw, vol, price) /\ krw \in Int /\ krw > 0
  BY <1>2 DEF SettleFill
<1>4. w.coin >= 0 /\ (w.coin = 0 => w.reserved > 0)
  BY DEF Holding
<1> HIDE DEF w, f, krw
<1>5. \/ f = w /\ ~Booked(w, krw, vol, price)
      \/ Booked(w, krw, vol, price) /\ f.coin = w.coin + vol
  BY <1>1, <1>3, FillBuySound
<1>6. w.reserved > 0 => Booked(w, krw, vol, price)
  BY <1>2, <1>3 DEF Booked
<1>7. f.coin > 0
  BY <1>1, <1>4, <1>5, <1>6
<1> QED
  BY <1>7 DEF f

\* The margin of a reservation covers the fees of what it can buy.
LEMMA MarginCovers ==
    ASSUME NEW c \in Nat, NEW d \in Nat, d > 0, NEW p \in Nat, p > 0, NEW m \in Nat,
           c * d <= p * m, NEW z \in Nat
    PROVE  c * (z \div p) <= (z * m) \div d
<1> DEFINE u == z \div p
<1>1. u \in Nat /\ p * u <= z
  OBVIOUS
<1> HIDE DEF u
<1>2. /\ c * d \in Int /\ p * m \in Int /\ p * u \in Int /\ c * u \in Int /\ z * m \in Int
      /\ (c * u) * d \in Int
  BY <1>1
<1>3. u * (c * d) <= u * (p * m)
  BY <1>1, <1>2, Monotone
<1>4. m * (p * u) <= m * z
  BY <1>1, <1>2, Monotone
<1>5. u * (c * d) = (c * u) * d
  BY <1>1
<1>6. u * (p * m) = m * (p * u)
  BY <1>1
<1>7. m * z = z * m
  OBVIOUS
<1>8. (c * u) * d <= z * m
  BY <1>2, <1>3, <1>4, <1>5, <1>6, <1>7
<1>9. ASSUME NEW a \in Int, NEW b \in Int, a * d <= b PROVE a <= b \div d
  BY <1>9
<1> QED
  BY <1>2, <1>8, <1>9 DEF u

----------------------------------------------------------------------------
(* The end of an order *)

\* The wallet when an order of this side has ended.
Closed(w, side, mark) ==
    IF side = "BID" THEN FinalizeOrder(w) ELSE FinalizeSellOrder(w, mark)

\* A strategy in this state takes an end with this effect as leaving it with coin.
Holds(state, effect) ==
    \/ state = "PendingEntry" /\ effect = "Opened"
    \/ state = "PendingExit" /\ effect # "Closed"

\* Where no coin is dust, only nothing is.
LEMMA OnlyNothingIsDust ==
    ASSUME NoDust, NEW w \in Wallet, NEW mark \in Closes \cup {0}
    PROVE  IsDust(w, mark) <=> w.coin <= 0
<1>1. w.coin \in Int /\ InitDust \in Nat /\ CoinEpsilon = 1
  BY WalletFields, AccountAssumption DEF NoDust
<1>2. mark \in Int /\ (mark > 0 => mark >= InitDust)
  <2>1. \A p \in Closes : p \in Int /\ p >= InitDust
    BY WorkerAssumption DEF NoDust
  <2> QED
    BY <2>1
<1>3. ASSUME mark > 0, w.coin > 0 PROVE w.coin * mark >= InitDust
  <2>1. w.coin * mark >= mark /\ w.coin * mark \in Int
    BY <1>1, <1>2, <1>3, Product
  <2> QED
    BY <1>1, <1>2, <1>3, <2>1
<1>4. ASSUME w.coin > 0, IsDust(w, mark) PROVE FALSE
  <2> DEFINE value == w.coin * mark
  <2>1. mark > 0 /\ value < InitDust
    BY <1>1, <1>4 DEF IsDust
  <2>2. value >= InitDust /\ value \in Int
    BY <1>1, <1>2, <1>3, <1>4, <2>1
  <2> HIDE DEF value
  <2> QED
    BY <1>1, <2>1, <2>2
<1> QED
  BY <1>1, <1>4 DEF IsDust

\* The wallet's fields when an order has ended.
LEMMA ClosedFields ==
    ASSUME NEW w, WalletOK(w), NEW side, side = "BID" => w.token.active, NEW mark \in Int
    PROVE  LET f == Closed(w, side, mark)
           IN  IF side = "BID" THEN f.available = w.available + w.reserved /\ f.coin = w.coin
               ELSE f.available = w.available /\ f.coin = IF IsDust(w, mark) THEN 0 ELSE w.coin
<1>1. CASE side = "BID"
  BY <1>1, OrderSound DEF Closed
<1>2. CASE side # "BID"
  BY <1>2, SellOrderSound DEF Closed
<1> QED
  BY <1>1, <1>2

\* An order whose whole volume is settled leaves the books as they are between
\* orders.
LEMMA ClosedSettles ==
    ASSUME NEW w, WalletOK(w), NEW side, side = "BID" => w.token.active,
           NEW mark \in Closes \cup {0}, NEW y \in ExOrder, y.vol <= y.size, NEW n \in Net,
           Running(w, side, y.vol, y, n)
    PROVE  Settled(Closed(w, side, mark), n)
<1> DEFINE f == Closed(w, side, mark)
<1>1. /\ w \in Wallet /\ w.available \in Int /\ w.reserved \in Int /\ w.coin \in Int
      /\ y.vol \in Int /\ y.size \in Int /\ n.krw \in Int /\ n.coin \in Int
      /\ mark \in Int /\ y.vol - y.vol = 0
  BY WalletFields, WorkerAssumption DEF WalletOK, ExOrder, Net
<1>2. Cost * (y.vol - y.vol) = 0 /\ Gain * (y.vol - y.vol) = 0
  BY <1>1, PriceTypes
<1>3. IF side = "BID" THEN f.available = w.available + w.reserved /\ f.coin = w.coin
      ELSE f.available = w.available /\ f.coin = IF IsDust(w, mark) THEN 0 ELSE w.coin
  BY <1>1, ClosedFields
<1> HIDE DEF f
<1>4. CASE side = "BID"
  <2>1. /\ w.available + w.reserved = n.krw + Cost * (y.vol - y.vol)
        /\ Within(w.coin + (y.vol - y.vol), n.coin)
    BY <1>4 DEF Running, Bought
  <2>2. w.coin + (y.vol - y.vol) = w.coin
    BY <1>1
  <2>3. Within(f.coin, n.coin) /\ f.available = n.krw
    BY <1>1, <1>2, <1>3, <1>4, <2>1, <2>2
  <2> QED
    BY <2>3 DEF Settled, f
<1>5. CASE side # "BID"
  <2>1. /\ w.available + Gain * (y.vol - y.vol) = n.krw
        /\ Within(w.coin - (y.vol - y.vol), n.coin)
        /\ w.coin = y.size - y.vol
    BY <1>5 DEF Running, Sold
  <2>2. w.coin - (y.vol - y.vol) = w.coin /\ w.coin >= 0
    BY <1>1, <2>1
  <2>3. w.coin <= n.coin /\ (NoDust => w.coin = n.coin)
    BY <2>1, <2>2 DEF Within
  <2>4. f.available = n.krw
    BY <1>1, <1>2, <1>3, <1>5, <2>1
  <2>5. NoDust => f.coin = w.coin
    BY <1>1, <1>3, <1>5, <2>2, OnlyNothingIsDust
  <2>6. f.coin <= n.coin
    BY <1>1, <1>3, <1>5, <2>2, <2>3
  <2> QED
    BY <2>3, <2>4, <2>5, <2>6 DEF Settled, Within, f
<1> QED
  BY <1>4, <1>5

\* The effect that the strategy is told is what the wallet is left with.
LEMMA ClosedHolds ==
    ASSUME NoDust, NEW w, WalletOK(w), NEW side \in Sides, side = "BID" => w.token.active,
           NEW mark \in Closes \cup {0}, NEW filled \in Nat, Holding(w, side, filled, filled),
           NEW state, state = IF side = "BID" THEN "PendingEntry" ELSE "PendingExit"
    PROVE  LET f == Closed(w, side, mark)
           IN  IF Holds(state, EffectOf(side, filled, f.coin)) THEN f.coin > 0 ELSE f.coin = 0
<1> DEFINE f == Closed(w, side, mark)
<1>1. /\ w \in Wallet /\ w.coin \in Int /\ mark \in Int /\ CoinEpsilon = 1
  BY WalletFields, WorkerAssumption DEF WalletOK, NoDust
<1>2. IF side = "BID" THEN f.available = w.available + w.reserved /\ f.coin = w.coin
      ELSE f.available = w.available /\ f.coin = IF IsDust(w, mark) THEN 0 ELSE w.coin
  BY <1>1, ClosedFields
<1>3. IsDust(w, mark) <=> w.coin <= 0
  BY <1>1, OnlyNothingIsDust
<1> HIDE DEF f
<1>4. CASE side = "BID"
  <2>1. f.coin = w.coin /\ w.coin >= 0 /\ (w.coin = 0 <=> filled = 0)
    BY <1>1, <1>2, <1>4 DEF Holding
  <2> QED
    BY <1>1, <1>4, <2>1 DEF Holds, EffectOf, f
<1>5. CASE side = "ASK"
  <2>1. f.coin = (IF w.coin <= 0 THEN 0 ELSE w.coin) /\ (filled = 0 => w.coin > 0)
    BY <1>2, <1>3, <1>5 DEF Holding
  <2> QED
    BY <1>1, <1>5, <2>1 DEF Holds, EffectOf, f
<1> QED
  BY <1>4, <1>5 DEF Sides

----------------------------------------------------------------------------
(* The flow of reports: exchange, queue, trades seen *)

\* Every queued message of order o is of a volume not below v, a trade above it.
Ahead(q, o, v) ==
    \A i \in 1..Len(q) : q[i].order = o =>
        q[i].vol >= v /\ (q[i].state = "trade" => q[i].vol > v)

\* m comes after k.
After(m, k) == k.vol <= m.vol /\ (m.state = "trade" => k.vol < m.vol)

Rising(q) ==
    \A i, j \in 1..Len(q) : i < j /\ q[i].order = q[j].order => After(q[j], q[i])

\* What a message says of its order.
ReportOK(m, x) ==
    /\ x[m.order].state # "none" /\ m.vol <= x[m.order].vol
    /\ m.state = "trade" => m.vol > 0 /\ m.known
    /\ m.state = "wait" => m.vol = 0 /\ m.known
    /\ m.state \in {"done", "cancel"} => Ended(x, m.order) /\ m.vol = x[m.order].vol

FeedOK(q, x) ==
    /\ q \in Seq(Message) /\ Rising(q)
    /\ \A i \in 1..Len(q) : ReportOK(q[i], x)

\* A trade seen is behind every message of its order.
SeenOK(sn, q, x) ==
    \A i \in 1..Len(sn) : /\ x[sn[i][1]].state # "none" /\ sn[i][2] <= x[sn[i][1]].vol
                          /\ Ahead(q, sn[i][1], sn[i][2])

\* The exchange's orders keep side and size, fill, and stay as they ended.
Grows(x, y) ==
    \A o \in Orders : x[o].state # "none" =>
        /\ y[o].state # "none" /\ y[o].side = x[o].side /\ y[o].size = x[o].size
        /\ x[o].vol <= y[o].vol
        /\ Ended(x, o) => y[o] = x[o]

\* The oldest message is taken off.
LEMMA FeedTail ==
    ASSUME NEW q, NEW x, FeedOK(q, x), q # <<>>, NEW r, r = Tail(q)
    PROVE  /\ FeedOK(r, x) /\ Head(q) \in Message /\ ReportOK(Head(q), x)
           /\ Ahead(r, Head(q).order, Head(q).vol)
<1> DEFINE m == Head(q)
<1>1. q \in Seq(Message)
  BY DEF FeedOK
<1>2. /\ r \in Seq(Message) /\ Len(q) \in Nat /\ Len(q) > 0 /\ Len(r) = Len(q) - 1
      /\ \A i \in 1..Len(r) : r[i] = q[i + 1]
      /\ m = q[1] /\ m \in Message
  BY <1>1
<1> HIDE DEF m
<1>3. 1 \in 1..Len(q) /\ \A i \in 1..Len(r) : i + 1 \in 1..Len(q) /\ 1 < i + 1
  BY <1>2
<1>4. Rising(r)
  <2> SUFFICES ASSUME NEW i \in 1..Len(r), NEW j \in 1..Len(r), i < j, r[i].order = r[j].order
               PROVE  After(r[j], r[i])
    BY DEF Rising
  <2>1. i + 1 < j + 1 /\ r[i] = q[i + 1] /\ r[j] = q[j + 1]
    BY <1>2
  <2> QED
    BY <1>3, <2>1 DEF FeedOK, Rising
<1>5. \A i \in 1..Len(r) : ReportOK(r[i], x)
  BY <1>2, <1>3 DEF FeedOK
<1>6. Ahead(r, m.order, m.vol)
  <2> SUFFICES ASSUME NEW i \in 1..Len(r), r[i].order = m.order
               PROVE  r[i].vol >= m.vol /\ (r[i].state = "trade" => r[i].vol > m.vol)
    BY DEF Ahead
  <2>1. After(q[i + 1], q[1])
    BY <1>2, <1>3 DEF FeedOK, Rising
  <2>2. r[i].vol \in Int /\ m.vol \in Int
    <3>1. r[i] \in Message
      BY <1>2
    <3> QED
      BY <1>2, <3>1 DEF Message
  <2> QED
    BY <1>2, <2>1, <2>2 DEF After
<1> QED
  BY <1>2, <1>3, <1>4, <1>5, <1>6 DEF FeedOK, m

\* The queue stays ahead when its oldest message is taken off.
LEMMA AheadTail ==
    ASSUME NEW q \in Seq(Message), q # <<>>, NEW r, r = Tail(q), NEW o, NEW v, Ahead(q, o, v)
    PROVE  /\ Ahead(r, o, v)
           /\ Head(q).order = o =>
                 Head(q).vol >= v /\ (Head(q).state = "trade" => Head(q).vol > v)
<1>1. /\ Len(q) \in Nat /\ Len(q) > 0 /\ Len(r) = Len(q) - 1
      /\ \A i \in 1..Len(r) : r[i] = q[i + 1]
      /\ Head(q) = q[1]
  OBVIOUS
<1>2. 1 \in 1..Len(q) /\ \A i \in 1..Len(r) : i + 1 \in 1..Len(q)
  BY <1>1
<1> QED
  BY <1>1, <1>2 DEF Ahead

\* A message is appended after all others of its order.
LEMMA FeedAppend ==
    ASSUME NEW q, NEW x, FeedOK(q, x), NEW m \in Message, ReportOK(m, x),
           \A i \in 1..Len(q) : q[i].order = m.order => After(m, q[i]),
           NEW r, r = Append(q, m)
    PROVE  FeedOK(r, x)
<1>1. q \in Seq(Message)
  BY DEF FeedOK
<1>2. /\ r \in Seq(Message) /\ Len(q) \in Nat /\ Len(r) = Len(q) + 1
      /\ \A i \in 1..Len(q) : r[i] = q[i]
      /\ r[Len(q) + 1] = m
  BY <1>1
<1>3. \A i \in 1..Len(r) : i \in 1..Len(q) \/ i = Len(q) + 1
  BY <1>2
<1>4. Rising(r)
  <2> SUFFICES ASSUME NEW i \in 1..Len(r), NEW j \in 1..Len(r), i < j, r[i].order = r[j].order
               PROVE  After(r[j], r[i])
    BY DEF Rising
  <2>1. i \in 1..Len(q)
    BY <1>2
  <2>2. CASE j \in 1..Len(q)
    BY <1>2, <2>1, <2>2 DEF FeedOK, Rising
  <2>3. CASE j = Len(q) + 1
    BY <1>2, <2>1, <2>3
  <2> QED
    BY <1>3, <2>2, <2>3
<1>5. \A i \in 1..Len(r) : ReportOK(r[i], x)
  BY <1>2, <1>3 DEF FeedOK
<1> QED
  BY <1>2, <1>4, <1>5 DEF FeedOK

\* The queue stays ahead of what the new message is ahead of.
LEMMA AheadAppend ==
    ASSUME NEW q \in Seq(Message), NEW m \in Message, NEW r, r = Append(q, m),
           NEW o, NEW v, Ahead(q, o, v),
           m.order = o => m.vol >= v /\ (m.state = "trade" => m.vol > v)
    PROVE  Ahead(r, o, v)
<1>1. /\ Len(q) \in Nat /\ Len(r) = Len(q) + 1
      /\ \A i \in 1..Len(q) : r[i] = q[i]
      /\ r[Len(q) + 1] = m
  OBVIOUS
<1>2. \A i \in 1..Len(r) : i \in 1..Len(q) \/ i = Len(q) + 1
  BY <1>1
<1> QED
  BY <1>1, <1>2 DEF Ahead

\* Messages stay true while the exchange goes on.
LEMMA FeedGrows ==
    ASSUME NEW q, NEW x \in [Orders -> ExOrder], NEW y \in [Orders -> ExOrder],
           FeedOK(q, x), Grows(x, y)
    PROVE  FeedOK(q, y)
<1>1. q \in Seq(Message)
  BY DEF FeedOK
<1>2. \A i \in 1..Len(q) : q[i] \in Message
  BY <1>1
<1>3. ASSUME NEW i \in 1..Len(q) PROVE ReportOK(q[i], y)
  <2> DEFINE m == q[i]
  <2>1. m \in Message /\ ReportOK(m, x)
    BY <1>2 DEF FeedOK
  <2> HIDE DEF m
  <2>2. m.order \in Orders /\ m.vol \in Int
    BY <2>1 DEF Message
  <2>3. x[m.order].vol \in Int /\ y[m.order].vol \in Int
    BY <2>2 DEF ExOrder
  <2>4. ReportOK(m, y)
    BY <2>1, <2>2, <2>3 DEF ReportOK, Grows, Ended
  <2> QED
    BY <2>4 DEF m
<1> QED
  BY <1>3 DEF FeedOK

\* Trades seen stay behind the queue while the exchange goes on.
LEMMA SeenGrows ==
    ASSUME NEW sn \in Seq(Trades), NEW q, NEW x \in [Orders -> ExOrder],
           NEW y \in [Orders -> ExOrder], SeenOK(sn, q, x), Grows(x, y)
    PROVE  SeenOK(sn, q, y)
<1> SUFFICES ASSUME NEW i \in 1..Len(sn)
             PROVE  /\ y[sn[i][1]].state # "none" /\ sn[i][2] <= y[sn[i][1]].vol
                    /\ Ahead(q, sn[i][1], sn[i][2])
  BY DEF SeenOK
<1> DEFINE o == sn[i][1]
           v == sn[i][2]
<1>1. sn[i] \in Orders \X Nat
  BY WorkerAssumption
<1>2. o \in Orders /\ v \in Int
  BY <1>1
<1>3. x[o].state # "none" /\ v <= x[o].vol /\ Ahead(q, o, v)
  BY DEF SeenOK
<1> HIDE DEF o, v
<1>4. x[o].vol \in Int /\ y[o].vol \in Int
  BY <1>2 DEF ExOrder
<1>5. y[o].state # "none" /\ v <= y[o].vol
  BY <1>2, <1>3, <1>4 DEF Grows
<1> QED
  BY <1>3, <1>5 DEF o, v

\* A message tells news: it is after all that its order did so far.
New(m, x) ==
    x[m.order].state # "none" =>
        m.vol >= x[m.order].vol /\ (m.state = "trade" => m.vol > x[m.order].vol)

\* The queue, whether the message reaches it or is lost, stays ahead of what was
\* settled.
LEMMA AheadNew ==
    ASSUME NEW q \in Seq(Message), NEW x \in [Orders -> ExOrder], NEW m \in Message,
           New(m, x), NEW r, r = q \/ r = Append(q, m), NEW o \in Orders, NEW v \in Int,
           Ahead(q, o, v), x[o].state # "none", v <= x[o].vol
    PROVE  Ahead(r, o, v)
<1>1. m.vol \in Int /\ x[o].vol \in Int
  BY DEF Message, ExOrder
<1>2. m.order = o => m.vol >= v /\ (m.state = "trade" => m.vol > v)
  BY <1>1 DEF New
<1>3. CASE r = q
  BY <1>3
<1>4. CASE r = Append(q, m)
  BY <1>2, <1>4, AheadAppend
<1> QED
  BY <1>3, <1>4

\* The exchange goes on and tells it.
LEMMA Arrives ==
    ASSUME NEW q, NEW x \in [Orders -> ExOrder], NEW y \in [Orders -> ExOrder],
           FeedOK(q, x), Grows(x, y), NEW m \in Message, ReportOK(m, y), New(m, x),
           NEW sn \in Seq(Trades), SeenOK(sn, q, x), NEW r, r = q \/ r = Append(q, m)
    PROVE  FeedOK(r, y) /\ SeenOK(sn, r, y)
<1>1. q \in Seq(Message) /\ FeedOK(q, y) /\ SeenOK(sn, q, y)
  BY FeedGrows, SeenGrows DEF FeedOK
<1>2. FeedOK(r, y)
  <2>1. ASSUME NEW i \in 1..Len(q), q[i].order = m.order PROVE After(m, q[i])
    <3> DEFINE k == q[i]
    <3>1. k \in Message /\ ReportOK(k, x) /\ k.order = m.order
      BY <1>1, <2>1 DEF FeedOK
    <3> HIDE DEF k
    <3>2. k.vol \in Int /\ m.vol \in Int /\ m.order \in Orders
      BY <3>1 DEF Message
    <3>3. x[m.order].vol \in Int
      BY <3>2 DEF ExOrder
    <3>4. After(m, k)
      BY <3>1, <3>2, <3>3 DEF After, New, ReportOK
    <3> QED
      BY <3>4 DEF k
  <2>2. CASE r = q
    BY <1>1, <2>2
  <2>3. CASE r = Append(q, m)
    BY <1>1, <2>1, <2>3, FeedAppend
  <2> QED
    BY <2>2, <2>3
<1>3. ASSUME NEW i \in 1..Len(sn) PROVE Ahead(r, sn[i][1], sn[i][2])
  <2>1. sn[i] \in Orders \X Nat
    BY WorkerAssumption
  <2>2. sn[i][1] \in Orders /\ sn[i][2] \in Int
    BY <2>1
  <2>3. /\ x[sn[i][1]].state # "none" /\ sn[i][2] <= x[sn[i][1]].vol
        /\ Ahead(q, sn[i][1], sn[i][2])
    BY DEF SeenOK
  <2> QED
    BY <1>1, <2>2, <2>3, AheadNew
<1>4. SeenOK(sn, r, y)
  BY <1>1, <1>3 DEF SeenOK
<1> QED
  BY <1>2, <1>4

----------------------------------------------------------------------------
(* The invariant of the amounts *)

\* The store's entry of an order is behind the exchange's.
EntryOK(a, y) ==
    /\ a.side = y.side /\ a.vol >= 0 /\ a.vol <= y.vol
    /\ a.funds >= 0 /\ a.funds <= FillPrice * a.vol /\ a.fee = FillFee * a.vol

StoreOK(e, x) == \A o \in Orders : InStore(e, o) => EntryOK(e.store[o], x[o])

\* Whatever is lost, what the engine knows is what the exchange once said.
FlowOK(e, x, n, q, c) ==
    /\ c \in Closes \cup {0} /\ e.mark \in Closes \cup {0} /\ n \in Net
    /\ \A o \in Orders : x[o].vol <= x[o].size
    /\ FeedOK(q, x) /\ SeenOK(e.seen, q, x) /\ StoreOK(e, x)

\* An end on its way tells the strategy what the wallet holds.
EndsHold(s, e) ==
    \A i \in 1..Len(e.events) : EndAt(e.events, i) =>
        IF Holds(s.state, e.events[i].effect) THEN e.wallet.coin > 0 ELSE e.wallet.coin = 0

IdleHolds(state, coin, tn) ==
    /\ state = "InPosition" => coin > 0
    /\ state = "Flat" => coin >= 0 /\ ("unsynced" \notin tn => coin = 0)

\* PositionMatchesWallet, and what becomes of it when an order runs or has ended.
PositionOK(s, e, x, tn) ==
    /\ \A o \in Orders : InStore(e, o) =>
           Holding(e.wallet, e.store[o].side, e.store[o].vol, x[o].vol)
    /\ EndsHold(s, e)
    /\ IdleHolds(s.state, e.wallet.coin, tn)

BookOK(w, a, y, n) == a.funds = FillPrice * a.vol /\ Running(w, a.side, a.vol, y, n)

\* BooksExact, and what becomes of it when an order runs.
BooksOK(e, x, n, q, pl) ==
    /\ \A o \in Orders : x[o].state # "none" => o \in pl
    /\ \A o \in Orders : InStore(e, o) =>
           BookOK(e.wallet, e.store[o], x[o], n) /\ Ahead(q, o, e.store[o].vol)
    /\ (\A o \in Orders : ~InStore(e, o)) => Settled(e.wallet, n)

Clean(tn) == tn \subseteq {"unsynced"}

AmountsOK(s, e, x, n, q, c, pl, tn) ==
    /\ FlowOK(e, x, n, q, c)
    /\ NoDust => PositionOK(s, e, x, tn)
    /\ Clean(tn) => BooksOK(e, x, n, q, pl)

JInv == IInv /\ AmountsOK(strategy, engine, ex, net, queue, candle, placed, taint)

\* The store of an engine has one order at most.
LEMMA OnlyOne ==
    ASSUME NEW e, EngineOK(e), NEW o \in Orders, NEW p \in Orders, InStore(e, o), InStore(e, p)
    PROVE  o = p
BY EngineAssumption DEF EngineOK

\* The oldest message is dropped.
LEMMA DropAmounts ==
    ASSUME NEW s, NEW e \in Engine, NEW x, NEW n, NEW q, NEW c, NEW pl, NEW tn,
           AmountsOK(s, e, x, n, q, c, pl, tn), q # <<>>, NEW r, r = Tail(q)
    PROVE  AmountsOK(s, e, x, n, r, c, pl, tn)
<1>1. FeedOK(q, x) /\ q \in Seq(Message)
  BY DEF AmountsOK, FlowOK, FeedOK
<1>2. FeedOK(r, x)
  BY <1>1, FeedTail
<1>3. \A o, v : Ahead(q, o, v) => Ahead(r, o, v)
  BY <1>1, AheadTail
<1>4. FlowOK(e, x, n, r, c)
  BY <1>2, <1>3 DEF AmountsOK, FlowOK, SeenOK
<1>5. Clean(tn) => BooksOK(e, x, n, r, pl)
  BY <1>3 DEF AmountsOK, BooksOK
<1> QED
  BY <1>4, <1>5 DEF AmountsOK

\* What the engine knows stays behind the exchange.
LEMMA StoreGrows ==
    ASSUME NEW e \in Engine, NEW x \in [Orders -> ExOrder], NEW y \in [Orders -> ExOrder],
           StoreOK(e, x), Grows(x, y), \A o \in Orders : InStore(e, o) => x[o].state # "none"
    PROVE  StoreOK(e, y)
<1> SUFFICES ASSUME NEW o \in Orders, InStore(e, o) PROVE EntryOK(e.store[o], y[o])
  BY DEF StoreOK
<1>1. e.store[o] \in StoredOrder
  BY EngineFields
<1>2. e.store[o].vol \in Int /\ x[o].vol \in Int /\ y[o].vol \in Int
  BY <1>1 DEF StoredOrder, ExOrder
<1>3. EntryOK(e.store[o], x[o]) /\ x[o].vol <= y[o].vol /\ y[o].side = x[o].side
  BY DEF StoreOK, Grows
<1> QED
  BY <1>2, <1>3 DEF EntryOK

\* Fills leave what is known of the position.
LEMMA PositionGrows ==
    ASSUME NEW s, NEW e, NEW x \in [Orders -> ExOrder], NEW y \in [Orders -> ExOrder], NEW tn,
           PositionOK(s, e, x, tn), Grows(x, y),
           \A o \in Orders : InStore(e, o) => x[o].state # "none"
    PROVE  PositionOK(s, e, y, tn)
<1>1. ASSUME NEW o \in Orders, InStore(e, o)
      PROVE  Holding(e.wallet, e.store[o].side, e.store[o].vol, y[o].vol)
  <2>1. Holding(e.wallet, e.store[o].side, e.store[o].vol, x[o].vol) /\ x[o].vol <= y[o].vol
    BY <1>1 DEF PositionOK, Grows
  <2>2. x[o].vol \in Nat /\ y[o].vol \in Nat
    BY DEF ExOrder
  <2> QED
    BY <2>1, <2>2 DEF Holding
<1> QED
  BY <1>1 DEF PositionOK

\* KRW and coin of the exchange after one unit of an order of this side.
Traded(n, side) ==
    IF side = "BID"
    THEN [krw |-> n.krw - FillPrice - FillFee, coin |-> n.coin + 1]
    ELSE [krw |-> n.krw + FillPrice - FillFee, coin |-> n.coin - 1]

\* The books of a running order when a unit of it is traded.
LEMMA RunningTraded ==
    ASSUME NEW w \in Wallet, NEW v \in Int, NEW x \in ExOrder, NEW y \in ExOrder,
           y.vol = x.vol + 1, y.size = x.size, NEW n \in Net, NEW side,
           Running(w, side, v, x, n)
    PROVE  Running(w, side, v, y, Traded(n, side)) /\ Traded(n, side) \in Net
<1> DEFINE t == Traded(n, side)
<1>1. /\ w.available \in Int /\ w.reserved \in Int /\ w.coin \in Int
      /\ x.vol \in Int /\ x.size \in Int /\ n.krw \in Int /\ n.coin \in Int
  BY WalletFields DEF ExOrder, Net
<1>2. /\ FillPrice \in Int /\ FillFee \in Int /\ Cost \in Int /\ Gain \in Int
      /\ Cost = FillPrice + FillFee /\ Gain = FillPrice - FillFee
  BY PriceTypes DEF Cost, Gain
<1>3. /\ t.krw = IF side = "BID" THEN n.krw - Cost ELSE n.krw + Gain
      /\ t.coin = IF side = "BID" THEN n.coin + 1 ELSE n.coin - 1
      /\ t \in Net
  BY <1>1, <1>2 DEF Traded, Net
<1> HIDE DEF t
<1>4. /\ Cost * (y.vol - v) = Cost * (x.vol - v) + Cost
      /\ Gain * (y.vol - v) = Gain * (x.vol - v) + Gain
      /\ Cost * (x.vol - v) \in Int /\ Gain * (x.vol - v) \in Int
  <2> DEFINE d == x.vol - v
  <2>1. y.vol - v = d + 1 /\ d \in Int
    BY <1>1
  <2> HIDE DEF d
  <2>2. ASSUME NEW c \in Int PROVE c * (d + 1) = c * d + c /\ c * d \in Int
    BY <2>1
  <2> QED
    BY <1>2, <2>1, <2>2 DEF d
<1> DEFINE a == Cost * (x.vol - v)
           b == Gain * (x.vol - v)
<1>5. CASE side = "BID"
  <2>1. /\ w.available + w.reserved = n.krw + a
        /\ Within(w.coin + (x.vol - v), n.coin)
        /\ w.reserved >= Cost * (x.size - v)
    BY <1>5 DEF Running, Bought
  <2>2. Within(w.coin + (y.vol - v), t.coin)
    BY <1>1, <1>3, <1>5, <2>1 DEF Within
  <2>3. Cost * (y.vol - v) = a + Cost /\ a \in Int /\ t.krw = n.krw - Cost
    BY <1>3, <1>4, <1>5
  <2> HIDE DEF a
  <2>4. w.available + w.reserved = t.krw + (a + Cost)
    BY <1>1, <1>2, <2>1, <2>3
  <2> QED
    BY <1>3, <1>5, <2>1, <2>2, <2>3, <2>4 DEF Running, Bought, t
<1>6. CASE side # "BID"
  <2>1. /\ w.available + b = n.krw
        /\ Within(w.coin - (x.vol - v), n.coin)
        /\ w.coin = x.size - v
    BY <1>6 DEF Running, Sold
  <2>2. Within(w.coin - (y.vol - v), t.coin)
    BY <1>1, <1>3, <1>6, <2>1 DEF Within
  <2>3. Gain * (y.vol - v) = b + Gain /\ b \in Int /\ t.krw = n.krw + Gain
    BY <1>3, <1>4, <1>6
  <2> HIDE DEF b
  <2>4. w.available + (b + Gain) = t.krw
    BY <1>1, <1>2, <2>1, <2>3
  <2> QED
    BY <1>3, <1>6, <2>1, <2>2, <2>3, <2>4 DEF Running, Sold, t
<1> QED
  BY <1>5, <1>6

\* An order of the exchange goes on: side and size are kept, the volume grows.
Later(a, z) ==
    a.state # "none" =>
        z.state # "none" /\ z.side = a.side /\ z.size = a.size /\ a.vol <= z.vol

\* One order of the exchange changes.
LEMMA OrderGrows ==
    ASSUME NEW x \in [Orders -> ExOrder], NEW o \in Orders, NEW z \in ExOrder,
           NEW y, y = [x EXCEPT ![o] = z], ~Ended(x, o), Later(x[o], z)
    PROVE  /\ y \in [Orders -> ExOrder] /\ Grows(x, y) /\ y[o] = z
           /\ \A p \in Orders : p # o => y[p] = x[p]
<1>1. y \in [Orders -> ExOrder] /\ y[o] = z /\ \A p \in Orders : p # o => y[p] = x[p]
  OBVIOUS
<1>2. \A p \in Orders : x[p].vol \in Int
  BY DEF ExOrder
<1>3. Grows(x, y)
  BY <1>1, <1>2 DEF Grows, Ended, Later
<1> QED
  BY <1>1, <1>3

\* The parts of the invariant that the exchange and the queue can disturb.
LEMMA ExchangeAmounts ==
    ASSUME NEW s, NEW e \in Engine, NEW x \in [Orders -> ExOrder],
           NEW y \in [Orders -> ExOrder], NEW n, NEW t \in Net, NEW q, NEW r, NEW c,
           NEW pl, NEW tn, AmountsOK(s, e, x, n, q, c, pl, tn), Grows(x, y),
           \A o \in Orders : InStore(e, o) => x[o].state # "none",
           \A o \in Orders : y[o].vol <= y[o].size,
           NEW m \in Message, ReportOK(m, y), New(m, x), r = q \/ r = Append(q, m),
           Clean(tn) => /\ \A o \in Orders : y[o].state # "none" => o \in pl
                        /\ \A o \in Orders : InStore(e, o) => BookOK(e.wallet, e.store[o], y[o], t)
                        /\ (\A o \in Orders : ~InStore(e, o)) => Settled(e.wallet, t)
    PROVE  AmountsOK(s, e, y, t, r, c, pl, tn)
<1>1. FeedOK(q, x) /\ SeenOK(e.seen, q, x) /\ StoreOK(e, x) /\ e.seen \in Seq(Trades)
  BY EngineFields DEF AmountsOK, FlowOK
<1>2. FeedOK(r, y) /\ SeenOK(e.seen, r, y)
  BY <1>1, Arrives
<1>3. StoreOK(e, y)
  BY <1>1, StoreGrows
<1>4. FlowOK(e, y, t, r, c)
  BY <1>2, <1>3 DEF AmountsOK, FlowOK
<1>5. NoDust => PositionOK(s, e, y, tn)
  BY PositionGrows DEF AmountsOK
<1>6. ASSUME Clean(tn), NEW o \in Orders, InStore(e, o) PROVE Ahead(r, o, e.store[o].vol)
  <2>1. e.store[o] \in StoredOrder /\ EntryOK(e.store[o], x[o]) /\ q \in Seq(Message)
    BY <1>1, <1>6, EngineFields DEF StoreOK, FeedOK
  <2>2. Ahead(q, o, e.store[o].vol) /\ e.store[o].vol \in Int /\ e.store[o].vol <= x[o].vol
    BY <1>6, <2>1 DEF AmountsOK, BooksOK, EntryOK, StoredOrder
  <2> QED
    BY <1>6, <2>1, <2>2, AheadNew
<1>7. Clean(tn) => BooksOK(e, y, t, r, pl)
  BY <1>6 DEF BooksOK
<1> QED
  BY <1>4, <1>5, <1>7 DEF AmountsOK

\* One coin unit is traded.
LEMMA FillAmounts ==
    ASSUME JInv, NEW o \in Orders, Fill(o)
    PROVE  AmountsOK(strategy, engine, ex', net', queue', candle, placed, taint)
<1> DEFINE z == [ex[o] EXCEPT !.vol = @ + 1]
           m == Report(o, "trade", ex[o].vol + 1, TRUE)
<1>1. /\ EngineOK(engine) /\ engine \in Engine /\ ex \in [Orders -> ExOrder] /\ ex[o] \in ExOrder
      /\ RecordsOK(engine, db, placed, ex)
      /\ AmountsOK(strategy, engine, ex, net, queue, candle, placed, taint)
  BY DEF JInv, IInv, EngineOK
<1>2. /\ ex[o].state = "wait" /\ ex[o].vol < ex[o].size /\ ex' = [ex EXCEPT ![o] = z]
      /\ Send(m) /\ net' = Traded(net, ex[o].side)
  BY <1>1 DEF Fill, Traded
<1>3. ex[o].vol \in Nat /\ ex[o].size \in Nat /\ ex[o].side \in Sides
  BY <1>1 DEF ExOrder
<1>4. /\ z \in ExOrder /\ z.state = "wait" /\ z.vol = ex[o].vol + 1
      /\ z.size = ex[o].size /\ z.side = ex[o].side
  BY <1>1, <1>2, <1>3 DEF ExOrder
<1>5. /\ m \in Message /\ m.order = o /\ m.state = "trade" /\ m.vol = ex[o].vol + 1 /\ m.known
  BY <1>3 DEF Report, Message, ExStates
<1>6. ~Ended(ex, o) /\ ex[o].state # "none"
  BY <1>2 DEF Ended
<1> HIDE DEF z, m
<1>7. /\ ex' \in [Orders -> ExOrder] /\ Grows(ex, ex') /\ ex'[o] = z
      /\ \A p \in Orders : p # o => ex'[p] = ex[p]
  <2>1. Later(ex[o], z)
    BY <1>3, <1>4 DEF Later
  <2> QED
    BY <1>1, <1>2, <1>4, <1>6, <2>1, OrderGrows
<1>8. ReportOK(m, ex') /\ New(m, ex)
  BY <1>3, <1>4, <1>5, <1>7 DEF ReportOK, New
<1>9. queue' = queue \/ queue' = Append(queue, m)
  BY <1>2 DEF Send
<1>10. \A p \in Orders : InStore(engine, p) => ex[p].state # "none"
  BY <1>1 DEF RecordsOK
<1>11. \A p \in Orders : ex'[p].vol <= ex'[p].size
  BY <1>1, <1>2, <1>3, <1>4, <1>7 DEF AmountsOK, FlowOK
<1>12. net \in Net /\ net' \in Net
  <2>1. net.krw \in Int /\ net.coin \in Int /\ net \in Net /\ FillPrice \in Int /\ FillFee \in Int
    BY <1>1, PriceTypes DEF AmountsOK, FlowOK, Net
  <2> QED
    BY <1>2, <2>1 DEF Traded, Net
<1>13. ASSUME Clean(taint)
       PROVE  /\ \A p \in Orders : ex'[p].state # "none" => p \in placed
              /\ \A p \in Orders : InStore(engine, p) =>
                     BookOK(engine.wallet, engine.store[p], ex'[p], net')
              /\ (\A p \in Orders : ~InStore(engine, p)) => Settled(engine.wallet, net')
  <2>1. BooksOK(engine, ex, net, queue, placed)
    BY <1>1, <1>13 DEF AmountsOK
  <2>2. \A p \in Orders : ex'[p].state # "none" => p \in placed
    BY <1>6, <1>7, <2>1 DEF BooksOK
  <2>3. InStore(engine, o)
    BY <1>1, <1>6, <2>1 DEF BooksOK, RecordsOK
  <2>4. \A p \in Orders : InStore(engine, p) => p = o
    BY <1>1, <2>3, OnlyOne
  <2> DEFINE a == engine.store[o]
  <2>5. /\ a \in StoredOrder /\ a.side = ex[o].side /\ engine.wallet \in Wallet
        /\ BookOK(engine.wallet, a, ex[o], net)
    BY <1>1, <2>1, <2>3, EngineFields DEF AmountsOK, FlowOK, StoreOK, EntryOK, BooksOK
  <2> HIDE DEF a
  <2>6. a.vol \in Int /\ Running(engine.wallet, a.side, a.vol, ex[o], net)
    BY <2>5 DEF StoredOrder, BookOK
  <2>7. Running(engine.wallet, a.side, a.vol, z, Traded(net, a.side))
    BY <1>1, <1>4, <1>12, <2>5, <2>6, RunningTraded
  <2>8. BookOK(engine.wallet, a, ex'[o], net')
    BY <1>2, <1>7, <2>5, <2>7 DEF BookOK
  <2> QED
    BY <2>2, <2>3, <2>4, <2>8 DEF a
<1> QED
  BY <1>1, <1>5, <1>7, <1>8, <1>9, <1>10, <1>11, <1>12, <1>13, ExchangeAmounts

\* An order ends.
LEMMA EndAmounts ==
    ASSUME JInv, NEW o \in Orders, NEW known \in BOOLEAN, End(o, known)
    PROVE  AmountsOK(strategy, engine, ex', net', queue', candle, placed, taint)
<1> DEFINE st == IF ex[o].vol = ex[o].size THEN "done" ELSE "cancel"
           z == [ex[o] EXCEPT !.state = st]
           m == Report(o, st, ex[o].vol, known)
<1>1. /\ engine \in Engine /\ ex \in [Orders -> ExOrder] /\ ex[o] \in ExOrder
      /\ RecordsOK(engine, db, placed, ex)
      /\ AmountsOK(strategy, engine, ex, net, queue, candle, placed, taint)
  BY DEF JInv, IInv, EngineOK
<1>2. ex[o].state = "wait" /\ ex' = [ex EXCEPT ![o] = z] /\ Send(m) /\ net' = net
  BY <1>1 DEF End
<1>3. ex[o].vol \in Nat /\ st \in {"done", "cancel"}
  BY <1>1 DEF ExOrder
<1> HIDE DEF st
<1>4. /\ z \in ExOrder /\ z.state = st /\ z.vol = ex[o].vol
      /\ z.size = ex[o].size /\ z.side = ex[o].side
  BY <1>1, <1>3 DEF ExOrder
<1>5. m \in Message /\ m.order = o /\ m.state = st /\ m.vol = ex[o].vol
  BY <1>3 DEF Report, Message, ExStates
<1>6. ~Ended(ex, o) /\ ex[o].state # "none"
  BY <1>2 DEF Ended
<1> HIDE DEF z, m
<1>7. /\ ex' \in [Orders -> ExOrder] /\ Grows(ex, ex') /\ ex'[o] = z
      /\ \A p \in Orders : p # o => ex'[p] = ex[p]
  <2>1. Later(ex[o], z)
    BY <1>3, <1>4 DEF Later
  <2> QED
    BY <1>1, <1>2, <1>4, <1>6, <2>1, OrderGrows
<1>8. ReportOK(m, ex') /\ New(m, ex)
  BY <1>3, <1>4, <1>5, <1>7 DEF ReportOK, New, Ended
<1>9. queue' = queue \/ queue' = Append(queue, m)
  BY <1>2 DEF Send
<1>10. \A p \in Orders : InStore(engine, p) => ex[p].state # "none"
  BY <1>1 DEF RecordsOK
<1>11. \A p \in Orders : ex'[p].vol = ex[p].vol /\ ex'[p].size = ex[p].size
  BY <1>4, <1>7
<1>12. net' \in Net /\ \A p \in Orders : ex'[p].vol <= ex'[p].size
  BY <1>1, <1>2, <1>11 DEF AmountsOK, FlowOK
<1>13. ASSUME Clean(taint)
       PROVE  /\ \A p \in Orders : ex'[p].state # "none" => p \in placed
              /\ \A p \in Orders : InStore(engine, p) =>
                     BookOK(engine.wallet, engine.store[p], ex'[p], net')
              /\ (\A p \in Orders : ~InStore(engine, p)) => Settled(engine.wallet, net')
  <2>1. BooksOK(engine, ex, net, queue, placed)
    BY <1>1, <1>13 DEF AmountsOK
  <2>2. \A p \in Orders : ex'[p].state # "none" => p \in placed
    BY <1>6, <1>7, <2>1 DEF BooksOK
  <2>3. ASSUME NEW p \in Orders, InStore(engine, p)
        PROVE  BookOK(engine.wallet, engine.store[p], ex'[p], net')
    BY <1>2, <1>11, <2>1, <2>3 DEF BooksOK, BookOK, Running, Bought, Sold
  <2> QED
    BY <1>2, <2>1, <2>2, <2>3 DEF BooksOK
<1> QED
  BY <1>1, <1>5, <1>7, <1>8, <1>9, <1>10, <1>12, <1>13, ExchangeAmounts

----------------------------------------------------------------------------
(* Reports of an order *)

\* While an order is active the strategy waits for it and no end is on its way.
LEMMA ActiveWaits ==
    ASSUME NEW s, NEW e, EngineOK(e), AgreeOK(s, e), NEW o \in Orders, InStore(e, o)
    PROVE  /\ s.state = IF e.store[o].side = "BID" THEN "PendingEntry" ELSE "PendingExit"
           /\ e.store[o].side \in Sides
           /\ \A i \in 1..Len(e.events) : ~EndAt(e.events, i)
           /\ e.store[o].side = "BID" => e.wallet.token.active
<1>1. o # NoOrder /\ o \in {e.buy, e.sell}
  BY EngineAssumption DEF EngineOK
<1>2. CASE o = e.buy
  BY <1>1, <1>2 DEF AgreeOK, EngineOK, Sides
<1>3. CASE o = e.sell
  BY <1>1, <1>3 DEF AgreeOK, EngineOK, Sides
<1> QED
  BY <1>1, <1>2, <1>3

\* The engine's seen trades and the queue once a trade more is known.
LEMMA SeenLearns ==
    ASSUME NEW sn, NEW sm, NEW t, AddsOnly(sn, sm, t), NEW q, NEW x, SeenOK(sn, q, x),
           x[t[1]].state # "none", t[2] <= x[t[1]].vol, Ahead(q, t[1], t[2])
    PROVE  SeenOK(sm, q, x)
BY DEF AddsOnly, SeenOK

\* The active order o goes on.
LEMMA OpenAmounts ==
    ASSUME NEW s, NEW e, EngineOK(e), NEW f, EngineOK(f), AgreeOK(s, f),
           NEW x, NEW n, NEW q, NEW c, NEW pl, NEW tn, NEW tm,
           AmountsOK(s, e, x, n, q, c, pl, tn), Clean(tm) => Clean(tn),
           NEW o \in Orders, InStore(e, o), InStore(f, o), f.mark = e.mark,
           SeenOK(f.seen, q, x), EntryOK(f.store[o], x[o]),
           NoDust => Holding(f.wallet, f.store[o].side, f.store[o].vol, x[o].vol),
           Clean(tm) => BookOK(f.wallet, f.store[o], x[o], n) /\ Ahead(q, o, f.store[o].vol)
    PROVE  AmountsOK(s, f, x, n, q, c, pl, tm)
<1>1. \A p \in Orders : InStore(f, p) => p = o
  BY OnlyOne
<1>2. FlowOK(f, x, n, q, c)
  BY <1>1 DEF AmountsOK, FlowOK, StoreOK
<1>3. /\ s.state \in {"PendingEntry", "PendingExit"}
      /\ \A i \in 1..Len(f.events) : ~EndAt(f.events, i)
  BY ActiveWaits
<1>4. NoDust => PositionOK(s, f, x, tm)
  BY <1>1, <1>3 DEF PositionOK, EndsHold, IdleHolds
<1>5. Clean(tm) => BooksOK(f, x, n, q, pl)
  BY <1>1 DEF AmountsOK, BooksOK
<1> QED
  BY <1>2, <1>4, <1>5 DEF AmountsOK

\* The active order o has ended, with the wallet w before the end.
LEMMA CloseAmounts ==
    ASSUME NEW s, NEW e, EngineOK(e), AgreeOK(s, e), NEW f, EngineOK(f),
           NEW x \in [Orders -> ExOrder], NEW n, NEW q, NEW c, NEW pl, NEW tn, NEW tm,
           AmountsOK(s, e, x, n, q, c, pl, tn), Clean(tm) => Clean(tn),
           NEW o \in Orders, InStore(e, o), Ends(e, f, o),
           f.mark = e.mark, f.seen = e.seen, NEW w, WalletOK(w),
           w.token.active = e.wallet.token.active,
           f.wallet = Closed(w, e.store[o].side, e.mark),
           EndsWith(e, f, EffectOf(e.store[o].side, x[o].vol, f.wallet.coin)),
           NoDust => Holding(w, e.store[o].side, x[o].vol, x[o].vol),
           Clean(tm) => Running(w, e.store[o].side, x[o].vol, x[o], n)
    PROVE  AmountsOK(s, f, x, n, q, c, pl, tm)
<1> DEFINE side == e.store[o].side
           effect == EffectOf(side, x[o].vol, f.wallet.coin)
<1>1. /\ s.state = IF side = "BID" THEN "PendingEntry" ELSE "PendingExit"
      /\ side \in Sides /\ (side = "BID" => w.token.active)
      /\ \A i \in 1..Len(e.events) : ~EndAt(e.events, i)
  BY ActiveWaits
<1>2. \A p \in Orders : ~InStore(f, p)
  BY DEF Ends
<1>3. FlowOK(f, x, n, q, c) /\ e.mark \in Closes \cup {0} /\ n \in Net
  BY <1>2 DEF AmountsOK, FlowOK, StoreOK
<1>4. x[o] \in ExOrder /\ x[o].vol \in Nat /\ x[o].vol <= x[o].size
  BY DEF ExOrder, AmountsOK, FlowOK
<1>5. ASSUME NoDust PROVE PositionOK(s, f, x, tm)
  <2>1. IF Holds(s.state, effect) THEN f.wallet.coin > 0 ELSE f.wallet.coin = 0
    <3> DEFINE v == x[o].vol
               mk == e.mark
               st == s.state
    <3>1. /\ Holding(w, side, v, v) /\ v \in Nat /\ mk \in Closes \cup {0}
          /\ st = IF side = "BID" THEN "PendingEntry" ELSE "PendingExit"
          /\ f.wallet = Closed(w, side, mk) /\ side \in Sides
          /\ side = "BID" => w.token.active
      BY <1>1, <1>3, <1>4, <1>5
    <3> HIDE DEF side, v, mk, st
    <3>2. LET g == Closed(w, side, mk)
          IN  IF Holds(st, EffectOf(side, v, g.coin)) THEN g.coin > 0 ELSE g.coin = 0
      BY <1>5, <3>1, ClosedHolds
    <3> QED
      BY <3>1, <3>2 DEF v, st
  <2> HIDE DEF effect
  <2>2. PICK ev \in Event : /\ ev.kind = "status" /\ ev.effect = effect
                            /\ f.events = Append(e.events, ev)
    BY DEF EndsWith, effect
  <2>3. e.events \in Seq(Event)
    BY EngineFields DEF EngineOK
  <2>4. \A i \in 1..Len(f.events) : EndAt(f.events, i) => f.events[i] = ev
    <3> DEFINE told == e.events
               tell == f.events
    <3>1. told \in Seq(Event) /\ ev \in Event /\ ev.kind = "status" /\ tell = Append(told, ev)
      BY <2>2, <2>3
    <3>2. \A i \in 1..Len(told) : ~EndAt(told, i)
      BY <1>1
    <3> HIDE DEF told, tell
    <3>3. \A i \in 1..Len(tell) : EndAt(tell, i) => tell[i] = ev
      BY <3>1, <3>2, AppendEnd
    <3> QED
      BY <3>3 DEF tell
  <2>5. EndsHold(s, f)
    BY <2>1, <2>2, <2>4 DEF EndsHold
  <2> QED
    BY <1>1, <1>2, <2>5 DEF PositionOK, IdleHolds
<1>6. ASSUME Clean(tm) PROVE BooksOK(f, x, n, q, pl)
  <2>1. Settled(f.wallet, n)
    <3> DEFINE y == x[o]
               mk == e.mark
    <3>1. /\ Running(w, side, y.vol, y, n) /\ y \in ExOrder /\ y.vol <= y.size
          /\ mk \in Closes \cup {0} /\ n \in Net
          /\ f.wallet = Closed(w, side, mk) /\ (side = "BID" => w.token.active)
      BY <1>1, <1>3, <1>4, <1>6
    <3> HIDE DEF side, y, mk
    <3> QED
      BY <3>1, ClosedSettles
  <2> QED
    BY <1>2, <1>6, <2>1 DEF AmountsOK, BooksOK
<1> QED
  BY <1>3, <1>5, <1>6 DEF AmountsOK

\* A report says what the exchange has of the order, the funds perhaps left out.
Truth(r, y) ==
    /\ r.vol = y.vol /\ r.fee = FillFee * y.vol
    /\ r.funds = FillPrice * y.vol \/ r.funds = 0

\* The differences that a report has with the store.
LEMMA Differences ==
    ASSUME NEW e \in Engine, NEW r \in Snapshot, NEW y \in ExOrder, Truth(r, y),
           EntryOK(e.store[r.order], y)
    PROVE  LET a == e.store[r.order]
               dv == DeltaVol(e, r)
               df == DeltaFunds(e, r)
           IN  /\ a.vol \in Int /\ dv \in Nat /\ dv = y.vol - a.vol
               /\ df \in Nat /\ DeltaFee(e, r) = FillFee * dv
               /\ df > 0 => r.funds = FillPrice * y.vol /\ df >= FillPrice * dv
               /\ df > 0 /\ a.funds = FillPrice * a.vol => df = FillPrice * dv
<1> DEFINE a == e.store[r.order]
           dv == DeltaVol(e, r)
           df == DeltaFunds(e, r)
<1>1. r.order \in Orders /\ r.vol \in Int /\ r.funds \in Int /\ r.fee \in Int
  BY DEF Snapshot
<1>2. a \in StoredOrder
  BY <1>1, EngineFields
<1>3. a.vol \in Int /\ a.funds \in Int /\ a.fee \in Int /\ y.vol \in Int
  BY <1>2 DEF StoredOrder, ExOrder
<1>4. /\ a.vol >= 0 /\ a.vol <= y.vol /\ a.funds >= 0 /\ a.funds <= FillPrice * a.vol
      /\ a.fee = FillFee * a.vol
  BY DEF EntryOK
<1>5. dv \in Nat /\ dv = y.vol - a.vol
  BY <1>3, <1>4 DEF DeltaVol, Positive, Truth
<1>6. df = IF r.funds - a.funds > 0 THEN r.funds - a.funds ELSE 0
  BY DEF DeltaFunds, Positive
<1>7. DeltaFee(e, r) = IF r.fee - a.fee > 0 THEN r.fee - a.fee ELSE 0
  BY DEF DeltaFee, Positive
<1>8. ASSUME NEW p \in Nat
      PROVE  /\ p * y.vol \in Int /\ p * a.vol \in Int /\ p * dv \in Int
             /\ p * y.vol - p * a.vol = p * dv /\ p * dv >= 0
  <2> DEFINE k == dv
  <2>1. k \in Nat /\ y.vol = a.vol + k
    BY <1>3, <1>5
  <2> HIDE DEF k, dv
  <2>2. p * (a.vol + k) = p * a.vol + p * k /\ p * a.vol \in Int /\ p * k \in Int /\ p * k >= 0
    BY <1>3, <2>1
  <2> QED
    BY <2>1, <2>2 DEF k
<1>9. FillPrice \in Nat /\ FillFee \in Nat
  BY PriceTypes
<1> HIDE DEF a, dv, df
<1>10. DeltaFee(e, r) = FillFee * dv
  <2>1. r.fee = FillFee * y.vol
    BY DEF Truth
  <2> QED
    BY <1>4, <1>7, <1>8, <1>9, <2>1
<1>11. df \in Nat
  BY <1>1, <1>3, <1>6
<1>12. ASSUME df > 0
       PROVE  /\ r.funds = FillPrice * y.vol /\ df >= FillPrice * dv
              /\ a.funds = FillPrice * a.vol => df = FillPrice * dv
  <2>1. df = r.funds - a.funds /\ r.funds > 0
    BY <1>1, <1>3, <1>4, <1>6, <1>12
  <2>2. r.funds = FillPrice * y.vol
    BY <2>1 DEF Truth
  <2> DEFINE u == FillPrice * y.vol
             v == FillPrice * a.vol
             d == FillPrice * dv
  <2>3. u \in Int /\ v \in Int /\ d \in Int /\ u - v = d /\ r.funds = u /\ a.funds <= v
    BY <1>4, <1>8, <1>9, <2>2
  <2> HIDE DEF u, v, d
  <2>4. df >= d /\ (a.funds = v => df = d)
    BY <1>3, <2>1, <2>3
  <2> QED
    BY <2>2, <2>4 DEF u, v, d
<1> QED
  BY <1>3, <1>5, <1>10, <1>11, <1>12 DEF a, dv, df

\* The average price of what is settled is positive.
LEMMA AveragePositive ==
    ASSUME NEW f \in Nat, NEW k \in Nat, k > 0, f >= FillPrice * k
    PROVE  f \div k \in Int /\ f \div k > 0
<1>1. FillPrice * k >= k /\ FillPrice * k \in Int
  BY PriceTypes, Product
<1>2. f >= k
  BY <1>1
<1>3. ASSUME NEW a \in Nat, NEW b \in Nat, b > 0, a >= b PROVE a \div b \in Int /\ a \div b > 0
  BY <1>3
<1> QED
  BY <1>2, <1>3

\* The wallet after the difference was settled.
LEMMA ReconcileWallet ==
    ASSUME NEW e, EngineOK(e), NEW r \in Snapshot, InStore(e, r.order), CanReconcile(e, r),
           NEW y \in ExOrder, Truth(r, y), EntryOK(e.store[r.order], y)
    PROVE  LET a == e.store[r.order]
               w == ReconcileSettled(e, r).wallet
           IN  /\ Holding(e.wallet, a.side, a.vol, y.vol) => Holding(w, a.side, y.vol, y.vol)
               /\ \A n \in Net : y.vol <= y.size /\ BookOK(e.wallet, a, y, n) =>
                      Running(w, a.side, y.vol, y, n)
<1> DEFINE o == r.order
           a == e.store[o]
           side == a.side
           dv == DeltaVol(e, r)
           df == DeltaFunds(e, r)
           fee == DeltaFee(e, r)
           price == df \div dv
           w == ReconcileSettled(e, r).wallet
           z == SettleFill(e, o, dv, price, df, fee)
<1>1. e \in Engine /\ o \in Orders /\ InStore(e, o) /\ y.vol \in Nat /\ y.size \in Nat
  BY DEF EngineOK, Snapshot, ExOrder
<1>2. /\ a.vol \in Int /\ dv \in Nat /\ dv = y.vol - a.vol
      /\ df \in Nat /\ fee = FillFee * dv
      /\ df > 0 => r.funds = FillPrice * y.vol /\ df >= FillPrice * dv
      /\ df > 0 /\ a.funds = FillPrice * a.vol => df = FillPrice * dv
  BY <1>1, Differences
<1>3. CASE dv > 0
  <2>1. df > 0
    BY <1>3 DEF CanReconcile
  <2>2. ReconcileSettled(e, r) = [e EXCEPT !.wallet = z]
    BY <1>3 DEF ReconcileSettled
  <2> HIDE DEF dv, df, fee, o
  <2>3. price \in Int /\ price > 0
    BY <1>2, <1>3, <2>1, AveragePositive
  <2>4. fee \in Int /\ fee >= 0 /\ df + fee > 0 /\ df \in Int /\ dv \in Int
    BY <1>2, <2>1, PriceTypes
  <2>5. w = z
    BY <1>1, <2>2 DEF Engine
  <2> HIDE DEF price, z, w
  <2>6. y.vol > 0
    <3>1. a.vol >= 0
      BY DEF EntryOK, o
    <3> QED
      BY <1>1, <1>2, <1>3, <3>1
  <2>7. ASSUME Holding(e.wallet, side, a.vol, y.vol) PROVE Holding(w, side, y.vol, y.vol)
    <3>1. CASE side = "BID"
      <4> DEFINE v == a.vol
                 u == y.vol
      <4>1. e.store[o].side = "BID" /\ Holding(e.wallet, "BID", v, u)
        BY <2>7, <3>1
      <4> HIDE DEF v, u
      <4>2. z.coin > 0
        BY <1>1, <1>2, <1>3, <2>3, <2>4, <4>1, SettleHolds DEF z
      <4>3. WalletOK(z)
        BY <1>1, <2>3, <2>4, SettleFillOK DEF z
      <4>4. z.coin \in Int
        BY <4>3, WalletFields DEF WalletOK
      <4> QED
        BY <2>5, <2>6, <3>1, <4>2, <4>4 DEF Holding
    <3>2. CASE side # "BID"
      BY <1>1, <2>6, <3>2 DEF Holding
    <3> QED
      BY <3>1, <3>2
  <2>8. ASSUME NEW n \in Net, y.vol <= y.size, BookOK(e.wallet, a, y, n)
        PROVE  Running(w, side, y.vol, y, n)
    <3>1. df = FillPrice * dv /\ Running(e.wallet, side, a.vol, y, n)
      BY <1>2, <2>1, <2>8 DEF BookOK
    <3>2. a.vol + dv = y.vol
      BY <1>1, <1>2
    <3>3. z = SettleFill(e, o, dv, price, FillPrice * dv, FillFee * dv)
      BY <1>2, <3>1 DEF z
    <3> DEFINE v == a.vol
    <3>4. v \in Int /\ v + dv = y.vol /\ Running(e.wallet, e.store[o].side, v, y, n)
      BY <1>2, <3>1, <3>2
    <3> HIDE DEF v
    <3>5. Running(SettleFill(e, o, dv, price, FillPrice * dv, FillFee * dv),
                  e.store[o].side, v + dv, y, n)
      BY <1>1, <1>2, <1>3, <2>3, <2>8, <3>4, SettleRuns
    <3> QED
      BY <2>5, <3>3, <3>4, <3>5
  <2> QED
    BY <2>7, <2>8 DEF o, w
<1>4. CASE ~(dv > 0)
  <2>1. a.vol = y.vol
    BY <1>1, <1>2, <1>4
  <2>2. w = e.wallet
    BY <1>4 DEF ReconcileSettled
  <2> HIDE DEF w, dv
  <2> QED
    BY <2>1, <2>2 DEF BookOK, w
<1> QED
  BY <1>3, <1>4

\* A report of the order's present state is reconciled.  While the order is open,
\* books without a taint ask for no message of it to be on its way, or nothing
\* to settle, and for funds not to be forgotten.
LEMMA ReconcileAmounts ==
    ASSUME NEW s, NEW e, EngineOK(e), AgreeOK(s, e), NEW x \in [Orders -> ExOrder], NEW n,
           NEW q, NEW c, NEW pl, NEW tn, NEW tm, AmountsOK(s, e, x, n, q, c, pl, tn),
           Clean(tm) => Clean(tn), NEW r \in Snapshot, InStore(e, r.order),
           CanReconcile(e, r), Truth(r, x[r.order]),
           AgreeOK(s, ReconcileFromSnapshot(e, r)),
           r.status \notin Terminal /\ Clean(tm) =>
               /\ DeltaVol(e, r) = 0 \/ \A i \in 1..Len(q) : q[i].order # r.order
               /\ r.funds >= e.store[r.order].funds
    PROVE  AmountsOK(s, ReconcileFromSnapshot(e, r), x, n, q, c, pl, tm)
<1> DEFINE o == r.order
           a == e.store[o]
           y == x[o]
           d == ReconcileSettled(e, r)
           f == ReconcileFromSnapshot(e, r)
<1>1. /\ e \in Engine /\ o \in Orders /\ y \in ExOrder /\ y.vol \in Nat
      /\ EntryOK(a, y) /\ n \in Net /\ y.vol <= y.size
  BY DEF EngineOK, Snapshot, ExOrder, AmountsOK, FlowOK, StoreOK
<1>2. /\ EngineOK(d) /\ SameLog(e, d) /\ d.store = e.store
      /\ d.buy = e.buy /\ d.sell = e.sell
  BY SettledOK
<1>3. f = OnOrderSnapshot(d, r)
  BY DEF ReconcileFromSnapshot, ReconcileSettled
<1>4. /\ EngineOK(f)
      /\ r.status \in Terminal => Ends(e, f, o)
      /\ r.status \notin Terminal => Quiet(e, f)
  BY ReconcileOK
<1>5. /\ Holding(e.wallet, a.side, a.vol, y.vol) => Holding(d.wallet, a.side, y.vol, y.vol)
      /\ BookOK(e.wallet, a, y, n) => Running(d.wallet, a.side, y.vol, y, n)
  BY <1>1, ReconcileWallet
<1>6. NoDust => Holding(d.wallet, a.side, y.vol, y.vol)
  BY <1>1, <1>5 DEF AmountsOK, PositionOK
<1>7. Clean(tm) => BookOK(e.wallet, a, y, n) /\ Ahead(q, o, a.vol)
  BY <1>1 DEF AmountsOK, BooksOK
<1>8. WalletOK(d.wallet) /\ d.wallet.token.active = e.wallet.token.active /\ d \in Engine
  <2>1. /\ d.wallet.token.active <=> d.buy # NoOrder
        /\ e.wallet.token.active <=> e.buy # NoOrder
        /\ d \in Engine /\ WalletOK(d.wallet) /\ e.wallet \in Wallet /\ d.wallet \in Wallet
    BY <1>2 DEF EngineOK, WalletOK
  <2>2. d.wallet.token.active \in BOOLEAN /\ e.wallet.token.active \in BOOLEAN
    BY <2>1, WalletFields
  <2> QED
    BY <1>2, <2>1, <2>2
<1>9. InStore(d, o) /\ d.store[o] = a
  BY <1>2 DEF InStore
<1> HIDE DEF d, f
<1>10. CASE r.status \in Terminal
  <2>1. /\ f.wallet = Closed(d.wallet, a.side, d.mark)
        /\ f.seen = d.seen /\ f.mark = d.mark
        /\ EndsWith(d, f, EffectOf(a.side, r.vol, f.wallet.coin))
    BY <1>2, <1>3, <1>9, <1>10, LastSnapshotFields DEF Closed
  <2>2. /\ f.wallet = Closed(d.wallet, a.side, e.mark)
        /\ f.seen = e.seen /\ f.mark = e.mark
        /\ EndsWith(e, f, EffectOf(a.side, y.vol, f.wallet.coin))
    BY <1>2, <2>1 DEF SameLog, EndsWith, Truth
  <2>3. Clean(tm) => Running(d.wallet, a.side, y.vol, y, n)
    BY <1>5, <1>7
  <2>4. AmountsOK(s, f, x, n, q, c, pl, tm)
    BY <1>1, <1>4, <1>6, <1>8, <1>10, <2>2, <2>3, CloseAmounts
  <2> QED
    BY <2>4 DEF f
<1>11. CASE r.status \notin Terminal
  <2>1. /\ f.wallet = d.wallet /\ SameLog(d, f) /\ Synced(d, f, r)
    BY <1>3, <1>8, <1>9, <1>11, OpenSnapshotFields
  <2>2. /\ f.mark = e.mark /\ f.seen = e.seen
    BY <1>2, <2>1 DEF SameLog
  <2> DEFINE b == f.store[o]
  <2>3. /\ b.vol = y.vol /\ b.funds = r.funds /\ b.fee = FillFee * y.vol /\ b.side = a.side
    BY <1>9, <2>1 DEF Synced, Truth
  <2>4. InStore(f, o) /\ SeenOK(f.seen, q, x)
    BY <1>1, <1>4, <1>11, <2>2 DEF Quiet, AmountsOK, FlowOK
  <2> HIDE DEF b
  <2>5. EntryOK(b, y)
    <3>1. FillPrice * y.vol \in Int /\ FillPrice * y.vol >= 0
      BY <1>1, PriceTypes
    <3> QED
      BY <1>1, <2>3, <3>1 DEF EntryOK, Truth
  <2>6. ASSUME Clean(tm) PROVE BookOK(f.wallet, b, y, n) /\ Ahead(q, o, b.vol)
    <3>1. /\ a.vol \in Int /\ DeltaVol(e, r) = y.vol - a.vol
          /\ DeltaFunds(e, r) > 0 => r.funds = FillPrice * y.vol
      BY <1>1, Differences
    <3>2. DeltaVol(e, r) > 0 => DeltaFunds(e, r) > 0
      BY DEF CanReconcile
    <3>3. r.funds = FillPrice * y.vol
      <4>1. CASE DeltaVol(e, r) > 0
        BY <3>1, <3>2, <4>1
      <4>2. CASE ~(DeltaVol(e, r) > 0)
        <5>1. y.vol = a.vol
          BY <1>1, <3>1, <4>2 DEF EntryOK
        <5>2. r.funds >= FillPrice * y.vol
          BY <1>7, <1>11, <2>6, <5>1 DEF BookOK
        <5>3. FillPrice * y.vol \in Int /\ FillPrice * y.vol >= 0
          BY <1>1, PriceTypes
        <5> QED
          BY <5>2, <5>3 DEF Truth
      <4> QED
        BY <4>1, <4>2
    <3>4. Ahead(q, o, y.vol)
      <4>1. CASE DeltaVol(e, r) = 0
        <5>1. y.vol = a.vol
          BY <1>1, <3>1, <4>1
        <5> QED
          BY <1>7, <2>6, <5>1
      <4>2. CASE \A i \in 1..Len(q) : q[i].order # o
        BY <4>2 DEF Ahead
      <4> QED
        BY <1>11, <2>6, <4>1, <4>2
    <3>5. Running(d.wallet, a.side, y.vol, y, n)
      BY <1>5, <1>7, <2>6
    <3> QED
      BY <2>1, <2>3, <3>3, <3>4, <3>5 DEF BookOK
  <2>7. NoDust => Holding(f.wallet, b.side, b.vol, y.vol)
    BY <1>6, <2>1, <2>3
  <2>8. AgreeOK(s, f)
    BY DEF f
  <2>9. AmountsOK(s, f, x, n, q, c, pl, tm)
    BY <1>1, <1>4, <2>2, <2>4, <2>5, <2>6, <2>7, <2>8, OpenAmounts DEF b
  <2> QED
    BY <2>9 DEF f
<1> QED
  BY <1>10, <1>11

\* A call that announces no end and settles nothing, such as a trade of an order
\* that the store does not know, a mark price or a failed submit.
LEMMA QuietAmounts ==
    ASSUME NEW s, NEW e \in Engine, NEW f \in Engine, NEW x, NEW n, NEW q, NEW c, NEW pl,
           NEW tn, NEW tm, AmountsOK(s, e, x, n, q, c, pl, tn), Clean(tm) => Clean(tn),
           "unsynced" \in tn => "unsynced" \in tm, Quiet(e, f), f.store = e.store,
           f.mark \in Closes \cup {0}, SeenOK(f.seen, q, x),
           \/ f.wallet = e.wallet
           \/ /\ f.wallet.available = e.wallet.available /\ f.wallet.coin = e.wallet.coin
              /\ \A o \in Orders : ~InStore(e, o)
    PROVE  AmountsOK(s, f, x, n, q, c, pl, tm)
<1>1. \A o \in Orders : InStore(f, o) <=> InStore(e, o)
  BY DEF InStore
<1>2. /\ f.wallet.available = e.wallet.available /\ f.wallet.coin = e.wallet.coin
      /\ f.wallet = e.wallet \/ \A o \in Orders : ~InStore(e, o)
  OBVIOUS
<1>3. FlowOK(f, x, n, q, c)
  BY <1>1 DEF AmountsOK, FlowOK, StoreOK
<1>4. ASSUME NoDust PROVE PositionOK(s, f, x, tm)
  <2>1. PositionOK(s, e, x, tn)
    BY <1>4 DEF AmountsOK
  <2>2. \A i \in 1..Len(f.events) : EndAt(f.events, i) =>
            i \in 1..Len(e.events) /\ EndAt(e.events, i) /\ f.events[i] = e.events[i]
    <3>1. e.events \in Seq(Event)
      BY EngineFields
    <3>2. CASE f.events = e.events
      BY <3>2
    <3>3. CASE \E ev \in Event : ev.kind = "fill" /\ f.events = Append(e.events, ev)
      BY <3>1, <3>3, AppendFill
    <3> QED
      BY <3>2, <3>3 DEF Quiet
  <2>3. EndsHold(s, f)
    BY <1>2, <2>1, <2>2 DEF PositionOK, EndsHold
  <2>4. IdleHolds(s.state, f.wallet.coin, tm)
    BY <1>2, <2>1 DEF PositionOK, IdleHolds
  <2>5. \A o \in Orders : InStore(f, o) =>
            Holding(f.wallet, f.store[o].side, f.store[o].vol, x[o].vol)
    BY <1>1, <1>2, <2>1 DEF PositionOK
  <2> QED
    BY <2>3, <2>4, <2>5 DEF PositionOK
<1>5. ASSUME Clean(tm) PROVE BooksOK(f, x, n, q, pl)
  <2>1. BooksOK(e, x, n, q, pl)
    BY <1>5 DEF AmountsOK
  <2>2. \A o \in Orders : InStore(f, o) =>
            BookOK(f.wallet, f.store[o], x[o], n) /\ Ahead(q, o, f.store[o].vol)
    BY <1>1, <1>2, <2>1 DEF BooksOK
  <2>3. (\A o \in Orders : ~InStore(f, o)) => Settled(f.wallet, n)
    BY <1>1, <1>2, <2>1 DEF BooksOK, Settled
  <2> QED
    BY <2>1, <2>2, <2>3 DEF BooksOK
<1> QED
  BY <1>3, <1>4, <1>5 DEF AmountsOK

\* What a message says, as a trade and as a report.
LEMMA MessageFields ==
    ASSUME NEW m \in Message
    PROVE  LET r == ToSnapshot(m)
               t == ToTrade(m)
           IN  /\ r \in Snapshot /\ r.order = m.order /\ r.vol = m.vol
               /\ r.fee = FillFee * m.vol
               /\ r.funds = IF m.known THEN FillPrice * m.vol ELSE 0
               /\ r.status \in Terminal <=> m.state \in {"done", "cancel"}
               /\ t.id = <<m.order, m.vol>> /\ t.order = m.order /\ t.vol = 1
               /\ t.price = FillPrice /\ t.funds = FillPrice /\ t.fee = FillFee
<1>1. m.order \in Orders /\ m.state \in ExStates /\ m.vol \in Nat
  BY DEF Message
<1>2. LET r == ToSnapshot(m)
      IN  /\ r \in Snapshot /\ r.order = m.order
          /\ r.status \in Terminal <=> m.state \in {"done", "cancel"}
  BY <1>1, SnapshotType
<1> QED
  BY <1>2 DEF ToSnapshot, ToTrade

\* A trade of the active order that was not seen yet is settled, and its totals
\* are taken over.
LEMMA TradeAmounts ==
    ASSUME NEW s, NEW e, EngineOK(e), NEW x \in [Orders -> ExOrder], NEW n, NEW q, NEW c,
           NEW pl, NEW tn, NEW tm, AmountsOK(s, e, x, n, q, c, pl, tn),
           Clean(tm) => Clean(tn), NEW m \in Message, m.state = "trade", ReportOK(m, x),
           <<m.order, m.vol>> \in Trades, Ahead(q, m.order, m.vol), InStore(e, m.order),
           ~Seen(e, ToTrade(m)), Clean(tm) => m.vol = e.store[m.order].vol + 1,
           NEW f, f = OnOrderSnapshot(OnMyTrade(e, ToTrade(m)), ToSnapshot(m)),
           EngineOK(f), AgreeOK(s, f)
    PROVE  AmountsOK(s, f, x, n, q, c, pl, tm)
<1> DEFINE o == m.order
           v == m.vol
           t == ToTrade(m)
           r == ToSnapshot(m)
           g == OnMyTrade(e, t)
           a == e.store[o]
           b == f.store[o]
           y == x[o]
<1>1. /\ o \in Orders /\ v \in Nat /\ v > 0 /\ m.known /\ v <= y.vol /\ y.state # "none"
      /\ y \in ExOrder /\ InStore(e, o)
  BY DEF Message, ReportOK
<1>2. y.vol \in Int /\ y.size \in Int /\ y.vol <= y.size /\ n \in Net /\ EntryOK(a, y)
  BY <1>1 DEF ExOrder, AmountsOK, FlowOK, StoreOK
<1>3. /\ r \in Snapshot /\ r.order = o /\ r.vol = v /\ r.fee = FillFee * v
      /\ r.funds = FillPrice * v /\ r.status \notin Terminal
      /\ t.id = <<o, v>> /\ t.order = o /\ t.vol = 1
      /\ t.price = FillPrice /\ t.funds = FillPrice /\ t.fee = FillFee
  BY <1>1, MessageFields
<1>4. t \in Trade
  BY <1>1, TradeType
<1>5. /\ EngineOK(g) /\ g \in Engine /\ g.store = e.store /\ g.mark = e.mark
      /\ Learns(e, g, <<o, v>>)
      /\ g.wallet = SettleFill(e, o, 1, FillPrice, FillPrice, FillFee)
  <2> HIDE DEF t
  <2>1. EngineOK(g)
    BY <1>4, OnMyTradeOK
  <2>2. /\ g.store = e.store /\ g.mark = e.mark /\ Learns(e, g, t.id)
        /\ g.wallet = IF Seen(e, t) \/ ~InStore(e, t.order) THEN e.wallet
                      ELSE SettleFill(e, t.order, t.vol, t.price, t.funds, t.fee)
    BY <1>4, OnMyTradeFields
  <2>3. ~Seen(e, t)
    BY DEF t
  <2> QED
    BY <1>1, <1>3, <2>1, <2>2, <2>3 DEF EngineOK
<1>6. InStore(g, o) /\ g.store[o] = a
  BY <1>1, <1>5 DEF InStore
<1>7. f = OnOrderSnapshot(g, r)
  OBVIOUS
<1> HIDE DEF g, r, t
<1>8. f.wallet = g.wallet /\ SameLog(g, f) /\ Synced(g, f, r)
  BY <1>3, <1>5, <1>6, <1>7, OpenSnapshotFields
<1>9. /\ b.vol = v /\ b.funds = FillPrice * v /\ b.fee = FillFee * v /\ b.side = a.side
      /\ f.mark = e.mark /\ f.seen = g.seen
  BY <1>3, <1>5, <1>6, <1>8 DEF Synced, SameLog
<1>10. SeenOK(f.seen, q, x)
  <2>1. SeenOK(e.seen, q, x) /\ AddsOnly(e.seen, f.seen, <<o, v>>)
    BY <1>5, <1>9 DEF AmountsOK, FlowOK, Learns
  <2> DEFINE p == <<o, v>>
  <2>2. p[1] = o /\ p[2] = v
    OBVIOUS
  <2>3. AddsOnly(e.seen, f.seen, p) /\ x[p[1]].state # "none" /\ p[2] <= x[p[1]].vol
        /\ Ahead(q, p[1], p[2])
    BY <1>1, <2>1, <2>2
  <2> HIDE DEF p
  <2> QED
    BY <2>1, <2>3, SeenLearns
<1>11. EntryOK(b, y)
  <2>1. FillPrice * v \in Int /\ FillPrice * v >= 0
    BY <1>1, PriceTypes
  <2> QED
    BY <1>1, <1>2, <1>9, <2>1 DEF EntryOK
<1>12. InStore(f, o)
  <2>1. Quiet(g, f)
    BY <1>3, <1>5, <1>7, OnOrderSnapshotOK
  <2> QED
    BY <1>1, <1>6, <2>1 DEF Quiet
<1>13. FillPrice \in Int /\ FillPrice > 0 /\ FillFee \in Int /\ FillPrice + FillFee > 0 /\ 1 \in Int
  BY PriceTypes
<1>14. ASSUME NoDust PROVE Holding(f.wallet, b.side, b.vol, y.vol)
  <2>1. Holding(e.wallet, a.side, a.vol, y.vol)
    BY <1>1, <1>14 DEF AmountsOK, PositionOK
  <2>2. CASE a.side = "BID"
    <3> DEFINE av == a.vol
               yv == y.vol
               one == 1
    <3>1. /\ e.store[o].side = "BID" /\ Holding(e.wallet, "BID", av, yv)
          /\ one \in Int /\ one > 0
      BY <2>1, <2>2
    <3> HIDE DEF av, yv, one, o
    <3>2. SettleFill(e, o, one, FillPrice, FillPrice, FillFee).coin > 0
      BY <1>1, <1>13, <3>1, SettleHolds
    <3>3. f.wallet.coin > 0 /\ f.wallet.coin \in Int
      BY <1>5, <1>8, <3>2, EngineFields, WalletFields DEF EngineOK, one
    <3> QED
      BY <1>1, <1>2, <1>9, <2>2, <3>3 DEF Holding
  <2>3. CASE a.side # "BID"
    BY <1>1, <1>2, <1>9, <2>3 DEF Holding
  <2> QED
    BY <2>2, <2>3
<1>15. ASSUME Clean(tm) PROVE BookOK(f.wallet, b, y, n) /\ Ahead(q, o, b.vol)
  <2>1. v = a.vol + 1 /\ Running(e.wallet, a.side, a.vol, y, n)
    BY <1>1, <1>15 DEF AmountsOK, BooksOK, BookOK
  <2> DEFINE av == a.vol
  <2>2. a \in StoredOrder
    BY <1>1, EngineFields DEF EngineOK
  <2>3. /\ av \in Int /\ av + 1 = v /\ av + 1 <= y.size
        /\ Running(e.wallet, e.store[o].side, av, y, n)
        /\ FillPrice * 1 = FillPrice /\ FillFee * 1 = FillFee /\ 1 \in Nat /\ 1 > 0
    BY <1>1, <1>2, <1>13, <2>1, <2>2 DEF StoredOrder
  <2> HIDE DEF av, y
  <2>4. Running(SettleFill(e, o, 1, FillPrice, FillPrice * 1, FillFee * 1),
                e.store[o].side, av + 1, y, n)
    BY <1>1, <1>2, <1>13, <2>3, SettleRuns
  <2>5. Running(f.wallet, b.side, b.vol, y, n)
    BY <1>5, <1>8, <1>9, <2>3, <2>4
  <2> QED
    BY <1>9, <2>5 DEF BookOK
<1> QED
  BY <1>1, <1>9, <1>10, <1>11, <1>12, <1>14, <1>15, OpenAmounts

\* The first message of the active order says that nothing is traded yet.
LEMMA WaitAmounts ==
    ASSUME NEW s, NEW e, EngineOK(e), NEW x \in [Orders -> ExOrder], NEW n, NEW q, NEW c,
           NEW pl, NEW tn, NEW tm, AmountsOK(s, e, x, n, q, c, pl, tn),
           Clean(tm) => Clean(tn), NEW m \in Message, m.state = "wait", ReportOK(m, x),
           Ahead(q, m.order, m.vol), InStore(e, m.order),
           Clean(tm) => m.vol >= e.store[m.order].vol,
           NEW f, f = OnOrderSnapshot(e, ToSnapshot(m)), EngineOK(f), AgreeOK(s, f)
    PROVE  AmountsOK(s, f, x, n, q, c, pl, tm)
<1> DEFINE o == m.order
           r == ToSnapshot(m)
           a == e.store[o]
           b == f.store[o]
           y == x[o]
<1>1. /\ o \in Orders /\ m.vol = 0 /\ m.known /\ y \in ExOrder /\ InStore(e, o)
  BY DEF Message, ReportOK
<1>2. y.vol \in Nat /\ EntryOK(a, y) /\ a \in StoredOrder /\ a.vol \in Int /\ e \in Engine
  <2>1. a \in StoredOrder /\ e \in Engine
    BY <1>1, EngineFields DEF EngineOK
  <2> QED
    BY <1>1, <2>1 DEF ExOrder, AmountsOK, FlowOK, StoreOK, StoredOrder
<1>3. FillPrice * 0 = 0 /\ FillFee * 0 = 0
  BY PriceTypes
<1>4. /\ r \in Snapshot /\ r.order = o /\ r.vol = 0 /\ r.fee = 0
      /\ r.funds = 0 /\ r.status \notin Terminal
  BY <1>1, <1>3, MessageFields
<1>5. f = OnOrderSnapshot(e, r)
  OBVIOUS
<1> HIDE DEF r
<1>6. f.wallet = e.wallet /\ SameLog(e, f) /\ Synced(e, f, r)
  BY <1>1, <1>2, <1>4, <1>5, OpenSnapshotFields
<1>7. /\ b.vol = 0 /\ b.funds = 0 /\ b.fee = 0 /\ b.side = a.side
      /\ f.mark = e.mark /\ f.seen = e.seen
  BY <1>4, <1>6 DEF Synced, SameLog
<1>8. SeenOK(f.seen, q, x)
  BY <1>7 DEF AmountsOK, FlowOK
<1>9. EntryOK(b, y)
  BY <1>2, <1>3, <1>7 DEF EntryOK
<1>10. InStore(f, o)
  <2>1. Quiet(e, f)
    BY <1>4, <1>5, OnOrderSnapshotOK
  <2> QED
    BY <1>1, <2>1 DEF Quiet
<1>11. ASSUME NoDust PROVE Holding(f.wallet, b.side, b.vol, y.vol)
  <2>1. Holding(e.wallet, a.side, a.vol, y.vol)
    BY <1>1, <1>11 DEF AmountsOK, PositionOK
  <2> QED
    BY <1>6, <1>7, <2>1 DEF Holding
<1>12. ASSUME Clean(tm) PROVE BookOK(f.wallet, b, y, n) /\ Ahead(q, o, b.vol)
  <2>1. a.vol = 0
    BY <1>1, <1>2, <1>12 DEF EntryOK
  <2>2. Running(e.wallet, a.side, 0, y, n)
    BY <1>1, <1>12, <2>1 DEF AmountsOK, BooksOK, BookOK
  <2> QED
    BY <1>1, <1>3, <1>6, <1>7, <2>2 DEF BookOK
<1> QED
  BY <1>1, <1>7, <1>8, <1>9, <1>10, <1>11, <1>12, OpenAmounts

\* The oldest message is handled.
LEMMA PopAmounts ==
    ASSUME JInv, PopMessage
    PROVE  AmountsOK(strategy, engine', ex, net, queue', candle, placed, taint')
<1> DEFINE m == Head(queue)
           r == ToSnapshot(m)
           t == ToTrade(m)
           g == IF m.state = "trade" THEN OnMyTrade(engine, t) ELSE engine
<1>1. /\ IInv /\ EngineOK(engine) /\ engine \in Engine /\ AgreeOK(strategy, engine)
      /\ QueueOK(queue, ex) /\ ex \in [Orders -> ExOrder]
      /\ AmountsOK(strategy, engine, ex, net, queue, candle, placed, taint)
  BY DEF JInv, IInv, EngineOK
<1>2. /\ queue # <<>> /\ queue' = Tail(queue) /\ strategy' = strategy /\ HandleMyOrder(m)
      /\ taint' = IF Gap(m) THEN taint \cup {"gap"} ELSE taint
  BY DEF PopMessage
<1>3. EngineOK(engine') /\ AgreeOK(strategy, engine') /\ engine' \in Engine
  BY <1>1, <1>2, PopMessageStep DEF IInv, EngineOK
<1>4. AmountsOK(strategy, engine, ex, net, queue', candle, placed, taint)
  BY <1>1, <1>2, DropAmounts
<1>5. /\ m \in Message /\ ReportOK(m, ex) /\ Ahead(queue', m.order, m.vol)
      /\ queue \in Seq(Message) /\ MessageOK(m, ex)
  <2>1. FeedOK(queue, ex) /\ queue \in Seq(Message)
    BY <1>1 DEF AmountsOK, FlowOK, FeedOK
  <2> QED
    BY <1>1, <1>2, <2>1, FeedTail, QueueTail
<1>6. \A v : Ahead(queue, m.order, v) => m.vol >= v /\ (m.state = "trade" => m.vol > v)
  BY <1>2, <1>5, AheadTail
<1>7. /\ Clean(taint') => Clean(taint) /\ ~Gap(m)
      /\ "unsynced" \in taint => "unsynced" \in taint'
  BY <1>2 DEF Clean
<1>8. IF r.status \in Terminal THEN engine' = ReconcileFromSnapshot(engine, r)
      ELSE engine' = OnOrderSnapshot(g, r)
  BY <1>2 DEF HandleMyOrder
<1> HIDE DEF m
<1>9. /\ r \in Snapshot /\ r.order = m.order /\ r.vol = m.vol /\ r.fee = FillFee * m.vol
      /\ r.funds = IF m.known THEN FillPrice * m.vol ELSE 0
      /\ r.status \in Terminal <=> m.state \in {"done", "cancel"}
      /\ t.id = <<m.order, m.vol>> /\ t.order = m.order
  BY <1>5, MessageFields
<1>10. m.order \in Orders /\ m.vol \in Nat /\ m.state \in ExStates
  BY <1>5 DEF Message
<1>11. CASE r.status \in Terminal
  <2>1. /\ Truth(r, ex[r.order]) /\ m.state # "trade"
    BY <1>5, <1>9, <1>11 DEF Truth, ReportOK
  <2>2. engine' = ReconcileFromSnapshot(engine, r) /\ taint' = taint
    BY <1>2, <1>8, <1>11, <2>1 DEF Gap
  <2> HIDE DEF r
  <2>3. CASE CanReconcile(engine, r)
    <3>1. InStore(engine, r.order)
      BY <2>3 DEF CanReconcile
    <3>2. AgreeOK(strategy, ReconcileFromSnapshot(engine, r))
      BY <1>3, <2>2
    <3>3. AmountsOK(strategy, ReconcileFromSnapshot(engine, r), ex, net, queue', candle,
                    placed, taint')
      BY <1>1, <1>4, <1>7, <1>9, <1>11, <2>1, <2>3, <3>1, <3>2, ReconcileAmounts
    <3> QED
      BY <2>2, <3>3
  <2>4. CASE ~CanReconcile(engine, r)
    <3>1. engine' = engine
      BY <2>2, <2>4 DEF ReconcileFromSnapshot
    <3> QED
      BY <1>4, <2>2, <3>1
  <2> QED
    BY <2>3, <2>4
<1>12. CASE r.status \notin Terminal /\ ~InStore(engine, m.order)
  <2> HIDE DEF r, t
  <2>1. /\ EngineOK(g) /\ Quiet(engine, g) /\ g.store = engine.store /\ g.mark = engine.mark
        /\ g.wallet = engine.wallet /\ SeenOK(g.seen, queue', ex)
    <3>1. SeenOK(engine.seen, queue', ex)
      BY <1>4 DEF AmountsOK, FlowOK
    <3>2. CASE m.state = "trade"
      <4>1. t \in Trade
        BY <1>5, <1>10, <3>2, TradeType DEF MessageOK, t
      <4>2. /\ EngineOK(g) /\ Quiet(engine, g)
            /\ g.store = engine.store /\ g.mark = engine.mark /\ Learns(engine, g, t.id)
            /\ g.wallet = engine.wallet
        BY <1>1, <1>9, <1>12, <3>2, <4>1, OnMyTradeOK, OnMyTradeFields
      <4> DEFINE p == <<m.order, m.vol>>
      <4>3. p[1] = m.order /\ p[2] = m.vol
        OBVIOUS
      <4> HIDE DEF g
      <4>4. /\ AddsOnly(engine.seen, g.seen, p) /\ ex[p[1]].state # "none"
            /\ p[2] <= ex[p[1]].vol /\ Ahead(queue', p[1], p[2])
        BY <1>5, <1>9, <4>2, <4>3 DEF ReportOK, Learns
      <4> HIDE DEF p
      <4>5. SeenOK(g.seen, queue', ex)
        BY <3>1, <4>4, SeenLearns
      <4> QED
        BY <4>2, <4>5
    <3>3. CASE m.state # "trade"
      BY <1>1, <3>1, <3>3 DEF Quiet
    <3> QED
      BY <3>2, <3>3
  <2>2. engine' = OnOrderSnapshot(g, r)
    BY <1>8, <1>12
  <2> HIDE DEF g
  <2>3. ~InStore(g, r.order)
    BY <1>9, <1>12, <2>1 DEF InStore
  <2>4. engine' = g
    BY <2>2, <2>3 DEF OnOrderSnapshot
  <2>5. g \in Engine /\ g.mark \in Closes \cup {0}
    BY <1>4, <2>1 DEF EngineOK, AmountsOK, FlowOK
  <2>6. AmountsOK(strategy, g, ex, net, queue', candle, placed, taint')
    BY <1>1, <1>4, <1>7, <2>1, <2>5, QuietAmounts
  <2> QED
    BY <2>4, <2>6
<1>13. CASE r.status \notin Terminal /\ InStore(engine, m.order)
  <2>1. engine' = OnOrderSnapshot(g, r)
    BY <1>8, <1>13
  <2>2. CASE m.state = "trade"
    <3>1. ~Seen(engine, t)
      <4> SUFFICES ASSUME Seen(engine, t) PROVE FALSE
        OBVIOUS
      <4> HIDE DEF t
      <4>1. engine.seen \in Seq(Trades) /\ SeenOK(engine.seen, queue, ex)
        BY <1>1, EngineFields DEF AmountsOK, FlowOK
      <4>2. PICK i \in 1..Len(engine.seen) : engine.seen[i] = <<m.order, m.vol>>
        BY <1>9, <4>1 DEF Seen
      <4>3. engine.seen[i][1] = m.order /\ engine.seen[i][2] = m.vol
        BY <4>2
      <4>4. Ahead(queue, m.order, m.vol)
        BY <4>1, <4>3 DEF SeenOK
      <4>5. m.vol > m.vol
        BY <1>6, <2>2, <4>4
      <4> QED
        BY <1>10, <4>5
    <3>2. Clean(taint') => m.vol = engine.store[m.order].vol + 1
      BY <1>7, <1>13, <2>2 DEF Gap
    <3>3. <<m.order, m.vol>> \in Trades
      BY <1>5, <2>2 DEF MessageOK
    <3>4. engine' = OnOrderSnapshot(OnMyTrade(engine, ToTrade(m)), ToSnapshot(m))
      BY <2>1, <2>2
    <3>5. ~Seen(engine, ToTrade(m)) /\ InStore(engine, m.order) /\ (Clean(taint') => Clean(taint))
      BY <1>7, <1>13, <3>1
    <3> HIDE DEF g, r, t
    <3> QED
      BY <1>1, <1>3, <1>4, <1>5, <2>2, <3>2, <3>3, <3>4, <3>5, TradeAmounts
  <2>3. CASE m.state # "trade"
    <3>1. m.state = "wait"
      BY <1>9, <1>10, <1>13, <2>3 DEF ExStates
    <3>2. engine' = OnOrderSnapshot(engine, ToSnapshot(m))
      BY <2>1, <2>3
    <3>3. ASSUME Clean(taint') PROVE m.vol >= engine.store[m.order].vol
      <4>1. Ahead(queue, m.order, engine.store[m.order].vol)
        BY <1>1, <1>7, <1>10, <1>13, <3>3 DEF AmountsOK, BooksOK
      <4> QED
        BY <1>6, <4>1
    <3> HIDE DEF g, r, t
    <3> QED
      BY <1>1, <1>3, <1>4, <1>5, <1>7, <1>13, <3>1, <3>2, <3>3, WaitAmounts
  <2> QED
    BY <2>2, <2>3
<1> QED
  BY <1>11, <1>12, <1>13

\* runRecovery_, whatever getOrder answers.
LEMMA RecoveryAmounts ==
    ASSUME JInv, NEW a, RunRecovery(a), AgreeOK(strategy, engine')
    PROVE  AmountsOK(strategy, engine', ex, net, queue, candle, placed, taint')
<1> DEFINE o == CHOOSE p \in ActivePendingIds(engine) : TRUE
           m == Report(o, ex[o].state, ex[o].vol, a = "order")
           r == ToSnapshot(m)
           bad == RecoveryTaint(r)
<1>1. /\ EngineOK(engine) /\ engine \in Engine /\ AgreeOK(strategy, engine)
      /\ RecordsOK(engine, db, placed, ex) /\ ex \in [Orders -> ExOrder]
      /\ AmountsOK(strategy, engine, ex, net, queue, candle, placed, taint)
  BY DEF JInv, IInv, EngineOK
<1>2. CASE ActivePendingIds(engine) = {} \/ a = "none"
  BY <1>1, <1>2 DEF RunRecovery
<1>3. CASE ~(ActivePendingIds(engine) = {} \/ a = "none")
  <2>1. /\ engine' = ReconcileFromSnapshot(engine, r)
        /\ taint' = IF CanReconcile(engine, r) THEN taint \cup bad ELSE taint
    BY <1>3 DEF RunRecovery
  <2>2. o \in ActivePendingIds(engine)
    BY <1>3
  <2> HIDE DEF o
  <2>3. o \in Orders /\ InStore(engine, o)
    BY <1>1, <2>2, EngineFields DEF ActivePendingIds, EngineOK
  <2>4. ex[o] \in ExOrder /\ ex[o].state # "none"
    BY <1>1, <2>3 DEF RecordsOK
  <2>5. m.order = o /\ m.vol = ex[o].vol /\ m \in Message
    <3>1. ex[o].state \in ExStates /\ ex[o].vol \in Nat
      BY <2>4 DEF ExOrder, ExStates
    <3>2. (a = "order") \in BOOLEAN
      OBVIOUS
    <3> QED
      BY <2>3, <3>1, <3>2 DEF Report, Message
  <2> HIDE DEF m
  <2>6. /\ r \in Snapshot /\ r.order = o /\ Truth(r, ex[r.order])
    BY <2>5, MessageFields DEF Truth
  <2> HIDE DEF r
  <2>7. CASE ~CanReconcile(engine, r)
    <3>1. engine' = engine /\ taint' = taint
      BY <2>1, <2>7 DEF ReconcileFromSnapshot
    <3> QED
      BY <1>1, <3>1
  <2>8. CASE CanReconcile(engine, r)
    <3>1. taint' = taint \cup bad
      BY <2>1, <2>8
    <3>2. Clean(taint') => Clean(taint)
      BY <3>1 DEF Clean
    <3>3. ASSUME r.status \notin Terminal, Clean(taint')
          PROVE  /\ DeltaVol(engine, r) = 0 \/ \A i \in 1..Len(queue) : queue[i].order # r.order
                 /\ r.funds >= engine.store[r.order].funds
      <4>1. "overlap" \notin bad /\ "wiped" \notin bad
        BY <3>1, <3>3 DEF Clean
      <4>2. ~(Queued(r.order) /\ DeltaVol(engine, r) > 0)
        BY <3>3, <4>1 DEF RecoveryTaint
      <4>3. ~(r.funds < engine.store[r.order].funds)
        BY <3>3, <4>1 DEF RecoveryTaint
      <4>4. engine.store[o] \in StoredOrder
        BY <1>1, <2>3, EngineFields
      <4>5. r.funds \in Int /\ engine.store[r.order].funds \in Int /\ DeltaVol(engine, r) \in Nat
        <5>1. r.funds \in Int /\ r.vol \in Int
          BY <2>6 DEF Snapshot
        <5>2. engine.store[o].funds \in Int /\ engine.store[o].vol \in Int
          BY <4>4 DEF StoredOrder
        <5> QED
          BY <2>6, <5>1, <5>2 DEF DeltaVol, Positive
      <4>6. queue \in Seq(Message)
        BY <1>1 DEF AmountsOK, FlowOK, FeedOK
      <4>7. DeltaVol(engine, r) = 0 \/ \A i \in 1..Len(queue) : queue[i].order # r.order
        BY <4>2, <4>5, <4>6 DEF Queued
      <4> QED
        BY <4>3, <4>5, <4>7
    <3>4. InStore(engine, r.order) /\ AgreeOK(strategy, ReconcileFromSnapshot(engine, r))
      BY <2>1, <2>3, <2>6
    <3> HIDE DEF bad
    <3>5. AmountsOK(strategy, ReconcileFromSnapshot(engine, r), ex, net, queue, candle,
                    placed, taint')
      BY <1>1, <2>6, <2>8, <3>2, <3>3, <3>4, ReconcileAmounts
    <3> QED
      BY <2>1, <3>5
  <2> QED
    BY <2>7, <2>8
<1> QED
  BY <1>2, <1>3

----------------------------------------------------------------------------
(* Orders and their ends, as the strategy sees them *)

\* Of the strategy the amounts have to do with its state only.
LEMMA StateOnly ==
    ASSUME NEW s, NEW t, t.state = s.state, NEW e, NEW x, NEW n, NEW q, NEW c, NEW pl, NEW tn,
           AmountsOK(s, e, x, n, q, c, pl, tn)
    PROVE  AmountsOK(t, e, x, n, q, c, pl, tn)
BY DEF AmountsOK, PositionOK, EndsHold

\* The candle is replaced by another.
LEMMA CandleOnly ==
    ASSUME NEW s, NEW e, NEW x, NEW n, NEW q, NEW c, NEW pl, NEW tn,
           AmountsOK(s, e, x, n, q, c, pl, tn), NEW d \in Closes \cup {0}
    PROVE  AmountsOK(s, e, x, n, q, d, pl, tn)
BY DEF AmountsOK, FlowOK

\* A strategy that is not flat has synchronised.
LEMMA SyncedOnly ==
    ASSUME NEW s, s.state # "Flat", NEW e, NEW x, NEW n, NEW q, NEW c, NEW pl, NEW tn,
           AmountsOK(s, e, x, n, q, c, pl, tn)
    PROVE  AmountsOK(s, e, x, n, q, c, pl, tn \ {"unsynced"})
<1>1. Clean(tn \ {"unsynced"}) => Clean(tn)
  BY DEF Clean
<1> QED
  BY <1>1 DEF AmountsOK, PositionOK, IdleHolds

\* The end of its order leaves the strategy in position if it holds coin, else
\* flat.
LEMMA UpdateState ==
    ASSUME NEW s \in Strategy, NEW ev \in Event, s.pending = ev.order, ev.status \in Terminal,
           s.state \in {"PendingEntry", "PendingExit"}
    PROVE  OnOrderUpdate(s, ev).state = IF Holds(s.state, ev.effect) THEN "InPosition" ELSE "Flat"
<1> DEFINE price == IF FinalPrice(s, ev) > 0 THEN FinalPrice(s, ev) ELSE s.entry
           u == IF s.state = "PendingEntry" /\ ev.effect = "Opened"
                THEN SetPosition(s, "InPosition", price)
                ELSE IF s.state = "PendingExit" /\ ev.effect = "Closed"
                THEN SetPosition(s, "Flat", 0)
                ELSE Rollback(s)
<1>1. OnOrderUpdate(s, ev) = ClearPending(u)
  BY DEF OnOrderUpdate, SetPosition, Strategy
<1>2. price \in Int
  BY FinalPriceType, StrategyFields
<1>3. "InPosition" \in States /\ "Flat" \in States /\ 0 \in Int
  BY DEF States
<1>4. /\ Rollback(s) \in Strategy
      /\ Rollback(s).state = IF s.state = "PendingEntry" THEN "Flat" ELSE "InPosition"
  BY DEF Strategy, Rollback, States
<1> HIDE DEF price
<1>5. /\ u \in Strategy
      /\ u.state = IF Holds(s.state, ev.effect) THEN "InPosition" ELSE "Flat"
  BY <1>2, <1>3, <1>4, SetPositionType DEF Holds
<1> HIDE DEF u
<1> QED
  BY <1>1, <1>5, ClearPendingFields

\* A failed submit takes the strategy back to where it decided.
LEMMA FailedState ==
    ASSUME NEW s \in Strategy, s.pending # NoOrder, s.state \in {"PendingEntry", "PendingExit"}
    PROVE  OnSubmitFailed(s).state = IF s.state = "PendingEntry" THEN "Flat" ELSE "InPosition"
<1>1. /\ Rollback(s) \in Strategy
      /\ Rollback(s).state = IF s.state = "PendingEntry" THEN "Flat" ELSE "InPosition"
  BY DEF Strategy, Rollback, States
<1> QED
  BY <1>1, ClearPendingFields DEF OnSubmitFailed

\* The oldest event is delivered.
LEMMA DeliverAmounts ==
    ASSUME NEW s, NEW e, EngineOK(e), AgreeOK(s, e), e.events # <<>>, NEW f \in Engine,
           f.events = Tail(e.events), f.wallet = e.wallet, f.store = e.store,
           f.mark = e.mark, f.seen = e.seen, NEW x, NEW n, NEW q, NEW c, NEW pl, NEW tn,
           AmountsOK(s, e, x, n, q, c, pl, tn)
    PROVE  AmountsOK(Deliver(s, Head(e.events)), f, x, n, q, c, pl, tn)
<1> DEFINE ev == Head(e.events)
           t == Deliver(s, ev)
<1>1. e.events \in Seq(Event) /\ OneEnd(e.events) /\ s \in Strategy
  BY EngineFields DEF EngineOK, AgreeOK
<1>2. ev \in Event /\ ev = e.events[1] /\ 1 \in 1..Len(e.events)
  BY <1>1, TailEvent
<1>3. /\ \A i \in 1..Len(f.events) : EndAt(f.events, i) =>
             /\ i + 1 \in 1..Len(e.events) /\ EndAt(e.events, i + 1)
             /\ f.events[i] = e.events[i + 1]
      /\ ev.kind = "status" => \A i \in 1..Len(f.events) : ~EndAt(f.events, i)
  BY <1>1, <1>2, TailEnds
<1> HIDE DEF ev
<1>4. \A o \in Orders : InStore(f, o) <=> InStore(e, o)
  BY DEF InStore
<1>5. FlowOK(f, x, n, q, c) /\ (Clean(tn) => BooksOK(f, x, n, q, pl))
  BY <1>4 DEF AmountsOK, FlowOK, StoreOK, BooksOK
<1>6. ASSUME NoDust PROVE PositionOK(t, f, x, tn)
  <2>1. PositionOK(s, e, x, tn)
    BY <1>6 DEF AmountsOK
  <2>2. \A o \in Orders : InStore(f, o) =>
            Holding(f.wallet, f.store[o].side, f.store[o].vol, x[o].vol)
    BY <1>4, <2>1 DEF PositionOK
  <2>3. CASE ev.kind = "fill"
    <3>1. t.state = s.state
      BY <1>1, <1>2, <2>3, OnFillFields DEF Deliver
    <3> HIDE DEF t
    <3>2. EndsHold(t, f)
      BY <1>3, <2>1, <3>1 DEF PositionOK, EndsHold
    <3> QED
      BY <2>1, <2>2, <3>1, <3>2 DEF PositionOK
  <2>4. CASE ev.kind # "fill"
    <3>1. ev.kind = "status" /\ ev.order \in Orders /\ EndAt(e.events, 1)
      BY <1>2, <2>4 DEF Event, EndAt
    <3>2. ev.status \in Terminal /\ Telling(e.events, ev.order)
      BY <1>2, <3>1 DEF AgreeOK, Telling
    <3>3. s.pending = ev.order /\ s.pending # NoOrder
      BY <3>1, <3>2, EngineAssumption DEF AgreeOK
    <3>4. s.state \in {"PendingEntry", "PendingExit"}
      BY <1>1, <3>3, StrategyFields DEF AgreeOK, States
    <3>5. t = OnOrderUpdate(s, ev)
      BY <2>4 DEF Deliver
    <3> HIDE DEF t
    <3>6. t.state = IF Holds(s.state, ev.effect) THEN "InPosition" ELSE "Flat"
      BY <1>1, <1>2, <3>2, <3>3, <3>4, <3>5, UpdateState
    <3>7. IF Holds(s.state, ev.effect) THEN e.wallet.coin > 0 ELSE e.wallet.coin = 0
      BY <1>2, <2>1, <3>1 DEF PositionOK, EndsHold
    <3>8. IdleHolds(t.state, f.wallet.coin, tn)
      BY <3>6, <3>7 DEF IdleHolds
    <3>9. EndsHold(t, f)
      BY <1>3, <3>1 DEF EndsHold
    <3> QED
      BY <2>2, <3>8, <3>9 DEF PositionOK
  <2> QED
    BY <2>3, <2>4
<1>7. AmountsOK(t, f, x, n, q, c, pl, tn)
  BY <1>5, <1>6 DEF AmountsOK
<1> QED
  BY <1>7 DEF ev

\* After a candle the strategy knows its position.
LEMMA HealState ==
    ASSUME NoDust, NEW s \in Strategy, NEW coin \in Int, NEW close \in Closes, NEW tn, NEW tm,
           IdleHolds(s.state, coin, tn)
    PROVE  IdleHolds(SelfHeal(s, coin, close).state, coin, tm)
<1> DEFINE t == SelfHeal(s, coin, close)
           value == coin * close
<1>1. close \in Int /\ close > 0 /\ close >= MinNotional /\ MinNotional \in Int /\ MinNotional > 0
  BY WorkerAssumption, StrategyAssumption DEF NoDust
<1>2. /\ value \in Int /\ (coin > 0 <=> value > 0) /\ (coin > 0 => value >= close)
      /\ (coin = 0 => value = 0)
  BY <1>1, Product
<1>3. /\ s.state = "Flat" /\ value >= MinNotional => t.state = "InPosition"
      /\ s.state = "InPosition" /\ value < MinNotional => t.state = "Flat"
      /\ s.state = "Flat" /\ ~(value >= MinNotional) => t = s
      /\ s.state = "InPosition" /\ ~(value < MinNotional) => t = s
      /\ s.state \notin {"Flat", "InPosition"} => t = s
  BY DEF SelfHeal, Strategy
<1> HIDE DEF t, value
<1>4. CASE s.state = "Flat"
  BY <1>1, <1>2, <1>3, <1>4 DEF IdleHolds, t
<1>5. CASE s.state = "InPosition"
  BY <1>1, <1>2, <1>3, <1>5 DEF IdleHolds, t
<1>6. CASE s.state \notin {"Flat", "InPosition"}
  BY <1>3, <1>6 DEF IdleHolds, t
<1> QED
  BY <1>4, <1>5, <1>6

\* The repair of the position.
LEMMA HealAmounts ==
    ASSUME NEW s, NEW e, EngineOK(e), AgreeOK(s, e), NEW close \in Closes,
           NEW x, NEW n, NEW q, NEW c, NEW pl, NEW tn, AmountsOK(s, e, x, n, q, c, pl, tn)
    PROVE  AmountsOK(SelfHeal(s, e.wallet.coin, close), e, x, n, q, c, pl, tn \ {"unsynced"})
<1> DEFINE t == SelfHeal(s, e.wallet.coin, close)
           tm == tn \ {"unsynced"}
           coin == e.wallet.coin
<1>1. s \in Strategy /\ coin \in Int /\ close \in Int
  BY EngineFields, WalletFields, WorkerAssumption DEF EngineOK, AgreeOK
<1>2. t = s \/ s.state \in {"Flat", "InPosition"}
  BY <1>1, SelfHealFields
<1>3. Clean(tm) => Clean(tn)
  BY DEF Clean
<1>4. ASSUME NoDust PROVE PositionOK(t, e, x, tm)
  <2>1. PositionOK(s, e, x, tn)
    BY <1>4 DEF AmountsOK
  <2>2. IdleHolds(t.state, coin, tm)
    <3> HIDE DEF coin
    <3>1. IdleHolds(s.state, coin, tn)
      BY <2>1 DEF PositionOK, coin
    <3>2. t = SelfHeal(s, coin, close)
      BY DEF coin
    <3> HIDE DEF t, tm
    <3> QED
      BY <1>1, <1>4, <3>1, <3>2, HealState
  <2>3. EndsHold(t, e)
    <3>1. CASE t = s
      BY <2>1, <3>1 DEF PositionOK
    <3>2. CASE s.state \in {"Flat", "InPosition"}
      <4>1. e \in Engine
        BY DEF EngineOK
      <4>2. \A i \in 1..Len(e.events) : ~EndAt(e.events, i)
        BY <3>2, <4>1, AgreeIdle
      <4> QED
        BY <4>2 DEF EndsHold
    <3> QED
      BY <1>2, <3>1, <3>2
  <2> QED
    BY <2>1, <2>2, <2>3 DEF PositionOK
<1> QED
  BY <1>3, <1>4 DEF AmountsOK

\* The exchange takes a valid request as a new order and says so.
LEMMA AcceptTold ==
    ASSUME ex \in [Orders -> ExOrder], NEW r \in Request, r.size > 0, NEW o \in Orders,
           Accept(r, o)
    PROVE  /\ ex' \in [Orders -> ExOrder] /\ Grows(ex, ex') /\ ex[o].state = "none"
           /\ ex'[o].state = "wait" /\ ex'[o].side = r.side /\ ex'[o].vol = 0
           /\ ex'[o].size = IF r.side = "BID" THEN r.size \div FillPrice ELSE r.size
           /\ \A p \in Orders : p # o => ex'[p] = ex[p]
           /\ \E m \in Message : /\ ReportOK(m, ex') /\ New(m, ex)
                                 /\ queue' = queue \/ queue' = Append(queue, m)
<1> DEFINE units == IF r.side = "BID" THEN r.size \div FillPrice ELSE r.size
           z == [state |-> "wait", side |-> r.side, size |-> units, vol |-> 0]
           m == Report(o, "wait", 0, TRUE)
<1>1. r.side \in Sides /\ r.size \in Nat /\ FillPrice \in Nat /\ FillPrice > 0
  BY PriceTypes DEF Request
<1>2. units \in Nat
  <2>1. r.size \div FillPrice \in Nat
    BY <1>1
  <2> QED
    BY <1>1, <2>1
<1>3. ex[o].state = "none" /\ ex' = [ex EXCEPT ![o] = z] /\ Send(m)
  BY DEF Accept, Fresh
<1>4. units = IF r.side = "BID" THEN r.size \div FillPrice ELSE r.size
  OBVIOUS
<1> HIDE DEF units
<1>5. z \in ExOrder /\ z.state = "wait" /\ z.side = r.side /\ z.size = units /\ z.vol = 0
  BY <1>1, <1>2 DEF ExOrder
<1>6. m \in Message /\ m.state = "wait" /\ m.order = o /\ m.vol = 0 /\ m.known
  BY DEF Report, Message, ExStates
<1>7. ~Ended(ex, o) /\ Later(ex[o], z)
  BY <1>3 DEF Ended, Later
<1> HIDE DEF z, m
<1>8. /\ ex' \in [Orders -> ExOrder] /\ Grows(ex, ex') /\ ex'[o] = z
      /\ \A p \in Orders : p # o => ex'[p] = ex[p]
  BY <1>3, <1>5, <1>7, OrderGrows
<1>9. ReportOK(m, ex') /\ New(m, ex)
  BY <1>3, <1>5, <1>6, <1>8 DEF ReportOK, New
<1>10. queue' = queue \/ queue' = Append(queue, m)
  BY <1>3 DEF Send
<1> QED
  BY <1>3, <1>4, <1>5, <1>6, <1>8, <1>9, <1>10

\* What is reserved for a purchase covers all that it can buy.
LEMMA ReserveCovers ==
    ASSUME NEW r \in Request, r.side = "BID", r.sized = "amount", r.size > 0
    PROVE  ComputeReserveAmount(r) >= Cost * (r.size \div FillPrice)
<1> DEFINE z == r.size
           reserve == (z * MarginNum) \div MarginDen
           u == Cost * (z \div FillPrice)
<1>1. z \in Nat /\ FillPrice \in Nat /\ FillPrice > 0 /\ Cost \in Nat
  BY PriceTypes DEF Request
<1>2. MarginNum \in Nat /\ MarginDen \in Nat /\ MarginDen > 0
  BY EngineAssumption
<1>3. Cost * MarginDen <= FillPrice * MarginNum
  BY WorkerAssumption DEF Cost
<1>4. ComputeReserveAmount(r) = reserve
  BY DEF ComputeReserveAmount
<1> HIDE DEF z
<1>5. u <= reserve
  BY <1>1, <1>2, <1>3, MarginCovers
<1>6. u \in Int /\ reserve \in Int
  <2>1. z \div FillPrice \in Int /\ z * MarginNum \in Int
    BY <1>1, <1>2
  <2>2. reserve \in Int
    BY <1>2, <2>1, QuotientType
  <2> QED
    BY <1>1, <2>1, <2>2
<1> HIDE DEF u, reserve
<1>7. reserve >= u
  BY <1>5, <1>6
<1> QED
  BY <1>4, <1>7 DEF u, z

\* The books when an order has just been placed.
LEMMA StartRuns ==
    ASSUME NEW e, EngineOK(e), NEW r \in Request, CanSubmit(e, r), NEW o \in Orders,
           NEW y \in ExOrder, y.vol = 0,
           y.size = IF r.side = "BID" THEN r.size \div FillPrice ELSE r.size,
           r.side = "BID" => r.sized = "amount", r.side # "BID" => r.size = e.wallet.coin,
           NEW n \in Net, Settled(e.wallet, n)
    PROVE  Running(SubmitAccepted(e, r, o).wallet, r.side, 0, y, n)
<1> DEFINE w == e.wallet
           f == SubmitAccepted(e, r, o).wallet
           krw == ComputeReserveAmount(r)
<1>1. f = IF r.side = "BID" THEN Reserve(w, krw) ELSE w
  BY SubmitAcceptedFields
<1>2. WalletOK(w) /\ w \in Wallet /\ ~w.token.active /\ r.size > 0 /\ n.krw \in Int
  BY DEF EngineOK, WalletOK, CanSubmit, ValidateRequest, Net
<1>3. w.available \in Int /\ w.coin \in Int /\ krw \in Int
  BY <1>2, WalletFields, ReserveAmountType
<1>4. w.available = n.krw /\ Within(w.coin, n.coin)
  BY DEF Settled
<1>5. y.vol - 0 = 0 /\ y.size - 0 = y.size /\ Cost * 0 = 0 /\ Gain * 0 = 0
  BY PriceTypes DEF ExOrder
<1> HIDE DEF w, f
<1>6. CASE r.side = "BID"
  <2>1. CanReserve(w, krw) /\ krw >= Cost * y.size
    BY <1>2, <1>6, ReserveCovers DEF CanSubmit, w
  <2> HIDE DEF krw
  <2>2. f.available = w.available - krw /\ f.reserved = krw /\ f.coin = w.coin
    BY <1>1, <1>2, <1>3, <1>6, <2>1, ReserveSound
  <2>3. f.available + f.reserved = n.krw /\ n.krw + 0 = n.krw /\ f.coin + 0 = w.coin
    BY <1>2, <1>3, <1>4, <2>2
  <2>4. Bought(f, 0, y, n)
    BY <1>4, <1>5, <2>1, <2>2, <2>3 DEF Bought
  <2> QED
    BY <1>6, <2>4 DEF Running, f
<1>7. CASE r.side # "BID"
  <2>1. f = w /\ y.size = w.coin /\ w.available + 0 = w.available /\ w.coin - 0 = w.coin
    BY <1>1, <1>3, <1>7 DEF w
  <2>2. Sold(f, 0, y, n)
    BY <1>4, <1>5, <2>1 DEF Sold
  <2> QED
    BY <1>7, <2>2 DEF Running, f
<1> QED
  BY <1>6, <1>7

\* The position when an order has just been placed.
LEMMA StartHolds ==
    ASSUME NEW e, EngineOK(e), NEW r \in Request, CanSubmit(e, r), NEW o \in Orders,
           r.side = "BID" => e.wallet.coin = 0, r.side # "BID" => e.wallet.coin > 0
    PROVE  Holding(SubmitAccepted(e, r, o).wallet, r.side, 0, 0)
<1> DEFINE w == e.wallet
           f == SubmitAccepted(e, r, o).wallet
           krw == ComputeReserveAmount(r)
<1>1. f = IF r.side = "BID" THEN Reserve(w, krw) ELSE w
  BY SubmitAcceptedFields
<1>2. WalletOK(w) /\ ~w.token.active /\ krw \in Int
  BY ReserveAmountType DEF EngineOK, CanSubmit
<1> HIDE DEF f
<1>3. CASE r.side = "BID"
  <2>1. CanReserve(w, krw) /\ w.coin = 0
    BY <1>3 DEF CanSubmit
  <2>2. krw > 0
    BY <2>1 DEF CanReserve
  <2> HIDE DEF w, krw
  <2>3. f.reserved = krw /\ f.coin = 0
    BY <1>1, <1>2, <1>3, <2>1, ReserveSound
  <2> QED
    BY <1>3, <2>2, <2>3 DEF Holding, f
<1>4. CASE r.side # "BID"
  BY <1>1, <1>4 DEF Holding, f
<1> QED
  BY <1>3, <1>4

\* The strategy, s before and t after its decision, has placed order o.
LEMMA StartAmounts ==
    ASSUME NEW s, NEW e, EngineOK(e), NEW r \in Request, CanSubmit(e, r), NEW o \in Orders,
           NEW f, f = SubmitAccepted(e, r, o), NEW t, AgreeOK(t, f),
           NEW x \in [Orders -> ExOrder], NEW y \in [Orders -> ExOrder], Grows(x, y),
           x[o].state = "none", y[o].side = r.side, y[o].vol = 0,
           y[o].size = IF r.side = "BID" THEN r.size \div FillPrice ELSE r.size,
           \A p \in Orders : p # o => y[p] = x[p],
           NEW n, NEW q, NEW k, NEW m \in Message, ReportOK(m, y), New(m, x),
           k = q \/ k = Append(q, m), NEW c, NEW pl, NEW tn, "unsynced" \notin tn,
           AmountsOK(s, e, x, n, q, c, pl, tn),
           s.state = IF r.side = "BID" THEN "Flat" ELSE "InPosition",
           r.side = "BID" => r.sized = "amount", r.side # "BID" => r.size = e.wallet.coin
    PROVE  AmountsOK(t, f, y, n, k, c, pl \cup {o}, tn)
<1> DEFINE a == f.store[o]
           z == y[o]
<1>1. /\ EngineOK(f) /\ f.events = e.events /\ \A p \in Orders : InStore(f, p) <=> p = o
  BY SubmitAcceptedOK
<1>2. /\ f.seen = e.seen /\ f.mark = e.mark /\ a.side = r.side /\ a.vol = 0
      /\ a.funds = 0 /\ a.fee = 0
  BY SubmitAcceptedFields
<1>3. e.seen \in Seq(Trades) /\ \A p \in Orders : ~InStore(e, p)
  BY EngineFields, CanSubmitIdle DEF EngineOK
<1>4. FeedOK(k, y) /\ SeenOK(f.seen, k, y)
  BY <1>2, <1>3, Arrives DEF AmountsOK, FlowOK
<1>5. /\ z \in ExOrder /\ z.size \in Nat /\ r.side \in Sides
      /\ FillPrice * 0 = 0 /\ FillFee * 0 = 0 /\ n \in Net
  BY PriceTypes DEF ExOrder, Request, AmountsOK, FlowOK
<1>6. EntryOK(a, z)
  BY <1>2, <1>5 DEF EntryOK
<1>7. \A p \in Orders : y[p].vol <= y[p].size
  BY <1>5 DEF AmountsOK, FlowOK
<1>8. FlowOK(f, y, n, k, c)
  BY <1>1, <1>2, <1>4, <1>6, <1>7 DEF AmountsOK, FlowOK, StoreOK
<1>9. ASSUME NoDust PROVE PositionOK(t, f, y, tn)
  <2>1. IdleHolds(s.state, e.wallet.coin, tn)
    BY <1>9 DEF AmountsOK, PositionOK
  <2>2. /\ r.side = "BID" => e.wallet.coin = 0
        /\ r.side # "BID" => e.wallet.coin > 0
    BY <2>1 DEF IdleHolds
  <2>3. Holding(f.wallet, a.side, a.vol, z.vol)
    BY <1>2, <2>2, StartHolds
  <2>4. /\ t.state \in {"PendingEntry", "PendingExit"}
        /\ \A i \in 1..Len(f.events) : ~EndAt(f.events, i)
    BY <1>1, ActiveWaits
  <2> QED
    BY <1>1, <2>3, <2>4 DEF PositionOK, EndsHold, IdleHolds
<1>10. ASSUME Clean(tn) PROVE BooksOK(f, y, n, k, pl \cup {o})
  <2>1. BooksOK(e, x, n, q, pl)
    BY <1>10 DEF AmountsOK
  <2>2. Settled(e.wallet, n)
    BY <1>3, <2>1 DEF BooksOK
  <2>3. Running(f.wallet, r.side, 0, z, n)
    BY <1>5, <2>2, StartRuns
  <2>4. BookOK(f.wallet, a, z, n)
    BY <1>2, <1>5, <2>3 DEF BookOK
  <2>5. Ahead(k, o, 0)
    <3>1. k \in Seq(Message) /\ \A i \in 1..Len(k) : ReportOK(k[i], y)
      BY <1>4 DEF FeedOK
    <3> SUFFICES ASSUME NEW i \in 1..Len(k)
                 PROVE  k[i].vol >= 0 /\ (k[i].state = "trade" => k[i].vol > 0)
      BY DEF Ahead
    <3>2. k[i] \in Message
      BY <3>1
    <3>3. k[i].vol \in Nat
      BY <3>2 DEF Message
    <3> QED
      BY <3>1, <3>3 DEF ReportOK
  <2>6. \A p \in Orders : y[p].state # "none" => p \in pl \cup {o}
    BY <2>1 DEF BooksOK
  <2> QED
    BY <1>1, <1>2, <2>4, <2>5, <2>6 DEF BooksOK
<1> QED
  BY <1>8, <1>9, <1>10 DEF AmountsOK

\* The strategy, s before and t after its decision, asks for order o.
LEMMA SubmitAmounts ==
    ASSUME ex \in [Orders -> ExOrder], NEW s, NEW e, EngineOK(e), AgreeOK(s, e), NEW c,
           AmountsOK(s, e, ex, net, queue, c, placed, taint \ {"unsynced"}),
           NEW r \in Request, s.state = IF r.side = "BID" THEN "Flat" ELSE "InPosition",
           r.side = "BID" => r.sized = "amount", r.side # "BID" => r.size = e.wallet.coin,
           NEW o \in Orders, NEW t \in Strategy, t.pending = o,
           t.state = IF r.side = "BID" THEN "PendingEntry" ELSE "PendingExit",
           SubmitAccepts(e, t, r, o) \/ SubmitErrs(e, t, r) \/ ReplyLost(e, t, r, o)
    PROVE  AmountsOK(strategy', engine', ex', net, queue', c, placed', taint')
<1> DEFINE tm == taint \ {"unsynced"}
<1>1. e \in Engine /\ o # NoOrder /\ "unsynced" \notin tm /\ s.state \in {"Flat", "InPosition"}
  BY EngineAssumption DEF EngineOK
<1>2. ASSUME CanSubmit(e, r) PROVE r.size > 0
  BY <1>2 DEF CanSubmit, ValidateRequest
<1>3. OnSubmitFailed(t).state = s.state
  BY <1>1, FailedState
<1>4. ASSUME CanSubmit(e, r), NEW f, f = SubmitFailed(e, r), NEW tn,
             Clean(tn) => Clean(tm)
      PROVE  AmountsOK(s, f, ex, net, queue, c, placed, tn) /\ f \in Engine /\ Quiet(e, f)
  <2>1. EngineOK(f) /\ Quiet(e, f)
    BY <1>4, SubmitFailedOK
  <2>2. /\ f.wallet.available = e.wallet.available /\ f.wallet.coin = e.wallet.coin
        /\ f.seen = e.seen /\ f.mark = e.mark /\ f.store = e.store
    BY <1>4, SubmitFailedFields
  <2>3. f \in Engine /\ \A p \in Orders : ~InStore(e, p)
    BY <1>4, <2>1, CanSubmitIdle DEF EngineOK
  <2>4. f.mark \in Closes \cup {0} /\ SeenOK(f.seen, queue, ex)
    BY <2>2 DEF AmountsOK, FlowOK
  <2> HIDE DEF tm
  <2>5. AmountsOK(s, e, ex, net, queue, c, placed, tm)
    BY DEF tm
  <2>6. AmountsOK(s, f, ex, net, queue, c, placed, tn)
    BY <1>1, <1>4, <2>1, <2>2, <2>3, <2>4, <2>5, QuietAmounts
  <2> QED
    BY <2>1, <2>3, <2>6
<1>5. CASE SubmitAccepts(e, t, r, o)
  <2>1. /\ CanSubmit(e, r) /\ Accept(r, o) /\ engine' = SubmitAccepted(e, r, o)
        /\ strategy' = t /\ placed' = placed \cup {o} /\ taint' = tm
    BY <1>5 DEF SubmitAccepts
  <2>2. /\ ex' \in [Orders -> ExOrder] /\ Grows(ex, ex') /\ ex[o].state = "none"
        /\ ex'[o].side = r.side /\ ex'[o].vol = 0
        /\ ex'[o].size = IF r.side = "BID" THEN r.size \div FillPrice ELSE r.size
        /\ \A p \in Orders : p # o => ex'[p] = ex[p]
        /\ \E m \in Message : /\ ReportOK(m, ex') /\ New(m, ex)
                              /\ queue' = queue \/ queue' = Append(queue, m)
    BY <1>2, <2>1, AcceptTold
  <2>3. PICK m \in Message : /\ ReportOK(m, ex') /\ New(m, ex)
                             /\ queue' = queue \/ queue' = Append(queue, m)
    BY <2>2
  <2>4. AgreeOK(t, engine')
    BY <1>1, <2>1, AgreeAccepted
  <2>5. AmountsOK(t, engine', ex', net, queue', c, placed \cup {o}, tm)
    BY <1>1, <2>1, <2>2, <2>3, <2>4, StartAmounts
  <2> QED
    BY <2>1, <2>5
<1>6. CASE SubmitErrs(e, t, r)
  <2>1. /\ engine' = (IF CanSubmit(e, r) THEN SubmitFailed(e, r) ELSE e)
        /\ strategy' = OnSubmitFailed(t) /\ queue' = queue /\ ex' = ex
        /\ placed' = placed /\ taint' = tm
    BY <1>6 DEF SubmitErrs
  <2>2. AmountsOK(s, engine', ex, net, queue, c, placed, tm)
    <3>1. CASE CanSubmit(e, r)
      BY <1>4, <2>1, <3>1
    <3>2. CASE ~CanSubmit(e, r)
      BY <2>1, <3>2
    <3> QED
      BY <3>1, <3>2
  <2>3. AmountsOK(strategy', engine', ex, net, queue, c, placed, tm)
    BY <1>3, <2>1, <2>2, StateOnly
  <2> QED
    BY <2>1, <2>3
<1>7. CASE ReplyLost(e, t, r, o)
  <2>1. /\ CanSubmit(e, r) /\ Accept(r, o) /\ engine' = SubmitFailed(e, r)
        /\ strategy' = OnSubmitFailed(t) /\ placed' = placed /\ taint' = tm \cup {"orphan"}
    BY <1>7 DEF ReplyLost
  <2>2. ~Clean(taint')
    BY <2>1 DEF Clean
  <2>3. /\ AmountsOK(s, engine', ex, net, queue, c, placed, taint') /\ engine' \in Engine
        /\ Quiet(e, engine')
    BY <1>4, <2>1, <2>2
  <2>4. \A p \in Orders : ~InStore(engine', p)
    BY <2>1, <2>3, CanSubmitIdle DEF Quiet
  <2>5. /\ ex' \in [Orders -> ExOrder] /\ Grows(ex, ex')
        /\ ex'[o].vol = 0
        /\ ex'[o].size = IF r.side = "BID" THEN r.size \div FillPrice ELSE r.size
        /\ \A p \in Orders : p # o => ex'[p] = ex[p]
        /\ \E m \in Message : /\ ReportOK(m, ex') /\ New(m, ex)
                              /\ queue' = queue \/ queue' = Append(queue, m)
    BY <1>2, <2>1, AcceptTold
  <2>6. PICK m \in Message : /\ ReportOK(m, ex') /\ New(m, ex)
                             /\ queue' = queue \/ queue' = Append(queue, m)
    BY <2>5
  <2>7. net \in Net /\ \A p \in Orders : ex'[p].vol <= ex'[p].size
    <3>1. ex'[o].size \in Nat
      BY <2>5 DEF ExOrder
    <3> QED
      BY <2>5, <3>1 DEF AmountsOK, FlowOK
  <2>8. AmountsOK(s, engine', ex', net, queue', c, placed, taint')
    BY <2>2, <2>3, <2>4, <2>5, <2>6, <2>7, ExchangeAmounts
  <2>9. AmountsOK(strategy', engine', ex', net, queue', c, placed, taint')
    BY <1>3, <2>1, <2>8, StateOnly
  <2> QED
    BY <2>1, <2>9
<1> QED
  BY <1>5, <1>6, <1>7

\* The mark price is set before the strategy looks.
LEMMA MarkedAmounts ==
    ASSUME JInv
    PROVE  LET e == SetMarkPrice(engine, candle)
           IN  /\ AmountsOK(strategy, e, ex, net, queue, candle, placed, taint)
               /\ e.wallet = engine.wallet
<1> DEFINE e == SetMarkPrice(engine, candle)
<1>1. /\ EngineOK(engine) /\ engine \in Engine /\ candle \in Int /\ candle \in Closes \cup {0}
      /\ AmountsOK(strategy, engine, ex, net, queue, candle, placed, taint)
  BY DEF JInv, IInv, EngineOK, AmountsOK, FlowOK
<1>2. EngineOK(e) /\ Quiet(engine, e)
  BY <1>1, MarkOK
<1>3. /\ e.wallet = engine.wallet /\ e.store = engine.store /\ e.seen = engine.seen
      /\ e.mark = candle
  BY <1>1 DEF SetMarkPrice, Engine
<1> HIDE DEF e
<1>4. e \in Engine /\ SeenOK(e.seen, queue, ex)
  BY <1>1, <1>2, <1>3 DEF EngineOK, AmountsOK, FlowOK
<1>5. AmountsOK(strategy, e, ex, net, queue, candle, placed, taint)
  BY <1>1, <1>2, <1>3, <1>4, QuietAmounts
<1> QED
  BY <1>3, <1>5 DEF e

\* The last candle is confirmed, and the strategy decides on it.
LEMMA ConfirmAmounts ==
    ASSUME JInv, NEW close \in Closes, NEW sig, ConfirmCandle(close, sig)
    PROVE  AmountsOK(strategy', engine', ex', net, queue', close, placed', taint')
<1> DEFINE e == SetMarkPrice(engine, candle)
           s == SelfHeal(strategy, Coin, candle)
           enter == MaybeEnter(s, Krw, sig)
           r == IF enter THEN MarketBuy(Krw) ELSE MarketSell(Coin)
           decided(o) == IF enter THEN Enter(s, o) ELSE Exit(s, o)
           tm == taint \ {"unsynced"}
<1>1. /\ IInv /\ EngineOK(engine) /\ ex \in [Orders -> ExOrder] /\ candle \in Closes
      /\ candle \in Int
  BY DEF JInv, IInv, AmountsOK, FlowOK, ConfirmCandle
<1>2. /\ Coin \in Int /\ r \in Request
      /\ r.side = IF enter THEN "BID" ELSE "ASK"
      /\ r.side = "BID" => r.sized = "amount"
      /\ r.side # "BID" => r.size = engine.wallet.coin
  BY <1>1, RequestTypes DEF MarketBuy, MarketSell, Coin
<1>3. IF enter \/ MaybeExit(s, Coin, candle, sig)
      THEN \E o \in Orders : \/ SubmitAccepts(e, decided(o), r, o)
                             \/ SubmitErrs(e, decided(o), r)
                             \/ ReplyLost(e, decided(o), r, o)
      ELSE NoSubmit(e, s) /\ taint' = tm
  BY DEF ConfirmCandle
<1>4. /\ EngineOK(e) /\ e \in Engine /\ AgreeOK(strategy, e)
      /\ AmountsOK(strategy, e, ex, net, queue, candle, placed, taint)
      /\ e.wallet = engine.wallet
  BY <1>1, Marked, MarkedAmounts
<1>5. enter => s.state = "Flat"
  BY DEF MaybeEnter
<1>6. MaybeExit(s, Coin, candle, sig) => s.state = "InPosition"
  BY DEF MaybeExit
<1> HIDE DEF e, r, enter
<1>7. AgreeOK(s, e)
  BY <1>1, <1>2, <1>4, AgreeHeal
<1>8. AmountsOK(s, e, ex, net, queue, close, placed, tm)
  <2>1. s = SelfHeal(strategy, e.wallet.coin, candle)
    BY <1>4 DEF Coin
  <2> HIDE DEF s
  <2>2. AmountsOK(s, e, ex, net, queue, candle, placed, tm)
    BY <1>1, <1>4, <2>1, HealAmounts
  <2> QED
    BY <2>2, CandleOnly
<1> HIDE DEF s
<1>9. s \in Strategy
  BY <1>7 DEF AgreeOK
<1>10. CASE enter \/ MaybeExit(s, Coin, candle, sig)
  <2>1. PICK o \in Orders : \/ SubmitAccepts(e, decided(o), r, o)
                            \/ SubmitErrs(e, decided(o), r)
                            \/ ReplyLost(e, decided(o), r, o)
    BY <1>3, <1>10
  <2>2. /\ decided(o) \in Strategy /\ decided(o).pending = o
        /\ decided(o).state = IF r.side = "BID" THEN "PendingEntry" ELSE "PendingExit"
    BY <1>2, <1>9, DecidedFields
  <2>3. s.state = IF r.side = "BID" THEN "Flat" ELSE "InPosition"
    BY <1>2, <1>5, <1>6, <1>10
  <2>4. r.side # "BID" => r.size = e.wallet.coin
    BY <1>2, <1>4
  <2> HIDE DEF decided
  <2> QED
    BY <1>1, <1>2, <1>4, <1>7, <1>8, <2>1, <2>2, <2>3, <2>4, SubmitAmounts
<1>11. CASE ~(enter \/ MaybeExit(s, Coin, candle, sig))
  BY <1>3, <1>8, <1>11 DEF NoSubmit
<1> QED
  BY <1>10, <1>11

\* The stop-loss and target check on the unconfirmed candle.
LEMMA IntrabarAmounts ==
    ASSUME JInv, Intrabar
    PROVE  AmountsOK(strategy', engine', ex', net, queue', candle, placed', taint')
<1> DEFINE e == SetMarkPrice(engine, candle)
           r == MarketSell(Coin)
<1>1. IInv /\ EngineOK(engine) /\ ex \in [Orders -> ExOrder]
  BY DEF JInv, IInv
<1>2. r \in Request /\ r.side = "ASK" /\ r.size = engine.wallet.coin
  BY <1>1, RequestTypes DEF MarketSell, Coin
<1>3. IF ~failed /\ IntrabarExit(strategy, Coin, candle)
      THEN \E o \in Orders : \/ SubmitAccepts(e, Exit(strategy, o), r, o)
                             \/ SubmitErrs(e, Exit(strategy, o), r)
                             \/ ReplyLost(e, Exit(strategy, o), r, o)
      ELSE NoSubmit(e, strategy) /\ taint' = taint
  BY DEF Intrabar
<1>4. /\ EngineOK(e) /\ e \in Engine /\ AgreeOK(strategy, e)
      /\ AmountsOK(strategy, e, ex, net, queue, candle, placed, taint)
      /\ e.wallet = engine.wallet
  BY <1>1, Marked, MarkedAmounts
<1>5. IntrabarExit(strategy, Coin, candle) => strategy.state = "InPosition"
  BY DEF IntrabarExit
<1>6. strategy \in Strategy
  BY <1>4 DEF AgreeOK
<1> HIDE DEF e, r
<1>7. CASE ~failed /\ IntrabarExit(strategy, Coin, candle)
  <2>1. PICK o \in Orders : \/ SubmitAccepts(e, Exit(strategy, o), r, o)
                            \/ SubmitErrs(e, Exit(strategy, o), r)
                            \/ ReplyLost(e, Exit(strategy, o), r, o)
    BY <1>3, <1>7
  <2> DEFINE t == Exit(strategy, o)
  <2>2. /\ t \in Strategy /\ t.pending = o
        /\ t.state = IF r.side = "BID" THEN "PendingEntry" ELSE "PendingExit"
    BY <1>2, <1>6, DecidedFields
  <2>3. SubmitAccepts(e, t, r, o) \/ SubmitErrs(e, t, r) \/ ReplyLost(e, t, r, o)
    BY <2>1
  <2>4. strategy.state = "InPosition"
    BY <1>5, <1>7
  <2>5. strategy.state = IF r.side = "BID" THEN "Flat" ELSE "InPosition"
    BY <1>2, <2>4
  <2>6. AmountsOK(strategy, e, ex, net, queue, candle, placed, taint \ {"unsynced"})
    BY <1>4, <2>4, SyncedOnly
  <2>7. /\ r.side = "BID" => r.sized = "amount"
        /\ r.side # "BID" => r.size = e.wallet.coin
    BY <1>2, <1>4
  <2> HIDE DEF t
  <2> QED
    BY <1>1, <1>2, <1>4, <2>2, <2>3, <2>5, <2>6, <2>7, SubmitAmounts
<1>8. CASE ~(~failed /\ IntrabarExit(strategy, Coin, candle))
  BY <1>3, <1>4, <1>8 DEF NoSubmit
<1> QED
  BY <1>7, <1>8

\* One event goes from the engine to the strategy.
LEMMA PollAmounts ==
    ASSUME JInv, Poll
    PROVE  AmountsOK(strategy', engine', ex, net, queue, candle, placed, taint)
<1>1. /\ EngineOK(engine) /\ engine \in Engine /\ AgreeOK(strategy, engine)
      /\ AmountsOK(strategy, engine, ex, net, queue, candle, placed, taint)
  BY DEF JInv, IInv, EngineOK
<1>2. CASE engine.events = <<>>
  BY <1>1, <1>2 DEF Poll
<1>3. CASE engine.events # <<>>
  <2>1. /\ strategy' = Deliver(strategy, Head(engine.events))
        /\ engine' = [engine EXCEPT !.events = Tail(@)]
    BY <1>3 DEF Poll
  <2> DEFINE q == Tail(engine.events)
  <2>2. q \in Seq(Event)
    BY <1>1, <1>3, EngineFields
  <2>3. engine' = [engine EXCEPT !.events = q]
    BY <2>1
  <2> HIDE DEF q
  <2>4. /\ engine' \in Engine /\ engine'.events = q /\ engine'.wallet = engine.wallet
        /\ engine'.store = engine.store /\ engine'.mark = engine.mark
        /\ engine'.seen = engine.seen
    BY <1>1, <2>2, <2>3 DEF Engine
  <2>5. engine'.events = Tail(engine.events)
    BY <2>4 DEF q
  <2> QED
    BY <1>1, <1>3, <2>1, <2>4, <2>5, DeliverAmounts
<1> QED
  BY <1>2, <1>3

----------------------------------------------------------------------------
(* The theorems of the amounts *)

\* The start-up synchronisation takes over what the account has.
LEMMA InitAmounts ==
    Init => AmountsOK(strategy, engine, ex, net, queue, candle, placed, taint)
<1> SUFFICES ASSUME Init
             PROVE  AmountsOK(strategy, engine, ex, net, queue, candle, placed, taint)
  OBVIOUS
<1> DEFINE ws == Construct(EmptyAccount)
           w(acc) == RebuildFromAccount(ws, acc)[Market]
           none == [state |-> "none", side |-> "BID", size |-> 0, vol |-> 0]
<1>1. PICK acc \in StartAccount :
          /\ engine = NewEngine(w(acc))
          /\ \/ /\ strategy = SyncOnStart(acc.pos[Market].free, acc.pos[Market].avg)
                /\ taint = {}
             \/ strategy = NewStrategy /\ taint = {"unsynced"}
          /\ net = [krw |-> w(acc).available, coin |-> acc.pos[Market].free]
          /\ queue = <<>> /\ candle = 0 /\ ex = [o \in Orders |-> none]
          /\ placed = {}
  BY DEF Init
<1>2. acc \in Account /\ Market \in Markets
  BY WorkerAssumption
<1>3. ws = [m \in Markets |-> ws[m]]
  BY DEF Construct
<1> HIDE DEF ws
<1>4. \A m \in Markets : WalletOK(ws[m]) /\ ws[m].token = NoToken
  BY ConstructEmpty DEF ws
<1>5. ws \in [Markets -> Wallet]
  BY <1>3, <1>4 DEF WalletOK
<1>6. WalletOK(w(acc)) /\ w(acc).coin = KeptCoin(acc, Market)
  BY <1>2, <1>4, <1>5, RebuildSound
<1> HIDE DEF w
<1> DEFINE pos == acc.pos[Market]
           v == w(acc)
<1>7. pos.free \in Nat /\ pos.avg \in Nat /\ v.available \in Int /\ v.coin \in Int
  BY <1>2, <1>6, WalletFields DEF Account, WalletOK
<1>8. /\ v.coin = IF CoinValue(pos) >= InitDust THEN pos.free ELSE 0
      /\ NoDust /\ pos.free > 0 => pos.avg > 0 /\ CoinValue(pos) >= InitDust
  BY <1>6 DEF KeptCoin, NoDust
<1>9. /\ engine.wallet = v /\ engine.seen = <<>> /\ engine.events = <<>> /\ engine.mark = 0
      /\ engine.store = [o \in Orders |-> Absent]
  BY <1>1 DEF NewEngine
<1>10. \A o \in Orders : ~InStore(engine, o) /\ ex[o].state = "none" /\ ex[o].vol <= ex[o].size
  <2>1. \A o \in Orders : engine.store[o].status = "Absent" /\ ex[o] = none
    BY <1>1, <1>9 DEF Absent
  <2> QED
    BY <2>1 DEF InStore
<1>11. /\ strategy.state = "InPosition" => pos.free > 0 /\ pos.avg > 0
       /\ strategy.state = "Flat" => "unsynced" \in taint \/ ~(pos.free > 0 /\ pos.avg > 0)
  <2>1. NewStrategy \in Strategy /\ NewStrategy.state = "Flat"
    BY DEF NewStrategy, Strategy, States
  <2>2. CASE strategy = NewStrategy /\ taint = {"unsynced"}
    BY <2>1, <2>2
  <2>3. CASE strategy = SyncOnStart(pos.free, pos.avg)
    <3>1. CASE pos.free > 0 /\ pos.avg > 0
      <4>1. strategy = SetPosition(NewStrategy, "InPosition", pos.avg)
        BY <2>3, <3>1 DEF SyncOnStart, SetPosition
      <4>2. "InPosition" \in States /\ pos.avg \in Int
        BY <1>7 DEF States
      <4>3. strategy.state = "InPosition"
        BY <2>1, <4>1, <4>2, SetPositionType
      <4> QED
        BY <3>1, <4>3
    <3>2. CASE ~(pos.free > 0 /\ pos.avg > 0)
      <4>1. strategy = NewStrategy
        BY <2>3, <3>2 DEF SyncOnStart
      <4> QED
        BY <2>1, <3>2, <4>1
    <3> QED
      BY <3>1, <3>2
  <2> QED
    BY <1>1, <2>2, <2>3
<1> HIDE DEF pos, v
<1>12. /\ v.coin <= pos.free /\ v.coin >= 0
       /\ NoDust => v.coin = pos.free /\ (pos.free > 0 => pos.avg > 0)
  BY <1>7, <1>8
<1>13. net \in Net /\ net.krw = v.available /\ net.coin = pos.free
  BY <1>1, <1>7 DEF Net, v, pos
<1>14. FlowOK(engine, ex, net, queue, candle)
  <2>1. FeedOK(queue, ex)
    BY <1>1 DEF FeedOK, Rising
  <2>2. SeenOK(engine.seen, queue, ex)
    BY <1>9 DEF SeenOK
  <2>3. candle \in Closes \cup {0} /\ engine.mark \in Closes \cup {0}
    BY <1>1, <1>9
  <2> QED
    BY <1>10, <1>13, <2>1, <2>2, <2>3 DEF FlowOK, StoreOK
<1>15. ASSUME NoDust PROVE PositionOK(strategy, engine, ex, taint)
  <2>1. EndsHold(strategy, engine)
    BY <1>9 DEF EndsHold
  <2>2. IdleHolds(strategy.state, v.coin, taint)
    BY <1>7, <1>11, <1>12, <1>15 DEF IdleHolds
  <2> QED
    BY <1>9, <1>10, <2>1, <2>2 DEF PositionOK
<1>16. BooksOK(engine, ex, net, queue, placed)
  <2>1. Settled(engine.wallet, net)
    BY <1>9, <1>12, <1>13 DEF Settled, Within
  <2> QED
    BY <1>10, <2>1 DEF BooksOK
<1> QED
  BY <1>14, <1>15, <1>16 DEF AmountsOK

\* Recovery at the top of the loop or at a timeout.
LEMMA RecoverAmounts ==
    ASSUME JInv, NEW a, Recover(a) \/ Timeout(a)
    PROVE  AmountsOK(strategy, engine', ex, net, queue, candle, placed, taint')
<1>1. RunRecovery(a) \/ (engine' = engine /\ taint' = taint)
  BY DEF Recover, Timeout
<1>2. IInv'
  BY RecoverStep DEF JInv
<1>3. strategy' = strategy
  BY DEF Recover, Timeout
<1>4. AgreeOK(strategy, engine')
  BY <1>2, <1>3 DEF IInv
<1> QED
  BY <1>1, <1>4, RecoveryAmounts DEF JInv

\* Every step keeps the amounts.
LEMMA NextAmounts ==
    ASSUME JInv, [Next]_vars
    PROVE  AmountsOK(strategy, engine, ex, net, queue, candle, placed, taint)'
<1> DEFINE Kept == AmountsOK(strategy', engine', ex', net', queue', candle', placed', taint')
<1>1. /\ engine \in Engine
      /\ AmountsOK(strategy, engine, ex, net, queue, candle, placed, taint)
  BY DEF JInv, IInv, EngineOK
<1>2. ASSUME NEW a \in Answers, Recover(a) \/ Timeout(a) PROVE Kept
  <2>1. /\ strategy' = strategy /\ ex' = ex /\ net' = net /\ queue' = queue
        /\ candle' = candle /\ placed' = placed
    BY <1>2 DEF Recover, Timeout
  <2> QED
    BY <1>2, <2>1, RecoverAmounts
<1>3. CASE PopMessage
  <2>1. /\ strategy' = strategy /\ ex' = ex /\ net' = net
        /\ candle' = candle /\ placed' = placed
    BY <1>3 DEF PopMessage
  <2> QED
    BY <1>3, <2>1, PopAmounts
<1>4. CASE PopNothing
  BY <1>1, <1>4 DEF PopNothing
<1>5. CASE PopCandle
  <2>1. PICK close \in Closes :
            UpdateCandle(close) \/ \E sig \in Signals : ConfirmCandle(close, sig)
    BY <1>5 DEF PopCandle
  <2>2. CASE UpdateCandle(close)
    <3>1. /\ engine' = engine /\ strategy' = strategy /\ ex' = ex /\ net' = net
          /\ queue' = queue /\ placed' = placed /\ taint' = taint /\ candle' = close
      BY <2>2 DEF UpdateCandle
    <3>2. AmountsOK(strategy, engine, ex, net, queue, close, placed, taint)
      BY <1>1, CandleOnly
    <3> QED
      BY <3>1, <3>2
  <2>3. CASE \E sig \in Signals : ConfirmCandle(close, sig)
    <3>1. PICK sig \in Signals : ConfirmCandle(close, sig)
      BY <2>3
    <3>2. candle' = close /\ net' = net
      BY <3>1 DEF ConfirmCandle
    <3> QED
      BY <3>1, <3>2, ConfirmAmounts
  <2> QED
    BY <2>1, <2>2, <2>3
<1>6. CASE Intrabar
  <2>1. candle' = candle /\ net' = net
    BY <1>6 DEF Intrabar
  <2> QED
    BY <1>6, <2>1, IntrabarAmounts
<1>7. CASE Poll
  <2>1. /\ ex' = ex /\ net' = net /\ queue' = queue /\ candle' = candle
        /\ placed' = placed /\ taint' = taint
    BY <1>7 DEF Poll
  <2> QED
    BY <1>7, <2>1, PollAmounts
<1>8. CASE Check
  BY <1>1, <1>8 DEF Check
<1>9. CASE Exchange
  <2>1. PICK o \in Orders : Fill(o) \/ \E known \in BOOLEAN : End(o, known)
    BY <1>9 DEF Exchange
  <2>2. CASE Fill(o)
    <3>1. /\ strategy' = strategy /\ engine' = engine /\ candle' = candle
          /\ placed' = placed /\ taint' = taint
      BY <2>2 DEF Fill, worker
    <3> QED
      BY <2>2, <3>1, FillAmounts
  <2>3. CASE \E known \in BOOLEAN : End(o, known)
    <3>1. PICK known \in BOOLEAN : End(o, known)
      BY <2>3
    <3>2. /\ strategy' = strategy /\ engine' = engine /\ candle' = candle
          /\ placed' = placed /\ taint' = taint
      BY <3>1 DEF End, worker
    <3> QED
      BY <3>1, <3>2, EndAmounts
  <2> QED
    BY <2>1, <2>2, <2>3
<1>10. CASE Disconnect
  BY <1>1, <1>10 DEF Disconnect, worker
<1>11. CASE Reconnect
  BY <1>1, <1>11 DEF Reconnect, worker
<1>12. CASE DropOldest
  <2>1. /\ strategy' = strategy /\ engine' = engine /\ candle' = candle /\ ex' = ex
        /\ net' = net /\ placed' = placed /\ taint' = taint
        /\ queue # <<>> /\ queue' = Tail(queue)
    BY <1>12 DEF DropOldest, worker
  <2>2. AmountsOK(strategy, engine, ex, net, queue', candle, placed, taint)
    BY <1>1, <2>1, DropAmounts
  <2> QED
    BY <2>1, <2>2
<1>13. CASE UNCHANGED vars
  BY <1>1, <1>13 DEF vars
<1>14. Kept
  BY <1>2, <1>3, <1>4, <1>5, <1>6, <1>7, <1>8, <1>9, <1>10, <1>11, <1>12, <1>13
     DEF Next, Worker
<1> QED
  BY <1>14

\* The amounts are right in every reachable state, between orders and while one
\* runs, on its way to the strategy and in the strategy's belief.
THEOREM WorkerAmounts == Spec => []JInv
<1>1. Init => JInv
  BY InitIInv, InitAmounts DEF JInv
<1>2. JInv /\ [Next]_vars => JInv'
  BY NextIInv, NextAmounts DEF JInv
<1> QED
  BY <1>1, <1>2, PTL DEF Spec

\* Between orders the wallet has the KRW of the exchange to the last won, and its
\* coin but for what was written off as dust, unless one of the four things
\* happened that the books do not survive (MarketEngine.cpp:154-221, 500-584,
\* MarketEngineManager.cpp:367-444, 676-768).
THEOREM WorkerBooksExact == Spec => []BooksExact
<1>1. JInv => BooksExact
  <2> SUFFICES ASSUME JInv, taint \subseteq {"unsynced"}, ActivePendingIds(engine) = {}
               PROVE  Krw = net.krw /\ Coin <= net.coin /\ (NoDust => Coin = net.coin)
    BY DEF BooksExact
  <2>1. EngineOK(engine) /\ BooksOK(engine, ex, net, queue, placed)
    BY DEF JInv, IInv, AmountsOK, Clean
  <2>2. engine.buy = NoOrder /\ engine.sell = NoOrder
    BY DEF ActivePendingIds
  <2>3. \A o \in Orders : ~InStore(engine, o)
    BY <2>1, <2>2, EngineAssumption DEF EngineOK
  <2>4. Settled(engine.wallet, net)
    BY <2>1, <2>3 DEF BooksOK
  <2> QED
    BY <2>4 DEF Settled, Within, Krw, Coin
<1> QED
  BY <1>1, WorkerAmounts, PTL

\* As long as no coin is dust, the strategy in position has coin to sell and the
\* flat one has none, whatever was lost or late; one that was not told its
\* position at the start knows it after a candle
\* (RsiMeanReversionStrategy.cpp:86-125, 157-181, 438-571, MarketEngine.cpp:449-463).
THEOREM WorkerPositionMatches == Spec => []PositionMatchesWallet
<1>1. JInv => PositionMatchesWallet
  <2> SUFFICES ASSUME JInv, NoDust
               PROVE  /\ strategy.state = "InPosition" => Coin > 0
                      /\ strategy.state = "Flat" /\ "unsynced" \notin taint => Coin = 0
    BY DEF PositionMatchesWallet
  <2>1. IdleHolds(strategy.state, engine.wallet.coin, taint)
    BY DEF JInv, AmountsOK, PositionOK
  <2> QED
    BY <2>1 DEF IdleHolds, Coin
<1> QED
  BY <1>1, WorkerAmounts, PTL

=============================================================================
