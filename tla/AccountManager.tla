-------------------------- MODULE AccountManager --------------------------
(***************************************************************************)
(* The KRW and coin bookkeeping of one CoinBot account                     *)
(* (src/trading/allocation/AccountManager.{h,cpp}), as operators.          *)
(*                                                                         *)
(* A WALLET is the MarketBudget of one market together with the            *)
(* ReservationToken its engine holds: every call of the source touches     *)
(* exactly that pair, under the manager's mutex, so one call is one        *)
(* operator from wallet to wallet.  A token that was moved from, released  *)
(* or finalized is NoToken: all calls return early on an inactive token.   *)
(*                                                                         *)
(* Amounts are integers: KRW in won, coin in units of coin_epsilon, prices *)
(* in won per coin unit.                                                   *)
(***************************************************************************)
EXTENDS Integers, FiniteSets

CONSTANTS
    Markets,       \* the traded markets (BotConfig::markets)
    InitDust,      \* AccountConfig::init_dust_threshold_krw
    KrwDust,       \* AccountConfig::krw_dust_threshold
    CoinEpsilon    \* AccountConfig::coin_epsilon

ASSUME AccountAssumption ==
    /\ IsFiniteSet(Markets) /\ Markets # {}   \* an empty list is refused (cpp:63)
    /\ InitDust \in Nat
    /\ KrwDust \in Nat
    /\ CoinEpsilon \in Nat \ {0}

----------------------------------------------------------------------------
(* Types *)

Token == [active : BOOLEAN, amount : Nat, consumed : Nat]

NoToken == [active |-> FALSE, amount |-> 0, consumed |-> 0]

Wallet == [available : Int, reserved : Nat, coin : Int, avg : Int,
           capital : Int, pnl : Int, token : Token]

\* What getMyAccount reports: free KRW and, per market, the free coin and its
\* average buy price (free = 0 where the account has no such position).
Account == [krw : Nat, pos : [Markets -> [free : Nat, avg : Nat]]]

EmptyAccount == [krw |-> 0, pos |-> [m \in Markets |-> [free |-> 0, avg |-> 0]]]

----------------------------------------------------------------------------
(* ReservationToken *)

Remaining(t) == t.amount - t.consumed

AddConsumed(t, krw) ==
    [t EXCEPT !.consumed = IF @ + krw > t.amount THEN t.amount ELSE @ + krw]

----------------------------------------------------------------------------
(* Reservation *)

BadCanReserve(w, krw) == krw > 0       \* mutant: the available KRW is not asked

CanReserve(w, krw) == krw > 0 /\ w.available >= krw

\* reserve() when it returns a token; otherwise the wallet is left alone.
Reserve(w, krw) ==
    [w EXCEPT !.available = @ - krw,
              !.reserved  = @ + krw,
              !.token     = [active |-> TRUE, amount |-> krw, consumed |-> 0]]

BadReleaseInternal(w, krw) ==          \* mutant: releases the whole reservation
    [w EXCEPT !.available = @ + w.token.amount,
              !.reserved  = IF @ - krw < 0 THEN 0 ELSE @ - krw]

ReleaseInternal(w, krw) ==
    [w EXCEPT !.available = @ + krw,
              !.reserved  = IF @ - krw < 0 THEN 0 ELSE @ - krw]

\* release(), and the destructor of a token that is still active.
Release(w) ==
    IF w.token.active
    THEN [ReleaseInternal(w, Remaining(w.token)) EXCEPT !.token = NoToken]
    ELSE w

----------------------------------------------------------------------------
(* Settlement of fills and of finished orders *)

BadFinalizeFillBuy(w, krw, received, price) ==  \* mutant: books past the reservation
    IF ~w.token.active \/ krw <= 0 \/ received <= 0 \/ price <= 0 THEN w
    ELSE [w EXCEPT !.reserved = @ - krw,
                   !.coin     = @ + received,
                   !.token    = [@ EXCEPT !.consumed = @ + krw]]

\* The clamp to the reservation applies to the KRW only: the coin is booked in
\* full.
FinalizeFillBuy(w, krw, received, price) ==
    LET executed == IF krw > Remaining(w.token) THEN Remaining(w.token) ELSE krw
        balance  == w.coin + received
    IN  IF \/ ~w.token.active
           \/ krw <= 0 \/ received <= 0 \/ price <= 0
           \/ executed <= 0
        THEN w
        ELSE [w EXCEPT !.reserved = IF @ - executed < 0 THEN 0 ELSE @ - executed,
                       !.avg      = IF balance > 0
                                    THEN (w.coin * @ + received * price) \div balance
                                    ELSE @,
                       !.coin     = balance,
                       !.token    = AddConsumed(@, executed)]

\* The code has no oversell correction: the coin balance may become negative, and
\* the KRW of the volume that was not there is booked like the rest.  The header
\* documents one (AccountManager.h:263-265).
FinalizeFillSell(w, sold, krw) ==
    IF sold <= 0 \/ krw < 0
    THEN w
    ELSE [w EXCEPT !.coin = @ - sold, !.available = @ + krw]

\* mark = 0 stands for "no mark price known" (nullopt).
IsDust(w, mark) ==
    \/ w.coin < CoinEpsilon
    \/ mark > 0 /\ w.coin * mark < InitDust

FinalizeSellOrder(w, mark) ==
    IF IsDust(w, mark)
    THEN [w EXCEPT !.coin = 0, !.avg = 0, !.pnl = w.available - w.capital]
    ELSE w

SweepDust(w) ==
    IF w.reserved > 0 /\ w.reserved < KrwDust
    THEN [w EXCEPT !.available = @ + w.reserved, !.reserved = 0]
    ELSE w

\* mutant: forgets to give back what the order did not use
BadFinalizeOrder(w) ==
    IF w.token.active THEN [SweepDust(w) EXCEPT !.token = NoToken] ELSE w

FinalizeOrder(w) ==
    LET released == IF Remaining(w.token) > 0
                    THEN ReleaseInternal(w, Remaining(w.token))
                    ELSE w
    IN  IF w.token.active
        THEN [SweepDust(released) EXCEPT !.token = NoToken]
        ELSE w

----------------------------------------------------------------------------
(* Allocation at start-up *)

CoinValue(p) == p.free * p.avg

\* Equal share of the free KRW among n markets.
Share(krw, n) == krw \div n

\* The constructor.
Construct(acc) ==
    LET held(m) == CoinValue(acc.pos[m]) >= InitDust
        flat    == {m \in Markets : ~held(m) \/ acc.pos[m].free = 0}
        share   == IF acc.krw > 0 /\ flat # {}
                   THEN Share(acc.krw, Cardinality(flat)) ELSE 0
    IN  [m \in Markets |->
            [available |-> IF m \in flat THEN share ELSE 0,
             reserved  |-> 0,
             coin      |-> IF held(m) THEN acc.pos[m].free ELSE 0,
             avg       |-> IF held(m) THEN acc.pos[m].avg ELSE 0,
             capital   |-> IF m \in flat /\ acc.krw > 0 THEN share
                           ELSE IF held(m) THEN CoinValue(acc.pos[m]) ELSE 0,
             pnl       |-> 0,
             token     |-> NoToken]]

\* mutant: every market gets a share, those that hold coin too
BadRebuildFromAccount(ws, acc) ==
    [m \in Markets |->
        [ws[m] EXCEPT
            !.coin      = IF CoinValue(acc.pos[m]) >= InitDust THEN acc.pos[m].free ELSE 0,
            !.available = Share(acc.krw, Cardinality({n \in Markets :
                              CoinValue(acc.pos[n]) < InitDust}) + 1),
            !.reserved  = 0]]

\* rebuildFromAccount: capital and pnl keep what the constructor gave them.
RebuildFromAccount(ws, acc) ==
    LET held(m) == CoinValue(acc.pos[m]) >= InitDust
        coin(m) == IF held(m) THEN acc.pos[m].free ELSE 0
        flat    == {m \in Markets : coin(m) < CoinEpsilon}
        share   == Share(acc.krw, Cardinality(flat))
    IN  [m \in Markets |->
            [ws[m] EXCEPT
                !.coin      = coin(m),
                !.avg       = IF held(m) THEN acc.pos[m].avg ELSE 0,
                !.available = IF m \in flat THEN share ELSE 0,
                !.reserved  = 0]]

============================================================================
