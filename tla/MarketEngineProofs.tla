------------------------- MODULE MarketEngineProofs -------------------------
(***************************************************************************)
(* Lemmas about the calls of the AccountManager and the methods of the     *)
(* MarketEngine, as operators on one wallet and on one engine.             *)
(*                                                                         *)
(* WalletOK is the invariant of a wallet, EngineOK that of an engine; each *)
(* call and each method is shown to keep its own, with what it does to the *)
(* KRW, to the slot and to the announced events.                           *)
(***************************************************************************)
EXTENDS MarketEngine, FiniteSetTheorems, TLAPS

\* Never overdrawn, and the reserved KRW is what the token has left.
WalletOK(w) ==
    /\ w \in Wallet
    /\ w.available >= 0
    /\ w.reserved = Remaining(w.token)
    /\ w.token.active \/ w.token = NoToken
    /\ w.token.consumed <= w.token.amount

\* All KRW of a wallet, what the running token has consumed included.
Total(w) == w.available + w.reserved + w.token.consumed

----------------------------------------------------------------------------

\* The fields of a wallet, and how the calls update them.
LEMMA WalletFields ==
    ASSUME NEW w \in Wallet
    PROVE  /\ w.available \in Int /\ w.reserved \in Nat
           /\ w.coin \in Int /\ w.avg \in Int /\ w.capital \in Int /\ w.pnl \in Int
           /\ w.token \in Token /\ w.token.active \in BOOLEAN
           /\ w.token.amount \in Nat /\ w.token.consumed \in Nat
BY DEF Wallet, Token

\* The shapes of update the calls make; the provers meet them by name.
SetKrw(w, x, r) == [w EXCEPT !.available = x, !.reserved = r]

SetReserve(w, x, r, t) == [w EXCEPT !.available = x, !.reserved = r, !.token = t]

SetFill(w, r, a, c, t) ==
    [w EXCEPT !.reserved = r, !.avg = a, !.coin = c, !.token = t]

SetAllotment(w, c, a, x, r) ==
    [w EXCEPT !.coin = c, !.avg = a, !.available = x, !.reserved = r]

WriteOff(w, c, a, p) == [w EXCEPT !.coin = c, !.avg = a, !.pnl = p]

\* The fields of a wallet whose KRW changes.
LEMMA SetKrwType ==
    ASSUME NEW w \in Wallet, NEW x \in Int, NEW r \in Nat
    PROVE  LET f == SetKrw(w, x, r)
           IN  /\ f \in Wallet /\ f.available = x /\ f.reserved = r
               /\ f.coin = w.coin
BY DEF Wallet, SetKrw

\* The fields of a wallet that gets a token.
LEMMA SetReserveType ==
    ASSUME NEW w \in Wallet, NEW x \in Int, NEW r \in Nat, NEW t \in Token
    PROVE  LET f == SetReserve(w, x, r, t)
           IN  /\ f \in Wallet /\ f.available = x /\ f.reserved = r /\ f.token = t
               /\ f.coin = w.coin
BY DEF Wallet, SetReserve

\* The fields of a wallet after a fill of a buy.
LEMMA SetFillType ==
    ASSUME NEW w \in Wallet, NEW r \in Nat, NEW a \in Int, NEW c \in Int, NEW t \in Token
    PROVE  LET f == SetFill(w, r, a, c, t)
           IN  /\ f \in Wallet /\ f.available = w.available /\ f.reserved = r /\ f.token = t
               /\ f.coin = c
BY DEF Wallet, SetFill

\* The fields of a wallet that gets its share of the account.
LEMMA SetAllotmentType ==
    ASSUME NEW w \in Wallet, NEW c \in Int, NEW a \in Int, NEW x \in Int, NEW r \in Nat
    PROVE  LET f == SetAllotment(w, c, a, x, r)
           IN  /\ f \in Wallet /\ f.available = x /\ f.reserved = r /\ f.token = w.token
               /\ f.coin = c /\ f.avg = a
<1> DEFINE f == SetAllotment(w, c, a, x, r)
<1>1. f \in Wallet
  BY DEF Wallet, SetAllotment
<1>2. f.available = x /\ f.reserved = r
  BY DEF Wallet, SetAllotment
<1>3. f.token = w.token
  BY DEF Wallet, SetAllotment
<1>4. f.coin = c /\ f.avg = a
  BY DEF Wallet, SetAllotment
<1> QED
  BY <1>1, <1>2, <1>3, <1>4

\* The fields of a wallet whose token changes.
LEMMA TokenUpdate ==
    ASSUME NEW w \in Wallet, NEW t \in Token
    PROVE  LET f == [w EXCEPT !.token = t]
           IN  /\ f \in Wallet /\ f.token = t
               /\ f.available = w.available /\ f.reserved = w.reserved
               /\ f.coin = w.coin
BY DEF Wallet

\* The fields of a wallet after dust is written off.
LEMMA WriteOffType ==
    ASSUME NEW w \in Wallet, NEW c \in Int, NEW a \in Int, NEW p \in Int
    PROVE  LET f == WriteOff(w, c, a, p)
           IN  /\ f \in Wallet /\ f.token = w.token
               /\ f.available = w.available /\ f.reserved = w.reserved
               /\ f.coin = c
BY DEF Wallet, WriteOff

\* The fields of a token.
LEMMA TokenType ==
    /\ NoToken \in Token /\ ~NoToken.active
    /\ NoToken.amount = 0 /\ NoToken.consumed = 0
    /\ \A b \in BOOLEAN, a, c \in Nat :
          LET t == [active |-> b, amount |-> a, consumed |-> c]
          IN  t \in Token /\ t.active = b /\ t.amount = a /\ t.consumed = c
BY DEF Token, NoToken

----------------------------------------------------------------------------

\* reserve moves KRW from available to reserved.
LEMMA ReserveSound ==
    ASSUME NEW w, WalletOK(w), ~w.token.active, NEW krw \in Int, CanReserve(w, krw)
    PROVE  /\ WalletOK(Reserve(w, krw))
           /\ Total(Reserve(w, krw)) = Total(w)
           /\ Reserve(w, krw).token.active
           /\ Reserve(w, krw).available = w.available - krw
           /\ Reserve(w, krw).reserved = krw
           /\ Reserve(w, krw).coin = w.coin
           /\ Reserve(w, krw).token.consumed = 0
<1> DEFINE t == [active |-> TRUE, amount |-> krw, consumed |-> 0]
           f == Reserve(w, krw)
<1>1. krw \in Nat /\ krw > 0 /\ w.available - krw >= 0 /\ w.available - krw \in Int
  BY WalletFields DEF CanReserve, WalletOK
<1>2. w.reserved = 0 /\ w.token.consumed = 0
  BY TokenType DEF WalletOK, Remaining
<1>3. t \in Token /\ t.active = TRUE /\ t.amount = krw /\ t.consumed = 0
  BY <1>1, TokenType
<1> DEFINE x == w.available - krw
           r == w.reserved + krw
<1>4. f = SetReserve(w, x, r, t)
  BY DEF Reserve, SetReserve
<1>5. w \in Wallet /\ x \in Int /\ r \in Nat /\ r = krw /\ t \in Token
  BY <1>1, <1>2, <1>3 DEF WalletOK
<1> HIDE DEF t, f, x, r
<1>6. f \in Wallet /\ f.available = x /\ f.reserved = r /\ f.token = t /\ f.coin = w.coin
  BY <1>4, <1>5, SetReserveType
<1>7. /\ f \in Wallet /\ f.available = w.available - krw
      /\ f.reserved = krw /\ f.token = t /\ f.coin = w.coin
  BY <1>5, <1>6 DEF x
<1>8. WalletOK(f)
  BY <1>1, <1>3, <1>7 DEF WalletOK, Remaining
<1>9. Total(f) = Total(w)
  BY <1>1, <1>2, <1>3, <1>7, WalletFields DEF Total, WalletOK
<1> QED
  BY <1>3, <1>7, <1>8, <1>9 DEF f

\* release gives back what the token has left.
LEMMA ReleaseSound ==
    ASSUME NEW w, WalletOK(w), w.token.active
    PROVE  /\ WalletOK(Release(w))
           /\ Release(w).token = NoToken
           /\ Release(w).reserved = 0
           /\ Release(w).available = w.available + w.reserved
           /\ Release(w).coin = w.coin
<1> DEFINE f == Release(w)
<1>1. /\ w.available \in Int /\ w.available >= 0 /\ w.reserved \in Nat
      /\ Remaining(w.token) = w.reserved
  BY WalletFields DEF WalletOK
<1>2. f = [ReleaseInternal(w, w.reserved) EXCEPT !.token = NoToken]
  BY <1>1 DEF Release
<1> DEFINE x == w.available + w.reserved
           r == IF w.reserved - w.reserved < 0 THEN 0 ELSE w.reserved - w.reserved
           u == ReleaseInternal(w, w.reserved)
<1>3. w \in Wallet /\ x \in Int /\ r \in Nat /\ r = 0
  BY <1>1 DEF WalletOK
<1>4. u = SetKrw(w, x, r)
  BY DEF ReleaseInternal, SetKrw
<1> HIDE DEF r, u
<1> HIDE DEF f
<1>5. u \in Wallet /\ u.available = x /\ u.reserved = 0 /\ u.coin = w.coin
  <2> HIDE DEF x
  <2> QED  BY <1>3, <1>4, SetKrwType
<1>6. f = [u EXCEPT !.token = NoToken]
  BY <1>2 DEF u
<1>7. /\ f \in Wallet /\ f.available = w.available + w.reserved
      /\ f.reserved = 0 /\ f.token = NoToken /\ f.coin = w.coin
  BY <1>5, <1>6, TokenUpdate, TokenType
<1> QED
  BY <1>1, <1>7, TokenType DEF WalletOK, Remaining, f

\* The average price stays an integer.
LEMMA QuotientType ==
    ASSUME NEW a \in Int, NEW b \in Int, b > 0
    PROVE  a \div b \in Int
OBVIOUS

\* The average price is a number wherever there is a coin to divide by.
LEMMA AverageType ==
    ASSUME NEW c \in Int, NEW a \in Int, NEW r \in Int, NEW p \in Int, c + r > 0
    PROVE  (c * a + r * p) \div (c + r) \in Int
<1>1. c * a \in Int /\ r * p \in Int
  OBVIOUS
<1>2. c * a + r * p \in Int
  BY <1>1
<1> QED
  BY <1>2, QuotientType

\* A buy fill that the wallet books: an empty reservation pays for nothing.
Booked(w, krw, received, price) ==
    w.token.active /\ krw > 0 /\ received > 0 /\ price > 0 /\ w.reserved > 0

\* A buy fill moves KRW from reserved to consumed, never more than is reserved,
\* and brings its coin in full.
LEMMA FillBuySound ==
    ASSUME NEW w, WalletOK(w), NEW krw \in Int, NEW received \in Int, NEW price \in Int
    PROVE  LET f == FinalizeFillBuy(w, krw, received, price)
           IN  /\ WalletOK(f)
               /\ Total(f) = Total(w)
               /\ f.token.active = w.token.active
               /\ f.available = w.available
               /\ f.reserved <= w.reserved
               /\ \/ f = w /\ ~Booked(w, krw, received, price)
                  \/ /\ Booked(w, krw, received, price) /\ f.coin = w.coin + received
                     /\ f.reserved = IF krw > w.reserved THEN 0 ELSE w.reserved - krw
<1> DEFINE f == FinalizeFillBuy(w, krw, received, price)
           executed == IF krw > Remaining(w.token) THEN Remaining(w.token) ELSE krw
           avg == IF w.coin + received > 0
                  THEN (w.coin * w.avg + received * price) \div (w.coin + received)
                  ELSE w.avg
<1>0. /\ executed \in Int /\ w.reserved = Remaining(w.token) /\ w.reserved \in Nat
      /\ executed > 0 <=> (krw > 0 /\ w.reserved > 0)
  BY WalletFields DEF WalletOK, Remaining
<1>1. CASE ~Booked(w, krw, received, price)
  <2>1. f = w
    BY <1>0, <1>1 DEF FinalizeFillBuy, Booked
  <2> QED
    BY <1>1, <2>1 DEF WalletOK, Wallet, Token
<1>2. CASE Booked(w, krw, received, price)
  <2>1. w.token.active /\ krw > 0 /\ received > 0 /\ price > 0 /\ executed > 0
    BY <1>0, <1>2 DEF Booked
  <2>2. w.coin \in Int /\ w.avg \in Int
    BY WalletFields DEF WalletOK
  <2>3. avg \in Int
    BY <2>2, AverageType
  <2>4. f = [w EXCEPT !.reserved = IF w.reserved - executed < 0 THEN 0
                                   ELSE w.reserved - executed,
                      !.avg      = avg,
                      !.coin     = w.coin + received,
                      !.token    = AddConsumed(w.token, executed)]
    BY <1>0, <2>1 DEF FinalizeFillBuy
  <2>5. executed \in Nat /\ executed <= w.reserved /\ w.reserved = Remaining(w.token)
    BY <2>1, WalletFields DEF WalletOK, Remaining
  <2> DEFINE t == AddConsumed(w.token, executed)
  <2> HIDE DEF avg, f, executed
  <2>6. /\ t \in Token /\ t.active = w.token.active /\ t.amount = w.token.amount
        /\ t.consumed = w.token.consumed + executed
    BY <2>5, WalletFields DEF AddConsumed, Token, Remaining, WalletOK
  <2>7. w.reserved - executed \in Nat
    BY <2>5, WalletFields DEF WalletOK
  <2> DEFINE r == IF w.reserved - executed < 0 THEN 0 ELSE w.reserved - executed
             c == w.coin + received
  <2>8. /\ w \in Wallet /\ r \in Nat /\ r = w.reserved - executed /\ c \in Int
    BY <2>2, <2>7 DEF WalletOK
  <2>9. f = SetFill(w, r, avg, c, t)
    BY <2>4 DEF SetFill
  <2> HIDE DEF t, r, c
  <2>10. /\ f \in Wallet /\ f.available = w.available /\ f.coin = c
        /\ f.reserved = w.reserved - executed /\ f.token = t
    BY <2>3, <2>6, <2>8, <2>9, SetFillType
  <2>11. WalletOK(f)
    <3>1. /\ w.available >= 0 /\ w.token.amount \in Nat /\ w.token.consumed \in Nat
          /\ w.reserved \in Nat
      BY WalletFields DEF WalletOK
    <3>2. f.reserved = Remaining(f.token) /\ f.token.consumed <= f.token.amount
      BY <2>5, <2>6, <2>10, <3>1 DEF Remaining
    <3>3. f.token.active
      BY <2>1, <2>6, <2>10
    <3> QED
      BY <2>10, <3>1, <3>2, <3>3 DEF WalletOK
  <2>12. Total(f) = Total(w)
    BY <2>5, <2>6, <2>10, WalletFields DEF Total, WalletOK
  <2>13. f.reserved <= w.reserved
    BY <2>5, <2>10, WalletFields DEF WalletOK
  <2>14. /\ f.coin = w.coin + received
         /\ f.reserved = IF krw > w.reserved THEN 0 ELSE w.reserved - krw
    BY <1>0, <2>10 DEF c, executed
  <2> QED
    BY <1>2, <2>6, <2>10, <2>11, <2>12, <2>13, <2>14 DEF f
<1> QED
  BY <1>1, <1>2

\* A sell fill adds what was received.
LEMMA FillSellSound ==
    ASSUME NEW w, WalletOK(w), NEW sold \in Int, NEW krw \in Int
    PROVE  LET f == FinalizeFillSell(w, sold, krw)
           IN  /\ WalletOK(f)
               /\ f.token = w.token
               /\ f.reserved = w.reserved
               /\ f.available = IF sold > 0 /\ krw >= 0 THEN w.available + krw
                                ELSE w.available
               /\ f.coin = IF sold > 0 /\ krw >= 0 THEN w.coin - sold ELSE w.coin
<1> DEFINE f == [w EXCEPT !.coin = w.coin - sold, !.available = w.available + krw]
<1>1. CASE sold > 0 /\ krw >= 0
  <2>1. FinalizeFillSell(w, sold, krw) = f
    BY <1>1 DEF FinalizeFillSell
  <2>2. w.coin - sold \in Int /\ w.available + krw \in Int /\ w.available + krw >= 0
    BY <1>1, WalletFields DEF WalletOK
  <2>3. /\ f \in Wallet /\ f.token = w.token /\ f.reserved = w.reserved
        /\ f.available = w.available + krw /\ f.coin = w.coin - sold
    BY <2>2 DEF WalletOK, Wallet
  <2> HIDE DEF f
  <2>4. WalletOK(f)
    BY <2>2, <2>3 DEF WalletOK
  <2> QED
    BY <1>1, <2>1, <2>3, <2>4
<1>2. CASE ~(sold > 0 /\ krw >= 0)
  BY <1>2 DEF FinalizeFillSell
<1> QED
  BY <1>1, <1>2

\* The end of a sell order moves no KRW.
LEMMA SellOrderSound ==
    ASSUME NEW w, WalletOK(w), NEW mark \in Int
    PROVE  LET f == FinalizeSellOrder(w, mark)
           IN  /\ WalletOK(f)
               /\ f.token = w.token
               /\ f.reserved = w.reserved
               /\ f.available = w.available
               /\ f.coin = IF IsDust(w, mark) THEN 0 ELSE w.coin
<1> DEFINE p == w.available - w.capital
           f == WriteOff(w, 0, 0, p)
<1>1. FinalizeSellOrder(w, mark) = IF IsDust(w, mark) THEN f ELSE w
  BY DEF FinalizeSellOrder, WriteOff
<1>2. w \in Wallet /\ p \in Int
  BY WalletFields DEF WalletOK
<1> HIDE DEF p
<1>3. /\ f \in Wallet /\ f.token = w.token
      /\ f.reserved = w.reserved /\ f.available = w.available /\ f.coin = 0
  BY <1>2, WriteOffType
<1> HIDE DEF f
<1>4. WalletOK(f)
  BY <1>3 DEF WalletOK
<1> QED
  BY <1>1, <1>3, <1>4

\* The end of a buy order gives back what it did not use; nothing is left for
\* the dust sweep.
LEMMA OrderSound ==
    ASSUME NEW w, WalletOK(w), w.token.active
    PROVE  /\ WalletOK(FinalizeOrder(w))
           /\ FinalizeOrder(w).token = NoToken
           /\ FinalizeOrder(w).reserved = 0
           /\ FinalizeOrder(w).available = w.available + w.reserved
           /\ FinalizeOrder(w).coin = w.coin
<1> DEFINE r == IF Remaining(w.token) > 0 THEN ReleaseInternal(w, Remaining(w.token)) ELSE w
           f == FinalizeOrder(w)
<1>1. /\ w \in Wallet /\ w.available \in Int /\ w.available >= 0 /\ w.reserved \in Nat
      /\ Remaining(w.token) = w.reserved
  BY WalletFields DEF WalletOK
<1>2. /\ r \in Wallet /\ r.reserved = 0 /\ r.available = w.available + w.reserved
      /\ r.coin = w.coin
  <2>1. CASE w.reserved > 0
    <3> DEFINE x == w.available + w.reserved
               y == IF w.reserved - w.reserved < 0 THEN 0 ELSE w.reserved - w.reserved
    <3>1. r = ReleaseInternal(w, w.reserved)
      BY <1>1, <2>1
    <3>2. r = SetKrw(w, x, y)
      BY <3>1 DEF ReleaseInternal, SetKrw
    <3>3. x \in Int /\ x = w.available + w.reserved /\ y \in Nat /\ y = 0
      BY <1>1
    <3> HIDE DEF r, x, y
    <3> QED
      BY <1>1, <3>2, <3>3, SetKrwType
  <2>2. CASE w.reserved = 0
    <3>1. r = w
      BY <1>1, <2>2
    <3> HIDE DEF r
    <3> QED
      BY <1>1, <2>2, <3>1
  <2> QED
    BY <1>1, <2>1, <2>2
<1>3. f = [SweepDust(r) EXCEPT !.token = NoToken]
  BY DEF FinalizeOrder
<1> HIDE DEF r, f
<1>4. f = [r EXCEPT !.token = NoToken]
  BY <1>2, <1>3 DEF SweepDust
<1>5. /\ f \in Wallet /\ f.available = w.available + w.reserved
      /\ f.reserved = 0 /\ f.token = NoToken /\ f.coin = w.coin
  BY <1>2, <1>4, TokenUpdate, TokenType
<1>6. WalletOK(f)
  BY <1>1, <1>5, TokenType DEF WalletOK, Remaining
<1> QED
  BY <1>5, <1>6 DEF f

----------------------------------------------------------------------------

\* The constructor's budgets for the empty account: nothing anywhere.
LEMMA ConstructEmpty ==
    \A m \in Markets : /\ WalletOK(Construct(EmptyAccount)[m])
                       /\ Construct(EmptyAccount)[m].token = NoToken
                       /\ Construct(EmptyAccount)[m].available = 0
                       /\ Construct(EmptyAccount)[m].coin = 0
<1> SUFFICES ASSUME NEW m \in Markets
             PROVE  /\ WalletOK(Construct(EmptyAccount)[m])
                    /\ Construct(EmptyAccount)[m].token = NoToken
                    /\ Construct(EmptyAccount)[m].available = 0
                    /\ Construct(EmptyAccount)[m].coin = 0
  OBVIOUS
<1>1. /\ EmptyAccount.krw = 0
      /\ EmptyAccount.pos[m].free = 0 /\ EmptyAccount.pos[m].avg = 0
  BY DEF EmptyAccount
<1>2. CoinValue(EmptyAccount.pos[m]) = 0
  BY <1>1 DEF CoinValue
<1>3. Construct(EmptyAccount)[m] =
        [available |-> 0, reserved |-> 0, coin |-> 0, avg |-> 0, capital |-> 0,
         pnl |-> 0, token |-> NoToken]
  BY <1>1, <1>2, AccountAssumption DEF Construct
<1> QED
  BY <1>3 DEF WalletOK, Wallet, Token, NoToken, Remaining

\* The equal share of a market that is among the flat ones.
LEMMA ShareType ==
    ASSUME NEW krw \in Nat, NEW flat \in SUBSET Markets, flat # {}
    PROVE  Share(krw, Cardinality(flat)) \in Nat
<1>1. IsFiniteSet(flat)
  BY AccountAssumption, FS_Subset
<1>2. Cardinality(flat) \in Nat /\ Cardinality(flat) # 0
  BY <1>1, FS_CardinalityType, FS_EmptySet
<1>3. \A n \in Nat : n # 0 => krw \div n \in Nat
  OBVIOUS
<1> QED
  BY <1>2, <1>3 DEF Share

\* The coin and price of a market that an account counts, and the markets among
\* which it splits its KRW.
KeptCoin(acc, m) == IF CoinValue(acc.pos[m]) >= InitDust THEN acc.pos[m].free ELSE 0

KeptPrice(acc, m) == IF CoinValue(acc.pos[m]) >= InitDust THEN acc.pos[m].avg ELSE 0

FlatMarkets(acc) == {m \in Markets : KeptCoin(acc, m) < CoinEpsilon}

\* A rebuild of sound wallets without tokens gives sound wallets.
LEMMA RebuildSound ==
    ASSUME NEW ws \in [Markets -> Wallet], NEW acc \in Account,
           \A m \in Markets : ws[m].token = NoToken
    PROVE  \A m \in Markets :
             LET w == RebuildFromAccount(ws, acc)[m]
             IN  /\ WalletOK(w) /\ w.token = NoToken /\ w.reserved = 0
                 /\ w.coin = KeptCoin(acc, m) /\ w.avg = KeptPrice(acc, m)
                 /\ w.available = IF m \in FlatMarkets(acc)
                                  THEN Share(acc.krw, Cardinality(FlatMarkets(acc))) ELSE 0
<1> SUFFICES ASSUME NEW m \in Markets
             PROVE  LET w == RebuildFromAccount(ws, acc)[m]
                    IN  /\ WalletOK(w) /\ w.token = NoToken /\ w.reserved = 0
                        /\ w.coin = KeptCoin(acc, m) /\ w.avg = KeptPrice(acc, m)
                        /\ w.available =
                              IF m \in FlatMarkets(acc)
                              THEN Share(acc.krw, Cardinality(FlatMarkets(acc))) ELSE 0
  OBVIOUS
<1> DEFINE coin == KeptCoin(acc, m)
           avg == KeptPrice(acc, m)
           flat == FlatMarkets(acc)
           avail == IF m \in flat THEN Share(acc.krw, Cardinality(flat)) ELSE 0
<1>1. RebuildFromAccount(ws, acc)[m] =
        [ws[m] EXCEPT !.coin = coin, !.avg = avg, !.available = avail, !.reserved = 0]
  BY DEF RebuildFromAccount, KeptCoin, KeptPrice, FlatMarkets
<1>2. acc.krw \in Nat /\ acc.pos[m].free \in Nat /\ acc.pos[m].avg \in Nat
  BY DEF Account
<1>3. avail \in Nat
  BY <1>2, ShareType DEF FlatMarkets
<1>4. coin \in Nat /\ avg \in Nat
  BY <1>2 DEF KeptCoin, KeptPrice
<1> DEFINE w == RebuildFromAccount(ws, acc)[m]
<1> HIDE DEF avail, avg, coin, w
<1>5. /\ w \in Wallet /\ w.available = avail /\ w.reserved = 0 /\ w.token = NoToken
      /\ w.coin = coin /\ w.avg = avg
  <2>1. ws[m] \in Wallet /\ ws[m].token = NoToken
    OBVIOUS
  <2>2. w = SetAllotment(ws[m], coin, avg, avail, 0)
    BY <1>1 DEF w, SetAllotment
  <2>3. coin \in Int /\ avg \in Int /\ avail \in Int /\ 0 \in Nat
    BY <1>3, <1>4
  <2> QED
    BY <2>1, <2>2, <2>3, SetAllotmentType
<1>6. WalletOK(w)
  BY <1>3, <1>5, TokenType DEF WalletOK, Remaining
<1> QED
  BY <1>5, <1>6 DEF w, coin, avg, avail

----------------------------------------------------------------------------
(* The engine *)

EngineOK(e) ==
    /\ e \in Engine /\ WalletOK(e.wallet)
    /\ e.wallet.token.active <=> e.buy # NoOrder
    /\ e.buy = NoOrder \/ e.sell = NoOrder
    /\ \A o \in Orders : InStore(e, o) <=> o \in {e.buy, e.sell}
    /\ \A o \in Orders : e.store[o].status \notin Terminal
    /\ e.buy # NoOrder => e.store[e.buy].side = "BID"
    /\ e.sell # NoOrder => e.store[e.sell].side = "ASK"

----------------------------------------------------------------------------
(* The fields of an engine, and how the methods update them *)

\* The fields of an engine.
LEMMA EngineFields ==
    ASSUME NEW e \in Engine
    PROVE  /\ e.wallet \in Wallet /\ e.buy \in Orders \cup {NoOrder}
           /\ e.sell \in Orders \cup {NoOrder} /\ e.seen \in Seq(Trades)
           /\ e.events \in Seq(Event) /\ e.mark \in Int
           /\ e.store \in [Orders -> StoredOrder]
BY DEF Engine

\* f differs from e in its wallet, its active orders and its store at most.
SameLog(e, f) == f.seen = e.seen /\ f.events = e.events /\ f.mark = e.mark

\* An engine whose wallet changes.
LEMMA SetWallet ==
    ASSUME NEW e \in Engine, NEW w \in Wallet
    PROVE  LET f == [e EXCEPT !.wallet = w]
           IN  /\ f \in Engine /\ f.wallet = w /\ SameLog(e, f)
               /\ f.buy = e.buy /\ f.sell = e.sell /\ f.store = e.store
BY DEF Engine, SameLog

\* OrderStore::upsert changes one order of the store.
LEMMA UpsertFields ==
    ASSUME NEW e \in Engine, NEW o \in Orders, NEW rec \in StoredOrder
    PROVE  LET f == Upsert(e, o, rec)
           IN  /\ f \in Engine /\ f.wallet = e.wallet /\ SameLog(e, f)
               /\ f.buy = e.buy /\ f.sell = e.sell
               /\ f.store = [e.store EXCEPT ![o] = rec]
BY DEF Engine, SameLog, Upsert

\* OrderStore::erase takes one order out of the store.
LEMMA EraseFields ==
    ASSUME NEW e \in Engine, NEW o \in Orders
    PROVE  LET f == Erase(e, o)
           IN  /\ f \in Engine /\ f.wallet = e.wallet /\ SameLog(e, f)
               /\ f.buy = e.buy /\ f.sell = e.sell
               /\ f.store[o] = Absent
               /\ \A p \in Orders : p # o => f.store[p] = e.store[p]
<1>1. Absent \in StoredOrder
  BY DEF Absent, StoredOrder, Sides
<1>2. Erase(e, o) = Upsert(e, o, Absent)
  BY DEF Erase, Upsert
<1> DEFINE f == Erase(e, o)
<1>3. /\ f \in Engine /\ f.wallet = e.wallet /\ SameLog(e, f)
      /\ f.buy = e.buy /\ f.sell = e.sell
      /\ f.store = [e.store EXCEPT ![o] = Absent]
  BY <1>1, <1>2, UpsertFields
<1>4. e.store \in [Orders -> StoredOrder]
  BY EngineFields
<1> HIDE DEF f
<1>5. f.store[o] = Absent /\ \A p \in Orders : p # o => f.store[p] = e.store[p]
  BY <1>3, <1>4
<1> QED
  BY <1>3, <1>5 DEF f

\* A snapshot overwrites the totals of its order and keeps the side.
LEMMA SyncFieldsFields ==
    ASSUME NEW e \in Engine, NEW s \in Snapshot
    PROVE  LET f == SyncFields(e, s)
           IN  /\ f \in Engine /\ f.wallet = e.wallet /\ SameLog(e, f)
               /\ f.buy = e.buy /\ f.sell = e.sell
               /\ f.store[s.order].status = s.status
               /\ f.store[s.order].side = e.store[s.order].side
               /\ f.store[s.order].vol = s.vol /\ f.store[s.order].funds = s.funds
               /\ f.store[s.order].fee = s.fee
               /\ \A p \in Orders : p # s.order => f.store[p] = e.store[p]
<1> DEFINE rec == [e.store[s.order] EXCEPT !.status = s.status, !.vol = s.vol,
                                           !.funds = s.funds, !.fee = s.fee]
<1>1. s.order \in Orders /\ e.store[s.order] \in StoredOrder
  BY EngineFields DEF Snapshot
<1>2. /\ rec \in StoredOrder /\ rec.status = s.status /\ rec.side = e.store[s.order].side
      /\ rec.vol = s.vol /\ rec.funds = s.funds /\ rec.fee = s.fee
  BY <1>1 DEF StoredOrder, Snapshot
<1>3. SyncFields(e, s) = Upsert(e, s.order, rec)
  BY DEF SyncFields, Upsert
<1> HIDE DEF rec
<1> DEFINE f == SyncFields(e, s)
<1>4. /\ f \in Engine /\ f.wallet = e.wallet /\ SameLog(e, f)
      /\ f.buy = e.buy /\ f.sell = e.sell
      /\ f.store = [e.store EXCEPT ![s.order] = rec]
  BY <1>1, <1>2, <1>3, UpsertFields
<1>5. e.store \in [Orders -> StoredOrder]
  BY EngineFields
<1> HIDE DEF f
<1>6. f.store[s.order] = rec /\ \A p \in Orders : p # s.order => f.store[p] = e.store[p]
  BY <1>1, <1>4, <1>5
<1> QED
  BY <1>2, <1>4, <1>6 DEF f

\* An event is appended to those the strategy has not seen.
LEMMA PushEventFields ==
    ASSUME NEW e \in Engine, NEW ev \in Event
    PROVE  LET f == PushEvent(e, ev)
           IN  /\ f \in Engine /\ f.wallet = e.wallet /\ f.seen = e.seen
               /\ f.events = Append(e.events, ev) /\ f.mark = e.mark
               /\ f.buy = e.buy /\ f.sell = e.sell /\ f.store = e.store
<1> DEFINE q == Append(e.events, ev)
<1>1. q \in Seq(Event)
  BY EngineFields
<1> HIDE DEF q
<1>2. LET f == [e EXCEPT !.events = q]
      IN  /\ f \in Engine /\ f.wallet = e.wallet /\ f.seen = e.seen
          /\ f.events = q /\ f.mark = e.mark
          /\ f.buy = e.buy /\ f.sell = e.sell /\ f.store = e.store
  BY <1>1 DEF Engine
<1>3. PushEvent(e, ev) = [e EXCEPT !.events = q]
  BY DEF PushEvent, q
<1> QED
  BY <1>2, <1>3 DEF q

\* A trade is put at the end of the ids seen, and the oldest may go.
LEMMA MarkTradeFields ==
    ASSUME NEW e \in Engine, NEW t \in Trade
    PROVE  LET f == MarkTrade(e, t)
           IN  /\ f \in Engine /\ f.wallet = e.wallet /\ f.events = e.events
               /\ f.mark = e.mark
               /\ f.buy = e.buy /\ f.sell = e.sell /\ f.store = e.store
               /\ f.seen = IF Len(e.seen) + 1 > MaxSeen THEN Tail(Append(e.seen, t.id))
                           ELSE Append(e.seen, t.id)
<1> DEFINE fifo == Append(e.seen, t.id)
           q == IF Len(fifo) > MaxSeen THEN Tail(fifo) ELSE fifo
<1>1. e.seen \in Seq(Trades) /\ t.id \in Trades
  BY EngineFields DEF Trade
<1>2. fifo \in Seq(Trades) /\ Len(fifo) = Len(e.seen) + 1 /\ fifo # <<>>
  BY <1>1
<1>3. q \in Seq(Trades)
  BY <1>2
<1>4. q = IF Len(e.seen) + 1 > MaxSeen THEN Tail(fifo) ELSE fifo
  BY <1>2
<1>5. MarkTrade(e, t) = [e EXCEPT !.seen = q]
  BY DEF MarkTrade
<1> HIDE DEF q
<1>6. LET f == [e EXCEPT !.seen = q]
      IN  /\ f \in Engine /\ f.wallet = e.wallet /\ f.events = e.events
          /\ f.mark = e.mark /\ f.seen = q
          /\ f.buy = e.buy /\ f.sell = e.sell /\ f.store = e.store
  BY <1>3 DEF Engine
<1> QED
  BY <1>4, <1>5, <1>6
----------------------------------------------------------------------------
(* The slot of an engine *)

SlotOf(e) ==
    IF e.buy # NoOrder THEN "buying" ELSE IF e.sell # NoOrder THEN "selling" ELSE "idle"

Free(e) == e.wallet.available

Locked(e) == e.wallet.reserved

\* A fill: a purchase is paid from what is locked, a sale brings KRW in.
FillStep(e, f) ==
    /\ SlotOf(f) = SlotOf(e)
    /\ \/ Free(f) = Free(e) /\ Locked(f) = Locked(e)
       \/ SlotOf(e) = "buying" /\ Free(f) = Free(e) /\ Locked(f) \in 0..Locked(e)
       \/ SlotOf(e) = "selling" /\ Free(f) >= Free(e) /\ Locked(f) = Locked(e)

\* The end of the active order.
EndStep(e, f) ==
    /\ SlotOf(f) = "idle"
    /\ \/ /\ SlotOf(e) = "buying" /\ Locked(f) = 0
          /\ Free(f) - Free(e) \in 0..Locked(e)
       \/ SlotOf(e) = "selling" /\ Free(f) >= Free(e) /\ Locked(f) = Locked(e)

\* A new order.
StartStep(e, f) ==
    /\ SlotOf(e) = "idle"
    /\ \/ /\ SlotOf(f) = "buying" /\ Locked(f) \in 1..Free(e)
          /\ Free(f) = Free(e) - Locked(f)
       \/ SlotOf(f) = "selling" /\ Free(f) = Free(e) /\ Locked(f) = Locked(e)

SlotStep(e, f) == FillStep(e, f) \/ EndStep(e, f) \/ StartStep(e, f)

\* What every engine's KRW is.
LEMMA MoneyTypes ==
    ASSUME NEW e, EngineOK(e)
    PROVE  /\ Free(e) \in Nat /\ Locked(e) \in Nat
           /\ SlotOf(e) \in {"idle", "buying", "selling"}
           /\ SlotOf(e) # "buying" => e.wallet.token = NoToken /\ Locked(e) = 0
<1>1. /\ e.wallet \in Wallet /\ e.wallet.available \in Int /\ e.wallet.reserved \in Nat
      /\ WalletOK(e.wallet)
  BY WalletFields DEF EngineOK, WalletOK
<1>2. e.wallet.available \in Nat
  BY <1>1 DEF WalletOK
<1>3. SlotOf(e) # "buying" => ~e.wallet.token.active
  BY DEF EngineOK, SlotOf
<1>4. SlotOf(e) # "buying" => e.wallet.token = NoToken
  BY <1>1, <1>3 DEF WalletOK
<1>5. SlotOf(e) # "buying" => e.wallet.reserved = 0
  BY <1>1, <1>4, TokenType DEF WalletOK, Remaining
<1> QED
  BY <1>1, <1>2, <1>4, <1>5 DEF Free, Locked, SlotOf

\* A fill and what follows it in the same call are one step.
LEMMA FillThen ==
    ASSUME NEW e, NEW f, NEW g, EngineOK(e), EngineOK(f), EngineOK(g),
           FillStep(e, f), FillStep(f, g) \/ EndStep(f, g)
    PROVE  SlotStep(e, g)
<1>1. /\ Free(e) \in Nat /\ Locked(e) \in Nat /\ Free(f) \in Nat /\ Locked(f) \in Nat
      /\ Free(g) \in Nat /\ Locked(g) \in Nat
  BY MoneyTypes
<1>2. CASE FillStep(f, g)
  <2>1. FillStep(e, g)
    BY <1>1, <1>2 DEF FillStep
  <2> QED
    BY <2>1 DEF SlotStep
<1>3. CASE EndStep(f, g)
  <2>1. EndStep(e, g)
    BY <1>1, <1>3 DEF FillStep, EndStep
  <2> QED
    BY <2>1 DEF SlotStep
<1> QED
  BY <1>2, <1>3

\* A change of the wallet that leaves token and orders where they are.
LEMMA EngineKept ==
    ASSUME NEW e, EngineOK(e), NEW f \in Engine, WalletOK(f.wallet),
           f.wallet.token.active = e.wallet.token.active,
           f.buy = e.buy, f.sell = e.sell, f.store = e.store
    PROVE  EngineOK(f)
BY DEF EngineOK, InStore

----------------------------------------------------------------------------
(* Fills *)

\* A fill of an order in the store.
LEMMA SettleFillOK ==
    ASSUME NEW e, EngineOK(e), NEW o \in Orders, InStore(e, o),
           NEW vol \in Int, NEW price \in Int, NEW funds \in Int, NEW fee \in Int
    PROVE  LET f == [e EXCEPT !.wallet = SettleFill(e, o, vol, price, funds, fee)]
           IN  /\ WalletOK(SettleFill(e, o, vol, price, funds, fee))
               /\ EngineOK(f) /\ FillStep(e, f) /\ SameLog(e, f)
               /\ f.buy = e.buy /\ f.sell = e.sell /\ f.store = e.store
<1> DEFINE w == SettleFill(e, o, vol, price, funds, fee)
           f == [e EXCEPT !.wallet = w]
<1>1. /\ e \in Engine /\ WalletOK(e.wallet) /\ e.wallet \in Wallet
      /\ funds + fee \in Int /\ Proceeds(funds, fee) \in Int /\ Proceeds(funds, fee) >= 0
  BY EngineFields DEF EngineOK, Proceeds
<1>2. /\ e.wallet.available \in Int /\ e.wallet.reserved \in Nat
  BY <1>1, WalletFields
<1>3. CASE e.store[o].side = "BID"
  <2>1. o = e.buy /\ e.wallet.token.active /\ SlotOf(e) = "buying"
    BY <1>3, EngineAssumption DEF EngineOK, SlotOf
  <2>2. w = FinalizeFillBuy(e.wallet, funds + fee, vol, price)
    BY <1>3, <2>1 DEF SettleFill
  <2> HIDE DEF w
  <2>3. /\ WalletOK(w) /\ w.token.active = e.wallet.token.active
        /\ w.available = e.wallet.available /\ w.reserved <= e.wallet.reserved
    BY <1>1, <2>2, FillBuySound
  <2>4. w \in Wallet /\ w.reserved \in Nat
    BY <2>3, WalletFields DEF WalletOK
  <2>5. /\ f \in Engine /\ f.wallet = w /\ SameLog(e, f)
        /\ f.buy = e.buy /\ f.sell = e.sell /\ f.store = e.store
    BY <1>1, <2>4, SetWallet
  <2> HIDE DEF f
  <2>6. EngineOK(f)
    BY <2>3, <2>5, EngineKept
  <2>7. FillStep(e, f)
    BY <1>2, <2>1, <2>3, <2>4, <2>5 DEF FillStep, SlotOf, Free, Locked
  <2> QED
    BY <2>3, <2>5, <2>6, <2>7 DEF f, w
<1>4. CASE e.store[o].side # "BID"
  <2>1. o = e.sell /\ SlotOf(e) = "selling"
    BY <1>4, EngineAssumption DEF EngineOK, SlotOf
  <2>2. w = FinalizeFillSell(e.wallet, vol, Proceeds(funds, fee))
    BY <1>4 DEF SettleFill
  <2> HIDE DEF w
  <2>3. /\ WalletOK(w) /\ w.token = e.wallet.token /\ w.reserved = e.wallet.reserved
        /\ w.available = IF vol > 0 /\ Proceeds(funds, fee) >= 0
                         THEN e.wallet.available + Proceeds(funds, fee)
                         ELSE e.wallet.available
    BY <1>1, <2>2, FillSellSound
  <2>4. w \in Wallet /\ w.available >= e.wallet.available
    BY <1>1, <1>2, <2>3 DEF WalletOK
  <2>5. /\ f \in Engine /\ f.wallet = w /\ SameLog(e, f)
        /\ f.buy = e.buy /\ f.sell = e.sell /\ f.store = e.store
    BY <1>1, <2>4, SetWallet
  <2> HIDE DEF f
  <2>6. EngineOK(f)
    BY <2>3, <2>5, EngineKept
  <2>7. FillStep(e, f)
    BY <1>2, <2>1, <2>3, <2>4, <2>5 DEF FillStep, SlotOf, Free, Locked
  <2> QED
    BY <2>3, <2>5, <2>6, <2>7 DEF f, w
<1> QED
  BY <1>3, <1>4

----------------------------------------------------------------------------
(* What a method may do *)

\* The last of f's events, new since e, is the end of order o.
Tells(e, f, o) ==
    /\ Len(f.events) = Len(e.events) + 1
    /\ f.events[Len(f.events)].kind = "status"
    /\ f.events[Len(f.events)].order = o

\* An order leaves the store exactly when its end is announced.
Announces(e, f) ==
    \A o \in Orders : InStore(e, o) /\ ~InStore(f, o) <=> Tells(e, f, o)

\* No order enters the store.
Shrinks(e, f) == \A o \in Orders : InStore(f, o) => InStore(e, o)

\* The active orders and the store's orders stay; at most a fill is announced.
Quiet(e, f) ==
    /\ f.buy = e.buy /\ f.sell = e.sell
    /\ \A o \in Orders : InStore(f, o) <=> InStore(e, o)
    /\ \/ f.events = e.events
       \/ \E ev \in Event : ev.kind = "fill" /\ f.events = Append(e.events, ev)

\* The active order o ends, which is announced.
Ends(e, f, o) ==
    /\ o \in {e.buy, e.sell}
    /\ f.buy = NoOrder /\ f.sell = NoOrder
    /\ \A q \in Orders : ~InStore(f, q) /\ (InStore(e, q) => q = o)
    /\ \E ev \in Event : /\ ev.kind = "status" /\ ev.order = o /\ ev.status \in Terminal
                         /\ f.events = Append(e.events, ev)

\* A method that does not append a status event.
LEMMA NotAnnounced ==
    ASSUME NEW e \in Engine, NEW f \in Engine,
           \/ f.events = e.events
           \/ f.events = <<>>
           \/ \E ev \in Event : ev.kind = "fill" /\ f.events = Append(e.events, ev),
           \A o \in Orders : InStore(e, o) => InStore(f, o)
    PROVE  Announces(e, f)
<1>1. e.events \in Seq(Event) /\ f.events \in Seq(Event)
  BY EngineFields
<1>2. Len(e.events) \in Nat /\ Len(f.events) \in Nat
  BY <1>1
<1> SUFFICES ASSUME NEW o \in Orders PROVE ~Tells(e, f, o)
  BY DEF Announces
<1>3. CASE f.events = e.events \/ f.events = <<>>
  BY <1>2, <1>3 DEF Tells
<1>4. CASE \E ev \in Event : ev.kind = "fill" /\ f.events = Append(e.events, ev)
  <2>1. PICK ev \in Event : ev.kind = "fill" /\ f.events = Append(e.events, ev)
    BY <1>4
  <2>2. f.events[Len(f.events)] = ev
    BY <1>1, <2>1
  <2> QED
    BY <2>1, <2>2 DEF Tells
<1> QED
  BY <1>3, <1>4

\* A method that leaves wallet, orders and store alone.
LEMMA Untouched ==
    ASSUME NEW e, EngineOK(e), NEW f \in Engine,
           f.wallet = e.wallet, f.buy = e.buy, f.sell = e.sell, f.store = e.store
    PROVE  /\ EngineOK(f) /\ SlotStep(e, f) /\ Shrinks(e, f)
           /\ \A o \in Orders : InStore(e, o) => InStore(f, o)
<1>1. EngineOK(f)
  BY EngineKept DEF EngineOK
<1>2. FillStep(e, f)
  BY DEF FillStep, SlotOf, Free, Locked
<1> QED
  BY <1>1, <1>2 DEF SlotStep, Shrinks, InStore

----------------------------------------------------------------------------
(* submit *)

\* The amount to reserve is a number.
LEMMA ReserveAmountType ==
    ASSUME NEW r \in Request PROVE ComputeReserveAmount(r) \in Int
<1> DEFINE a == IF r.sized = "amount" THEN r.size ELSE r.price * r.size
<1>1. r.size \in Int /\ r.price \in Int
  BY DEF Request
<1>2. r.price * r.size \in Int
  BY <1>1
<1>3. a \in Int
  BY <1>1, <1>2
<1>4. MarginNum \in Int /\ MarginDen \in Int /\ MarginDen > 0
  BY EngineAssumption
<1> HIDE DEF a
<1>5. a * MarginNum \in Int
  BY <1>3, <1>4
<1>6. (a * MarginNum) \div MarginDen \in Int
  BY <1>4, <1>5, QuotientType
<1> QED
  BY <1>6 DEF ComputeReserveAmount, a

\* An engine that may submit has no order.
LEMMA CanSubmitIdle ==
    ASSUME NEW e, EngineOK(e), NEW r, CanSubmit(e, r)
    PROVE  /\ e.buy = NoOrder /\ e.sell = NoOrder /\ ~e.wallet.token.active
           /\ SlotOf(e) = "idle" /\ Locked(e) = 0 /\ e.wallet.token = NoToken
           /\ \A o \in Orders : ~InStore(e, o)
<1>1. e.buy = NoOrder /\ e.sell = NoOrder /\ ~e.wallet.token.active
  BY DEF EngineOK, CanSubmit
<1>2. SlotOf(e) = "idle"
  BY <1>1 DEF SlotOf
<1>3. \A o \in Orders : ~InStore(e, o)
  BY <1>1, EngineAssumption DEF EngineOK
<1> QED
  BY <1>1, <1>2, <1>3, MoneyTypes

\* An order that the exchange took: it is the only one of the market.
LEMMA SubmitAcceptedOK ==
    ASSUME NEW e, EngineOK(e), NEW r \in Request, CanSubmit(e, r), NEW o \in Orders
    PROVE  LET f == SubmitAccepted(e, r, o)
           IN  /\ EngineOK(f) /\ SlotStep(e, f) /\ Announces(e, f)
               /\ f.buy = (IF r.side = "BID" THEN o ELSE NoOrder)
               /\ f.sell = (IF r.side = "BID" THEN NoOrder ELSE o)
               /\ f.events = e.events
               /\ \A p \in Orders : InStore(f, p) <=> p = o
<1> DEFINE pending == [Absent EXCEPT !.status = "Pending", !.side = r.side]
           f == SubmitAccepted(e, r, o)
           krw == ComputeReserveAmount(r)
           w == IF r.side = "BID" THEN Reserve(e.wallet, krw) ELSE e.wallet
           g == IF r.side = "BID" THEN [e EXCEPT !.wallet = w, !.buy = o]
                ELSE [e EXCEPT !.sell = o]
<1>1. /\ e \in Engine /\ e.wallet \in Wallet /\ WalletOK(e.wallet) /\ r.side \in Sides
      /\ krw \in Int
  BY EngineFields, ReserveAmountType DEF EngineOK, Request
<1>2. /\ e.buy = NoOrder /\ e.sell = NoOrder /\ ~e.wallet.token.active
      /\ SlotOf(e) = "idle" /\ Locked(e) = 0 /\ e.wallet.token = NoToken
      /\ \A p \in Orders : ~InStore(e, p)
  BY CanSubmitIdle
<1>3. /\ pending \in StoredOrder /\ pending.status = "Pending" /\ pending.side = r.side
  <2>1. Absent \in StoredOrder
    BY DEF Absent, StoredOrder, Sides
  <2> QED
    BY <1>1, <2>1 DEF StoredOrder, Statuses
<1>4. f = Upsert(g, o, pending)
  BY DEF SubmitAccepted
<1> HIDE DEF f, pending, krw
<1>5. /\ WalletOK(w) /\ w \in Wallet
      /\ r.side = "BID" => /\ w.token.active /\ w.available = Free(e) - krw
                           /\ w.reserved = krw /\ krw > 0 /\ Free(e) >= krw
      /\ r.side # "BID" => w = e.wallet
  <2>1. CASE r.side = "BID"
    <3>1. CanReserve(e.wallet, krw)
      BY <2>1 DEF CanSubmit, krw
    <3> QED
      BY <1>1, <1>2, <2>1, <3>1, ReserveSound DEF CanReserve, Free, WalletOK
  <2>2. CASE r.side # "BID"
    BY <1>1, <2>2
  <2> QED
    BY <2>1, <2>2
<1>6. /\ g \in Engine /\ g.wallet = w /\ SameLog(e, g) /\ g.store = e.store
      /\ g.buy = (IF r.side = "BID" THEN o ELSE NoOrder)
      /\ g.sell = (IF r.side = "BID" THEN NoOrder ELSE o)
  <2>1. CASE r.side = "BID"
    <3>1. g = [e EXCEPT !.wallet = w, !.buy = o] /\ o \in Orders \cup {NoOrder}
      BY <2>1
    <3> HIDE DEF g, w
    <3> QED
      BY <1>1, <1>2, <1>5, <2>1, <3>1 DEF Engine, SameLog
  <2>2. CASE r.side # "BID"
    <3>1. g = [e EXCEPT !.sell = o] /\ w = e.wallet
      BY <2>2
    <3> HIDE DEF g, w
    <3> QED
      BY <1>1, <1>2, <2>2, <3>1 DEF Engine, SameLog
  <2> QED
    BY <2>1, <2>2
<1> HIDE DEF g, w
<1>7. /\ f \in Engine /\ f.wallet = w /\ SameLog(g, f) /\ f.buy = g.buy /\ f.sell = g.sell
      /\ f.store = [g.store EXCEPT ![o] = pending]
  BY <1>3, <1>4, <1>6, UpsertFields
<1>8. /\ f.store[o] = pending /\ \A p \in Orders : p # o => f.store[p] = e.store[p]
  BY <1>1, <1>6, <1>7, EngineFields
<1>9. \A p \in Orders : InStore(f, p) <=> p = o
  BY <1>2, <1>3, <1>8 DEF InStore
<1>10. \A p \in Orders : f.store[p].status \notin Terminal
  BY <1>3, <1>8 DEF EngineOK, Terminal
<1>11. o # NoOrder
  BY EngineAssumption
<1>12. EngineOK(f)
  BY <1>1, <1>2, <1>3, <1>5, <1>6, <1>7, <1>8, <1>9, <1>10, <1>11 DEF EngineOK, Sides
<1>13. StartStep(e, f)
  <2>1. CASE r.side = "BID"
    <3>1. SlotOf(f) = "buying"
      BY <1>6, <1>7, <1>11, <2>1 DEF SlotOf
    <3>2. Free(e) \in Nat
      BY MoneyTypes
    <3> QED
      BY <1>1, <1>2, <1>5, <1>7, <2>1, <3>1, <3>2 DEF StartStep, Free, Locked
  <2>2. CASE r.side # "BID"
    <3>1. SlotOf(f) = "selling"
      BY <1>6, <1>7, <1>11, <2>2 DEF SlotOf
    <3> QED
      BY <1>2, <1>5, <1>7, <2>2, <3>1 DEF StartStep, Free, Locked
  <2> QED
    BY <2>1, <2>2
<1>14. Announces(e, f)
  BY <1>1, <1>2, <1>6, <1>7, NotAnnounced DEF SameLog
<1>15. /\ f.buy = (IF r.side = "BID" THEN o ELSE NoOrder)
       /\ f.sell = (IF r.side = "BID" THEN NoOrder ELSE o)
       /\ f.events = e.events
  BY <1>6, <1>7 DEF SameLog
<1> QED
  BY <1>9, <1>12, <1>13, <1>14, <1>15 DEF SlotStep, f

\* The reservation of a failed buy is given back to the last won.
LEMMA SubmitFailedOK ==
    ASSUME NEW e, EngineOK(e), NEW r \in Request, CanSubmit(e, r)
    PROVE  LET f == SubmitFailed(e, r)
           IN  /\ EngineOK(f) /\ SlotStep(e, f) /\ Announces(e, f) /\ Shrinks(e, f)
               /\ Quiet(e, f)
<1> DEFINE f == SubmitFailed(e, r)
           krw == ComputeReserveAmount(r)
           v == Reserve(e.wallet, krw)
           w == Release(v)
<1>1. /\ e \in Engine /\ e.wallet \in Wallet /\ WalletOK(e.wallet) /\ krw \in Int
      /\ e.wallet.available \in Int
  BY EngineFields, WalletFields, ReserveAmountType DEF EngineOK
<1>2. /\ e.buy = NoOrder /\ e.sell = NoOrder /\ ~e.wallet.token.active
      /\ SlotOf(e) = "idle" /\ Locked(e) = 0 /\ e.wallet.token = NoToken
      /\ \A p \in Orders : ~InStore(e, p)
  BY CanSubmitIdle
<1>3. CASE r.side = "BID"
  <2>1. f = [e EXCEPT !.wallet = w, !.buy = NoOrder]
    BY <1>3 DEF SubmitFailed
  <2>2. CanReserve(e.wallet, krw)
    BY <1>3 DEF CanSubmit
  <2> HIDE DEF krw, v, w, f
  <2>3. /\ WalletOK(v) /\ v.token.active /\ v.reserved = krw
        /\ v.available = e.wallet.available - krw
    BY <1>1, <1>2, <2>2, ReserveSound DEF v
  <2>4. /\ WalletOK(w) /\ w.token = NoToken /\ w.reserved = 0
        /\ w.available = v.available + v.reserved
    BY <2>3, ReleaseSound DEF w
  <2>5. w \in Wallet /\ w.available = e.wallet.available
    BY <1>1, <2>3, <2>4 DEF WalletOK
  <2>6. /\ f \in Engine /\ f.wallet = w /\ SameLog(e, f)
        /\ f.buy = NoOrder /\ f.sell = e.sell /\ f.store = e.store
    BY <1>1, <2>1, <2>5 DEF Engine, SameLog
  <2>7. f.wallet.token.active = e.wallet.token.active
    BY <1>2, <2>4, <2>6
  <2>8. EngineOK(f)
    BY <1>2, <2>4, <2>6, <2>7, EngineKept
  <2>9. FillStep(e, f)
    BY <1>2, <2>4, <2>5, <2>6 DEF FillStep, SlotOf, Free, Locked
  <2>10. Announces(e, f) /\ Shrinks(e, f)
    BY <1>1, <2>6, NotAnnounced DEF SameLog, Shrinks, InStore
  <2>11. Quiet(e, f)
    BY <1>2, <2>6 DEF Quiet, SameLog, InStore
  <2> QED
    BY <2>8, <2>9, <2>10, <2>11 DEF SlotStep, f
<1>4. CASE r.side # "BID"
  <2>1. f = e
    BY <1>4 DEF SubmitFailed
  <2> QED
    BY <1>1, <2>1, Untouched, NotAnnounced DEF Quiet
<1> QED
  BY <1>3, <1>4

----------------------------------------------------------------------------
(* onMyTrade *)

\* onMyTrade, whether the trade is new, seen or of no order.
LEMMA OnMyTradeOK ==
    ASSUME NEW e, EngineOK(e), NEW t \in Trade
    PROVE  LET f == OnMyTrade(e, t)
           IN  /\ EngineOK(f) /\ SlotStep(e, f) /\ Announces(e, f) /\ Shrinks(e, f)
               /\ Quiet(e, f)
<1> DEFINE f == OnMyTrade(e, t)
           g == MarkTrade(e, t)
           ev == FillEvent(e, t)
           h == PushEvent(g, ev)
           w == SettleFill(e, t.order, t.vol, t.price, t.funds, t.fee)
<1>1. /\ e \in Engine /\ t.order \in Orders /\ t.vol \in Int /\ t.price \in Int
      /\ t.funds \in Int /\ t.fee \in Int
  BY DEF EngineOK, Trade
<1>2. /\ g \in Engine /\ g.wallet = e.wallet /\ g.events = e.events
      /\ g.buy = e.buy /\ g.sell = e.sell /\ g.store = e.store
  BY <1>1, MarkTradeFields
<1>3. CASE Seen(e, t)
  <2>1. f = e
    BY <1>3 DEF OnMyTrade
  <2> QED
    BY <1>1, <2>1, Untouched, NotAnnounced DEF Quiet
<1>4. CASE ~Seen(e, t) /\ ~InStore(e, t.order)
  <2>1. f = g
    BY <1>4 DEF OnMyTrade
  <2> HIDE DEF f, g
  <2> QED
    BY <1>1, <1>2, <2>1, Untouched, NotAnnounced DEF f, Quiet, InStore
<1>5. CASE ~Seen(e, t) /\ InStore(e, t.order)
  <2>1. f = [h EXCEPT !.wallet = w]
    BY <1>5 DEF OnMyTrade
  <2>2. ev \in Event /\ ev.kind = "fill"
    <3>1. e.store[t.order].side \in Sides
      BY <1>1, EngineFields DEF StoredOrder
    <3> QED
      BY <1>1, <3>1 DEF FillEvent, Event, Statuses, Effects
  <2> DEFINE d == [e EXCEPT !.wallet = w]
  <2>3. /\ WalletOK(w) /\ EngineOK(d) /\ FillStep(e, d)
        /\ d.buy = e.buy /\ d.sell = e.sell /\ d.store = e.store
    BY <1>1, <1>5, SettleFillOK
  <2>4. w \in Wallet
    BY <2>3 DEF WalletOK
  <2>5. d.wallet = w
    BY <1>1, <2>4, SetWallet
  <2> HIDE DEF f, g, ev, w, d
  <2>6. /\ h \in Engine /\ h.events = Append(e.events, ev)
        /\ h.buy = e.buy /\ h.sell = e.sell /\ h.store = e.store
    BY <1>2, <2>2, PushEventFields
  <2> HIDE DEF h
  <2>7. /\ f \in Engine /\ f.wallet = w /\ f.events = h.events
        /\ f.buy = e.buy /\ f.sell = e.sell /\ f.store = e.store
    BY <2>1, <2>4, <2>6, SetWallet DEF SameLog
  <2>8. EngineOK(f) /\ FillStep(e, f)
    BY <2>3, <2>5, <2>7, EngineKept DEF FillStep, SlotOf, Free, Locked
  <2>9. Announces(e, f) /\ Shrinks(e, f)
    BY <1>1, <2>2, <2>6, <2>7, NotAnnounced DEF Shrinks, InStore
  <2>10. Quiet(e, f)
    BY <2>2, <2>6, <2>7 DEF Quiet, InStore
  <2> QED
    BY <2>8, <2>9, <2>10 DEF SlotStep, f
<1> QED
  BY <1>3, <1>4, <1>5

----------------------------------------------------------------------------
(* onOrderSnapshot, reconcileFromSnapshot *)

\* The end of the active order: its token or its sell is closed, its KRW freed.
LEMMA CloseActiveOK ==
    ASSUME NEW e \in Engine, WalletOK(e.wallet), e.wallet.token.active <=> e.buy # NoOrder,
           NEW o \in Orders, o = e.buy \/ o = e.sell, e.buy = NoOrder \/ e.sell = NoOrder,
           o = e.buy => e.store[o].side = "BID", o = e.sell => e.store[o].side = "ASK"
    PROVE  LET f == CloseActive(e, o)
           IN  /\ f \in Engine /\ WalletOK(f.wallet) /\ f.wallet.token = NoToken
               /\ f.buy = NoOrder /\ f.sell = NoOrder /\ f.store = e.store /\ SameLog(e, f)
               /\ EndStep(e, f)
<1> DEFINE f == CloseActive(e, o)
<1>1. /\ o # NoOrder /\ e.wallet \in Wallet /\ e.wallet.available \in Int
      /\ e.wallet.reserved \in Nat /\ e.mark \in Int
  BY EngineAssumption, EngineFields, WalletFields
<1>2. CASE o = e.buy
  <2> DEFINE w == FinalizeOrder(e.wallet)
  <2>1. e.wallet.token.active /\ e.sell = NoOrder /\ SlotOf(e) = "buying"
    BY <1>1, <1>2 DEF SlotOf
  <2>2. f = [e EXCEPT !.wallet = w, !.buy = NoOrder]
    BY <1>2, <2>1 DEF CloseActive, FinalizeBuyToken
  <2> HIDE DEF w
  <2>3. /\ WalletOK(w) /\ w.token = NoToken /\ w.reserved = 0
        /\ w.available = e.wallet.available + e.wallet.reserved
    BY <2>1, OrderSound DEF w
  <2>4. w \in Wallet
    BY <2>3 DEF WalletOK
  <2> HIDE DEF f
  <2>5. /\ f \in Engine /\ f.wallet = w /\ SameLog(e, f)
        /\ f.buy = NoOrder /\ f.sell = NoOrder /\ f.store = e.store
    BY <2>1, <2>2, <2>4 DEF Engine, SameLog
  <2>6. SlotOf(f) = "idle"
    BY <2>5 DEF SlotOf
  <2>7. EndStep(e, f)
    BY <1>1, <2>1, <2>3, <2>5, <2>6 DEF EndStep, Free, Locked
  <2> QED
    BY <2>3, <2>5, <2>7 DEF f
<1>3. CASE o = e.sell
  <2> DEFINE w == FinalizeSellOrder(e.wallet, e.mark)
  <2>1. e.buy = NoOrder /\ SlotOf(e) = "selling" /\ e.wallet.token = NoToken
    BY <1>1, <1>3 DEF SlotOf, WalletOK
  <2>2. f = [e EXCEPT !.wallet = w, !.sell = NoOrder]
    BY <1>1, <1>3, <2>1 DEF CloseActive
  <2> HIDE DEF w
  <2>3. /\ WalletOK(w) /\ w.token = NoToken /\ w.reserved = e.wallet.reserved
        /\ w.available = e.wallet.available
    BY <1>1, <2>1, SellOrderSound DEF w
  <2>4. w \in Wallet
    BY <2>3 DEF WalletOK
  <2> HIDE DEF f
  <2>5. /\ f \in Engine /\ f.wallet = w /\ SameLog(e, f)
        /\ f.buy = NoOrder /\ f.sell = NoOrder /\ f.store = e.store
    BY <2>1, <2>2, <2>4 DEF Engine, SameLog
  <2>6. SlotOf(f) = "idle"
    BY <2>5 DEF SlotOf
  <2>7. EndStep(e, f)
    BY <1>1, <2>1, <2>3, <2>5, <2>6 DEF EndStep, Free, Locked
  <2> QED
    BY <2>3, <2>5, <2>7 DEF f
<1> QED
  BY <1>2, <1>3

\* onOrderSnapshot: fills that no trade announced, and the end of the order.
LEMMA OnOrderSnapshotOK ==
    ASSUME NEW e, EngineOK(e), NEW s \in Snapshot
    PROVE  LET f == OnOrderSnapshot(e, s)
           IN  /\ EngineOK(f)
               /\ FillStep(e, f) \/ EndStep(e, f)
               /\ Announces(e, f) /\ Shrinks(e, f)
               /\ s.status \in Terminal => ~InStore(f, s.order)
               /\ InStore(e, s.order) /\ s.status \in Terminal => Ends(e, f, s.order)
               /\ ~InStore(e, s.order) \/ s.status \notin Terminal => Quiet(e, f)
<1> DEFINE f == OnOrderSnapshot(e, s)
           o == s.order
           y == SyncFields(e, s)
           c == CloseActive(y, o)
           ev == StatusEvent(c, o)
           p == PushEvent(c, ev)
<1>1. e \in Engine /\ o \in Orders /\ s.status \in Statuses /\ o # NoOrder
  BY EngineAssumption DEF EngineOK, Snapshot
<1>2. /\ y \in Engine /\ y.wallet = e.wallet /\ SameLog(e, y)
      /\ y.buy = e.buy /\ y.sell = e.sell
      /\ y.store[o].status = s.status /\ y.store[o].side = e.store[o].side
      /\ \A q \in Orders : q # o => y.store[q] = e.store[q]
  BY <1>1, SyncFieldsFields
<1>3. CASE ~InStore(e, o)
  <2>1. f = e
    BY <1>3 DEF OnOrderSnapshot
  <2>2. FillStep(e, e)
    BY DEF FillStep
  <2> QED
    BY <1>1, <1>3, <2>1, <2>2, NotAnnounced DEF Shrinks, Quiet
<1>4. CASE InStore(e, o) /\ s.status \notin Terminal
  <2>1. f = y
    BY <1>4 DEF OnOrderSnapshot
  <2> HIDE DEF f, y
  <2>2. \A q \in Orders : InStore(f, q) <=> InStore(e, q)
    BY <1>1, <1>2, <1>4, <2>1 DEF InStore, Statuses
  <2>3. \A q \in Orders : f.store[q].status \notin Terminal
    BY <1>2, <1>4, <2>1 DEF EngineOK
  <2>4. EngineOK(f)
    <3>1. \A q \in Orders : f.store[q].side = e.store[q].side
      BY <1>2, <2>1
    <3>2. /\ f.buy # NoOrder => f.store[f.buy].side = "BID"
          /\ f.sell # NoOrder => f.store[f.sell].side = "ASK"
      BY <1>1, <1>2, <2>1, <3>1, EngineFields DEF EngineOK
    <3>3. \A q \in Orders : InStore(f, q) <=> q \in {f.buy, f.sell}
      BY <1>2, <2>1, <2>2 DEF EngineOK
    <3> QED
      BY <1>2, <2>1, <2>3, <3>2, <3>3 DEF EngineOK
  <2>5. FillStep(e, f)
    BY <1>2, <2>1 DEF FillStep, SlotOf, Free, Locked
  <2>6. Announces(e, f) /\ Shrinks(e, f)
    BY <1>1, <1>2, <2>1, <2>2, NotAnnounced DEF SameLog, Shrinks
  <2>7. Quiet(e, f)
    BY <1>2, <2>1, <2>2 DEF Quiet, SameLog
  <2> QED
    BY <1>4, <2>4, <2>5, <2>6, <2>7 DEF f
<1>5. CASE InStore(e, o) /\ s.status \in Terminal
  <2>1. s.status # e.store[o].status /\ o \in {e.buy, e.sell}
    BY <1>1, <1>5 DEF EngineOK
  <2>2. f = Erase(p, o)
    BY <1>5, <2>1 DEF OnOrderSnapshot
  <2>3. /\ WalletOK(y.wallet)
        /\ y.wallet.token.active <=> y.buy # NoOrder
        /\ o = y.buy \/ o = y.sell
        /\ y.buy = NoOrder \/ y.sell = NoOrder
        /\ o = y.buy => y.store[o].side = "BID"
        /\ o = y.sell => y.store[o].side = "ASK"
    BY <1>1, <1>2, <2>1 DEF EngineOK
  <2> HIDE DEF f, y
  <2>4. /\ c \in Engine /\ WalletOK(c.wallet) /\ c.wallet.token = NoToken
        /\ c.buy = NoOrder /\ c.sell = NoOrder /\ c.store = y.store /\ SameLog(y, c)
        /\ EndStep(y, c)
    BY <1>1, <1>2, <2>3, CloseActiveOK
  <2> HIDE DEF c
  <2>5. ev \in Event /\ ev.kind = "status" /\ ev.order = o /\ ev.status \in Terminal
    <3>1. c.store[o] \in StoredOrder /\ c.store[o].status \in Statuses
      BY <1>1, <1>2, <2>4, EngineFields
    <3>2. ResolvePositionEffect(c, o) \in Effects
      BY DEF ResolvePositionEffect, Effects
    <3>3. c.store[o].status \in Terminal
      BY <1>2, <1>5, <2>4
    <3> QED
      BY <1>1, <3>1, <3>2, <3>3 DEF StatusEvent, Event, StoredOrder
  <2> HIDE DEF ev
  <2>6. /\ p \in Engine /\ p.wallet = c.wallet /\ p.events = Append(c.events, ev)
        /\ p.buy = c.buy /\ p.sell = c.sell /\ p.store = c.store
    BY <2>4, <2>5, PushEventFields
  <2> HIDE DEF p
  <2>7. /\ f \in Engine /\ f.wallet = p.wallet /\ f.events = p.events
        /\ f.buy = p.buy /\ f.sell = p.sell /\ f.store[o] = Absent
        /\ \A q \in Orders : q # o => f.store[q] = p.store[q]
    BY <1>1, <2>2, <2>6, EraseFields DEF SameLog
  <2>8. \A q \in Orders : ~InStore(e, q) \/ q = o
    BY <1>1, <2>1, EngineAssumption DEF EngineOK
  <2>9. \A q \in Orders : f.store[q].status = "Absent"
    BY <1>2, <2>4, <2>6, <2>7, <2>8 DEF InStore, Absent
  <2>10. EngineOK(f)
    BY <2>4, <2>6, <2>7, <2>9, TokenType, EngineAssumption DEF EngineOK, InStore, Terminal
  <2>11. EndStep(e, f)
    BY <1>2, <2>4, <2>6, <2>7 DEF EndStep, SlotOf, Free, Locked
  <2>12. Announces(e, f)
    <3>1. f.events = Append(e.events, ev) /\ e.events \in Seq(Event)
      BY <1>1, <1>2, <2>4, <2>6, <2>7, EngineFields DEF SameLog
    <3>2. Len(f.events) = Len(e.events) + 1 /\ f.events[Len(f.events)] = ev
      BY <2>5, <3>1
    <3>3. \A q \in Orders : Tells(e, f, q) <=> q = o
      BY <2>5, <3>2 DEF Tells
    <3> QED
      BY <1>5, <2>8, <2>9, <3>3 DEF Announces, InStore
  <2>13. Shrinks(e, f)
    BY <2>9 DEF Shrinks, InStore
  <2>14. ~InStore(f, o)
    BY <1>1, <2>9 DEF InStore
  <2>15. Ends(e, f, o)
    <3>1. f.events = Append(e.events, ev)
      BY <1>2, <2>4, <2>6, <2>7 DEF SameLog
    <3> QED
      BY <2>1, <2>4, <2>5, <2>6, <2>7, <2>8, <2>9, <3>1 DEF Ends, InStore
  <2> QED
    BY <1>5, <2>10, <2>11, <2>12, <2>13, <2>14, <2>15 DEF f
<1> QED
  BY <1>3, <1>4, <1>5

\* The engine after the difference to the store's values has been settled.
ReconcileSettled(e, s) ==
    IF DeltaVol(e, s) > 0
    THEN [e EXCEPT !.wallet = SettleFill(e, s.order, DeltaVol(e, s),
                                         DeltaFunds(e, s) \div DeltaVol(e, s),
                                         DeltaFunds(e, s), DeltaFee(e, s))]
    ELSE e

\* Settling the difference is a fill.
LEMMA SettledOK ==
    ASSUME NEW e, EngineOK(e), NEW s \in Snapshot, InStore(e, s.order)
    PROVE  LET d == ReconcileSettled(e, s)
           IN  /\ EngineOK(d) /\ FillStep(e, d) /\ SameLog(e, d) /\ d.store = e.store
               /\ d.buy = e.buy /\ d.sell = e.sell
<1> DEFINE dv == DeltaVol(e, s)
           df == DeltaFunds(e, s)
           fee == DeltaFee(e, s)
           d == ReconcileSettled(e, s)
           g == [e EXCEPT !.wallet = SettleFill(e, s.order, dv, df \div dv, df, fee)]
<1>1. /\ e \in Engine /\ s.order \in Orders
      /\ s.vol \in Int /\ s.funds \in Int /\ s.fee \in Int
  BY DEF EngineOK, Snapshot
<1>2. e.store[s.order] \in StoredOrder
  BY <1>1, EngineFields
<1>3. dv \in Int /\ df \in Int /\ fee \in Int
  BY <1>1, <1>2 DEF DeltaVol, DeltaFunds, DeltaFee, Positive, StoredOrder
<1>4. CASE dv > 0
  <2>1. d = g
    BY <1>4 DEF ReconcileSettled
  <2> HIDE DEF dv, df, fee
  <2>2. df \div dv \in Int
    BY <1>3, <1>4, QuotientType
  <2>3. /\ EngineOK(g) /\ FillStep(e, g) /\ SameLog(e, g) /\ g.store = e.store
        /\ g.buy = e.buy /\ g.sell = e.sell
    BY <1>1, <1>3, <2>2, SettleFillOK
  <2> HIDE DEF d, g
  <2> QED
    BY <2>1, <2>3 DEF d
<1>5. CASE ~(dv > 0)
  <2>1. d = e
    BY <1>5 DEF ReconcileSettled
  <2> QED
    BY <2>1 DEF FillStep, SameLog
<1> QED
  BY <1>4, <1>5

\* The difference is settled, then the report applied, in one step of the slot.
LEMMA ReconcileOK ==
    ASSUME NEW e, EngineOK(e), NEW s \in Snapshot
    PROVE  LET f == ReconcileFromSnapshot(e, s)
           IN  /\ EngineOK(f) /\ SlotStep(e, f) /\ Announces(e, f) /\ Shrinks(e, f)
               /\ CanReconcile(e, s) /\ s.status \in Terminal => Ends(e, f, s.order)
               /\ ~CanReconcile(e, s) \/ s.status \notin Terminal => Quiet(e, f)
<1> DEFINE f == ReconcileFromSnapshot(e, s)
           d == ReconcileSettled(e, s)
<1>1. e \in Engine
  BY DEF EngineOK
<1>2. CASE CanReconcile(e, s)
  <2>1. f = OnOrderSnapshot(d, s)
    BY <1>2 DEF ReconcileFromSnapshot, ReconcileSettled
  <2>2. InStore(e, s.order)
    BY <1>2 DEF CanReconcile
  <2>3. /\ EngineOK(d) /\ FillStep(e, d) /\ SameLog(e, d) /\ d.store = e.store
        /\ d.buy = e.buy /\ d.sell = e.sell
    BY <2>2, SettledOK
  <2> HIDE DEF d
  <2>4. /\ EngineOK(f)
        /\ FillStep(d, f) \/ EndStep(d, f)
        /\ Announces(d, f) /\ Shrinks(d, f)
        /\ InStore(d, s.order) /\ s.status \in Terminal => Ends(d, f, s.order)
        /\ s.status \notin Terminal => Quiet(d, f)
    BY <2>1, <2>3, OnOrderSnapshotOK
  <2> HIDE DEF f
  <2>5. SlotStep(e, f)
    BY <2>3, <2>4, FillThen
  <2>6. Announces(e, f) /\ Shrinks(e, f)
    BY <2>3, <2>4 DEF Announces, Tells, Shrinks, InStore, SameLog
  <2>7. s.status \in Terminal => Ends(e, f, s.order)
    BY <2>2, <2>3, <2>4 DEF Ends, InStore, SameLog
  <2>8. s.status \notin Terminal => Quiet(e, f)
    BY <2>3, <2>4 DEF Quiet, InStore, SameLog
  <2> QED
    BY <1>2, <2>4, <2>5, <2>6, <2>7, <2>8 DEF f
<1>3. CASE ~CanReconcile(e, s)
  <2>1. f = e
    BY <1>3 DEF ReconcileFromSnapshot
  <2> QED
    BY <1>1, <1>3, <2>1, Untouched, NotAnnounced DEF Quiet
<1> QED
  BY <1>2, <1>3

\* Polling empties the event list and touches nothing else.
LEMMA PollOK ==
    ASSUME NEW e, EngineOK(e)
    PROVE  LET f == PollEvents(e)
           IN  EngineOK(f) /\ SlotStep(e, f) /\ Announces(e, f) /\ Shrinks(e, f)
<1> DEFINE f == PollEvents(e)
<1>1. e \in Engine /\ f = [e EXCEPT !.events = <<>>] /\ <<>> \in Seq(Event)
  BY DEF EngineOK, PollEvents
<1> HIDE DEF f
<1>2. /\ f \in Engine /\ f.wallet = e.wallet /\ f.events = <<>>
      /\ f.buy = e.buy /\ f.sell = e.sell /\ f.store = e.store
  BY <1>1 DEF Engine
<1> QED
  BY <1>1, <1>2, Untouched, NotAnnounced DEF f

\* A mark price only moves the mark.
LEMMA MarkOK ==
    ASSUME NEW e, EngineOK(e), NEW p \in Int
    PROVE  LET f == SetMarkPrice(e, p)
           IN  /\ EngineOK(f) /\ SlotStep(e, f) /\ Announces(e, f) /\ Shrinks(e, f)
               /\ Quiet(e, f)
<1> DEFINE f == SetMarkPrice(e, p)
<1>1. e \in Engine /\ f = [e EXCEPT !.mark = p]
  BY DEF EngineOK, SetMarkPrice
<1> HIDE DEF f
<1>2. /\ f \in Engine /\ f.wallet = e.wallet /\ f.events = e.events
      /\ f.buy = e.buy /\ f.sell = e.sell /\ f.store = e.store
  BY <1>1 DEF Engine
<1> QED
  BY <1>1, <1>2, Untouched, NotAnnounced DEF f, Quiet, InStore

----------------------------------------------------------------------------
(* A new engine *)

\* A new engine is idle, its store empty.
LEMMA NewEngineOK ==
    ASSUME NEW w, WalletOK(w), w.token = NoToken
    PROVE  EngineOK(NewEngine(w))
<1> DEFINE e == NewEngine(w)
           st == [o \in Orders |-> Absent]
<1>1. Absent \in StoredOrder /\ Absent.status = "Absent"
  BY DEF Absent, StoredOrder, Sides
<1>2. st \in [Orders -> StoredOrder] /\ \A o \in Orders : st[o].status = "Absent"
  BY <1>1
<1>3. w \in Wallet /\ <<>> \in Seq(Trades) /\ <<>> \in Seq(Event)
  BY DEF WalletOK
<1>4. e = [wallet |-> w, buy |-> NoOrder, sell |-> NoOrder, seen |-> <<>>,
           events |-> <<>>, mark |-> 0, store |-> st]
  BY DEF NewEngine
<1> HIDE DEF st, e
<1>5. /\ e \in Engine /\ e.wallet = w /\ e.buy = NoOrder /\ e.sell = NoOrder
      /\ e.store = st
  BY <1>2, <1>3, <1>4 DEF Engine
<1>6. \A o \in Orders : ~InStore(e, o) /\ o \notin {e.buy, e.sell}
  BY <1>2, <1>5, EngineAssumption DEF InStore
<1>7. \A o \in Orders : e.store[o].status \notin Terminal
  BY <1>2, <1>5 DEF Terminal
<1>8. EngineOK(e)
  BY <1>5, <1>6, <1>7, TokenType DEF EngineOK
<1> QED
  BY <1>8 DEF e

----------------------------------------------------------------------------
(* What the methods do to the amounts: wallet, store, trades seen, mark *)

\* Every trade of list r is t or one of list q.
AddsOnly(q, r, t) == \A i \in 1..Len(r) : r[i] = t \/ \E j \in 1..Len(q) : r[i] = q[j]

Learns(e, f, t) == AddsOnly(e.seen, f.seen, t)

\* A trade is put at the end of a list, and the oldest may go.
LEMMA FifoLearns ==
    ASSUME NEW q \in Seq(Trades), NEW t \in Trades, NEW r,
           r = Append(q, t) \/ r = Tail(Append(q, t))
    PROVE  AddsOnly(q, r, t)
<1> DEFINE a == Append(q, t)
<1>1. /\ a \in Seq(Trades) /\ Len(q) \in Nat /\ Len(a) = Len(q) + 1 /\ a # <<>>
      /\ \A i \in 1..Len(q) : a[i] = q[i]
      /\ a[Len(q) + 1] = t
  OBVIOUS
<1>2. r = a \/ r = Tail(a)
  OBVIOUS
<1> HIDE DEF a
<1>3. \A i \in 1..Len(a) : a[i] = t \/ \E j \in 1..Len(q) : a[i] = q[j]
  BY <1>1
<1>4. CASE r = a
  BY <1>3, <1>4 DEF AddsOnly
<1>5. CASE r = Tail(a)
  <2>1. Len(r) = Len(a) - 1 /\ \A i \in 1..Len(r) : r[i] = a[i + 1]
    BY <1>1, <1>5
  <2>2. \A i \in 1..Len(r) : i + 1 \in 1..Len(a)
    BY <1>1, <2>1
  <2> QED
    BY <1>3, <2>1, <2>2 DEF AddsOnly
<1> QED
  BY <1>2, <1>4, <1>5

\* A trade settles its fill if it is new and its order is known.
LEMMA OnMyTradeFields ==
    ASSUME NEW e, EngineOK(e), NEW t \in Trade
    PROVE  LET f == OnMyTrade(e, t)
           IN  /\ f.store = e.store /\ f.mark = e.mark /\ Learns(e, f, t.id)
               /\ f.buy = e.buy /\ f.sell = e.sell
               /\ f.wallet = IF Seen(e, t) \/ ~InStore(e, t.order) THEN e.wallet
                             ELSE SettleFill(e, t.order, t.vol, t.price, t.funds, t.fee)
<1> DEFINE f == OnMyTrade(e, t)
           g == MarkTrade(e, t)
           ev == FillEvent(e, t)
           h == PushEvent(g, ev)
           w == SettleFill(e, t.order, t.vol, t.price, t.funds, t.fee)
<1>1. /\ e \in Engine /\ t.order \in Orders /\ t.vol \in Int /\ t.price \in Int
      /\ t.funds \in Int /\ t.fee \in Int /\ t.id \in Trades
  BY DEF EngineOK, Trade
<1>2. /\ g \in Engine /\ g.wallet = e.wallet /\ g.mark = e.mark
      /\ g.buy = e.buy /\ g.sell = e.sell /\ g.store = e.store
      /\ g.seen = IF Len(e.seen) + 1 > MaxSeen THEN Tail(Append(e.seen, t.id))
                  ELSE Append(e.seen, t.id)
  BY <1>1, MarkTradeFields
<1>3. Learns(e, g, t.id)
  <2>1. e.seen \in Seq(Trades)
    BY <1>1, EngineFields
  <2>2. g.seen = Append(e.seen, t.id) \/ g.seen = Tail(Append(e.seen, t.id))
    BY <1>2
  <2> DEFINE q == e.seen
             r == g.seen
             u == t.id
  <2>3. q \in Seq(Trades) /\ u \in Trades /\ (r = Append(q, u) \/ r = Tail(Append(q, u)))
    BY <1>1, <2>1, <2>2
  <2> HIDE DEF q, r, u
  <2>4. AddsOnly(q, r, u)
    BY <2>3, FifoLearns
  <2> QED
    BY <2>4 DEF Learns, q, r, u
<1>4. CASE Seen(e, t)
  BY <1>4 DEF OnMyTrade, Learns, AddsOnly
<1>5. CASE ~Seen(e, t) /\ ~InStore(e, t.order)
  <2>1. f = g
    BY <1>5 DEF OnMyTrade
  <2> HIDE DEF f, g
  <2> QED
    BY <1>2, <1>3, <1>5, <2>1 DEF f
<1>6. CASE ~Seen(e, t) /\ InStore(e, t.order)
  <2>1. f = [h EXCEPT !.wallet = w]
    BY <1>6 DEF OnMyTrade
  <2>2. ev \in Event
    <3>1. e.store[t.order].side \in Sides
      BY <1>1, EngineFields DEF StoredOrder
    <3> QED
      BY <1>1, <3>1 DEF FillEvent, Event, Statuses, Effects
  <2>3. WalletOK(w)
    BY <1>1, <1>6, SettleFillOK
  <2>4. w \in Wallet
    BY <2>3 DEF WalletOK
  <2> HIDE DEF f, g, ev, w
  <2>5. /\ h \in Engine /\ h.mark = e.mark /\ h.seen = g.seen
        /\ h.buy = e.buy /\ h.sell = e.sell /\ h.store = e.store
    BY <1>2, <2>2, PushEventFields
  <2> HIDE DEF h
  <2>6. /\ f.wallet = w /\ f.mark = e.mark /\ f.seen = g.seen
        /\ f.buy = e.buy /\ f.sell = e.sell /\ f.store = e.store
    BY <2>1, <2>4, <2>5, SetWallet DEF SameLog
  <2>7. Learns(e, f, t.id)
    BY <1>3, <2>6 DEF Learns
  <2> QED
    BY <1>6, <2>6, <2>7 DEF f, w
<1> QED
  BY <1>4, <1>5, <1>6

\* The store's values of order o are those of report s, all others stay.
Synced(e, f, s) ==
    /\ f.store[s.order].vol = s.vol /\ f.store[s.order].funds = s.funds
    /\ f.store[s.order].fee = s.fee /\ f.store[s.order].side = e.store[s.order].side
    /\ \A p \in Orders : p # s.order => f.store[p] = e.store[p]

\* A report of an open order overwrites its totals, and nothing else.
LEMMA OpenSnapshotFields ==
    ASSUME NEW e \in Engine, NEW s \in Snapshot, s.status \notin Terminal
    PROVE  LET f == OnOrderSnapshot(e, s)
           IN  /\ f.wallet = e.wallet /\ SameLog(e, f)
               /\ f.buy = e.buy /\ f.sell = e.sell
               /\ IF InStore(e, s.order) THEN Synced(e, f, s) ELSE f = e
<1> DEFINE f == OnOrderSnapshot(e, s)
           y == SyncFields(e, s)
<1>1. f = IF InStore(e, s.order) THEN y ELSE e
  BY DEF OnOrderSnapshot
<1>2. /\ y.wallet = e.wallet /\ SameLog(e, y) /\ y.buy = e.buy /\ y.sell = e.sell
      /\ Synced(e, y, s)
  BY SyncFieldsFields DEF Synced
<1> HIDE DEF f, y
<1>3. CASE InStore(e, s.order)
  BY <1>1, <1>2, <1>3 DEF f
<1>4. CASE ~InStore(e, s.order)
  <2>1. f = e
    BY <1>1, <1>4
  <2> QED
    BY <1>4, <2>1 DEF f, SameLog
<1> QED
  BY <1>3, <1>4

\* The effect of an ended order on the position, from its side and volume and
\* the coin the wallet is left with.
EffectOf(side, vol, coin) ==
    IF vol <= 0 THEN "None"
    ELSE IF side = "BID" THEN "Opened"
    ELSE IF coin >= CoinEpsilon THEN "Reduced" ELSE "Closed"

\* The event that f has and e has not is the end of an order, with this effect.
EndsWith(e, f, effect) ==
    \E ev \in Event : /\ ev.kind = "status" /\ ev.effect = effect
                      /\ f.events = Append(e.events, ev)

\* The report that the active order has ended closes its token or its sell.
LEMMA LastSnapshotFields ==
    ASSUME NEW e, EngineOK(e), NEW s \in Snapshot, s.status \in Terminal,
           InStore(e, s.order)
    PROVE  LET f == OnOrderSnapshot(e, s)
               side == e.store[s.order].side
           IN  /\ f.wallet = IF side = "BID" THEN FinalizeOrder(e.wallet)
                             ELSE FinalizeSellOrder(e.wallet, e.mark)
               /\ f.seen = e.seen /\ f.mark = e.mark
               /\ EndsWith(e, f, EffectOf(side, s.vol, f.wallet.coin))
<1> DEFINE f == OnOrderSnapshot(e, s)
           o == s.order
           side == e.store[o].side
           y == SyncFields(e, s)
           c == CloseActive(y, o)
           ev == StatusEvent(c, o)
           p == PushEvent(c, ev)
           w == IF side = "BID" THEN FinalizeOrder(e.wallet)
                ELSE FinalizeSellOrder(e.wallet, e.mark)
<1>1. e \in Engine /\ o \in Orders /\ s.status \in Statuses /\ o # NoOrder
  BY EngineAssumption DEF EngineOK, Snapshot
<1>2. /\ y \in Engine /\ y.wallet = e.wallet /\ SameLog(e, y)
      /\ y.buy = e.buy /\ y.sell = e.sell
      /\ y.store[o].status = s.status /\ y.store[o].side = side
      /\ y.store[o].vol = s.vol
  BY <1>1, SyncFieldsFields
<1>3. s.status # e.store[o].status /\ o \in {e.buy, e.sell}
  BY <1>1 DEF EngineOK
<1>4. f = Erase(p, o)
  BY <1>3 DEF OnOrderSnapshot
<1>5. /\ WalletOK(y.wallet)
      /\ y.wallet.token.active <=> y.buy # NoOrder
      /\ o = y.buy \/ o = y.sell
      /\ y.buy = NoOrder \/ y.sell = NoOrder
      /\ o = y.buy => y.store[o].side = "BID"
      /\ o = y.sell => y.store[o].side = "ASK"
  BY <1>1, <1>2, <1>3 DEF EngineOK
<1> HIDE DEF f, y
<1>6. /\ c \in Engine /\ c.store = y.store /\ SameLog(y, c)
  BY <1>1, <1>2, <1>5, CloseActiveOK
<1>7. c.wallet = w
  <2>1. CASE o = y.buy
    <3>1. c = [y EXCEPT !.wallet = FinalizeOrder(y.wallet), !.buy = NoOrder]
      BY <1>1, <1>5, <2>1 DEF CloseActive, FinalizeBuyToken
    <3>2. side = "BID"
      BY <1>2, <1>5, <2>1
    <3> QED
      BY <1>2, <3>1, <3>2 DEF Engine
  <2>2. CASE o = y.sell
    <3>1. c = [y EXCEPT !.wallet = FinalizeSellOrder(y.wallet, y.mark), !.sell = NoOrder]
      BY <1>1, <1>5, <2>2 DEF CloseActive
    <3>2. side = "ASK"
      BY <1>2, <1>5, <2>2
    <3> QED
      BY <1>2, <3>1, <3>2 DEF Engine, SameLog
  <2> QED
    BY <1>5, <2>1, <2>2
<1> HIDE DEF c, w
<1>8. /\ ev \in Event /\ ev.kind = "status"
      /\ ev.effect = EffectOf(side, s.vol, w.coin)
  <2>1. c.store[o] \in StoredOrder /\ c.store[o].status \in Statuses
    BY <1>1, <1>2, <1>6, EngineFields
  <2>2. ResolvePositionEffect(c, o) \in Effects
    BY DEF ResolvePositionEffect, Effects
  <2>3. ResolvePositionEffect(c, o) = EffectOf(side, s.vol, w.coin)
    BY <1>2, <1>6, <1>7 DEF ResolvePositionEffect, EffectOf
  <2> QED
    BY <1>1, <2>1, <2>2, <2>3 DEF StatusEvent, Event, StoredOrder
<1> HIDE DEF ev
<1>9. /\ p \in Engine /\ p.wallet = w /\ p.events = Append(c.events, ev)
      /\ p.seen = c.seen /\ p.mark = c.mark
  BY <1>6, <1>7, <1>8, PushEventFields
<1> HIDE DEF p
<1>10. /\ f.wallet = w /\ f.events = Append(e.events, ev)
       /\ f.seen = e.seen /\ f.mark = e.mark
  BY <1>1, <1>2, <1>4, <1>6, <1>9, EraseFields DEF SameLog
<1>11. EndsWith(e, f, EffectOf(side, s.vol, f.wallet.coin))
  BY <1>8, <1>10 DEF EndsWith
<1> QED
  BY <1>10, <1>11 DEF f, w

\* The wallet and the store's values of an accepted order.
LEMMA SubmitAcceptedFields ==
    ASSUME NEW e, EngineOK(e), NEW r \in Request, CanSubmit(e, r), NEW o \in Orders
    PROVE  LET f == SubmitAccepted(e, r, o)
           IN  /\ f.wallet = IF r.side = "BID"
                             THEN Reserve(e.wallet, ComputeReserveAmount(r)) ELSE e.wallet
               /\ f.seen = e.seen /\ f.mark = e.mark
               /\ f.store[o].side = r.side /\ f.store[o].vol = 0
               /\ f.store[o].funds = 0 /\ f.store[o].fee = 0
<1> DEFINE pending == [Absent EXCEPT !.status = "Pending", !.side = r.side]
           f == SubmitAccepted(e, r, o)
           w == IF r.side = "BID" THEN Reserve(e.wallet, ComputeReserveAmount(r)) ELSE e.wallet
           g == IF r.side = "BID" THEN [e EXCEPT !.wallet = w, !.buy = o]
                ELSE [e EXCEPT !.sell = o]
<1>1. /\ e \in Engine /\ e.wallet \in Wallet /\ WalletOK(e.wallet) /\ r.side \in Sides
      /\ ComputeReserveAmount(r) \in Int
  BY EngineFields, ReserveAmountType DEF EngineOK, Request
<1>2. ~e.wallet.token.active
  BY CanSubmitIdle
<1>3. w \in Wallet
  BY <1>1, <1>2, ReserveSound DEF CanSubmit, WalletOK
<1>4. /\ pending \in StoredOrder /\ pending.side = r.side
      /\ pending.vol = 0 /\ pending.funds = 0 /\ pending.fee = 0
  <2>1. Absent \in StoredOrder /\ Absent.vol = 0 /\ Absent.funds = 0 /\ Absent.fee = 0
    BY DEF Absent, StoredOrder, Sides
  <2> QED
    BY <1>1, <2>1 DEF StoredOrder, Statuses
<1>5. f = Upsert(g, o, pending)
  BY DEF SubmitAccepted
<1> HIDE DEF f, pending
<1>6. g \in Engine /\ g.wallet = w /\ SameLog(e, g)
  <2>1. CASE r.side = "BID"
    <3>1. g = [e EXCEPT !.wallet = w, !.buy = o] /\ o \in Orders \cup {NoOrder}
      BY <2>1
    <3> HIDE DEF g, w
    <3> QED
      BY <1>1, <1>3, <3>1 DEF Engine, SameLog
  <2>2. CASE r.side # "BID"
    <3>1. g = [e EXCEPT !.sell = o] /\ w = e.wallet
      BY <2>2
    <3> HIDE DEF g, w
    <3> QED
      BY <1>1, <3>1 DEF Engine, SameLog
  <2> QED
    BY <2>1, <2>2
<1> HIDE DEF g, w
<1>7. /\ f.wallet = w /\ SameLog(g, f) /\ f.store = [g.store EXCEPT ![o] = pending]
      /\ g.store \in [Orders -> StoredOrder]
  BY <1>4, <1>5, <1>6, UpsertFields, EngineFields
<1>8. f.store[o] = pending
  BY <1>7
<1> QED
  BY <1>4, <1>6, <1>7, <1>8 DEF f, w, SameLog

\* A failed submit leaves every amount as it was.
LEMMA SubmitFailedFields ==
    ASSUME NEW e, EngineOK(e), NEW r \in Request, CanSubmit(e, r)
    PROVE  LET f == SubmitFailed(e, r)
           IN  /\ f.wallet.available = e.wallet.available /\ f.wallet.coin = e.wallet.coin
               /\ f.seen = e.seen /\ f.mark = e.mark /\ f.store = e.store
               /\ f.events = e.events /\ f.buy = e.buy /\ f.sell = e.sell
<1> DEFINE f == SubmitFailed(e, r)
           krw == ComputeReserveAmount(r)
           v == Reserve(e.wallet, krw)
           w == Release(v)
<1>1. /\ e \in Engine /\ WalletOK(e.wallet) /\ krw \in Int /\ e.wallet.available \in Int
  BY EngineFields, WalletFields, ReserveAmountType DEF EngineOK
<1>2. e.buy = NoOrder /\ ~e.wallet.token.active
  BY CanSubmitIdle
<1>3. CASE r.side = "BID"
  <2>1. f = [e EXCEPT !.wallet = w, !.buy = NoOrder]
    BY <1>3 DEF SubmitFailed
  <2>2. CanReserve(e.wallet, krw)
    BY <1>3 DEF CanSubmit
  <2> HIDE DEF krw, v, w, f
  <2>3. /\ WalletOK(v) /\ v.token.active /\ v.reserved = krw
        /\ v.available = e.wallet.available - krw /\ v.coin = e.wallet.coin
    BY <1>1, <1>2, <2>2, ReserveSound DEF v
  <2>4. /\ WalletOK(w) /\ w.available = v.available + v.reserved /\ w.coin = v.coin
    BY <2>3, ReleaseSound DEF w
  <2>5. w.available = e.wallet.available /\ w.coin = e.wallet.coin
    BY <1>1, <2>3, <2>4
  <2>6. /\ f.wallet = w /\ SameLog(e, f)
        /\ f.buy = NoOrder /\ f.sell = e.sell /\ f.store = e.store
    BY <1>1, <2>1 DEF Engine, SameLog
  <2> QED
    BY <1>2, <2>5, <2>6 DEF SameLog, f
<1>4. CASE r.side # "BID"
  BY <1>4 DEF SubmitFailed
<1> QED
  BY <1>3, <1>4

=============================================================================
