--------------------------- MODULE AccountProofs ---------------------------
(***************************************************************************)
(* The account for any set of markets, any balances, any amounts and any   *)
(* number of calls: the ledger at run time and the start-up that fills it. *)
(*                                                                         *)
(* The first part sums an equal split, so that what a rebuild gives to the *)
(* markets can be compared with what the account has.  The second is about *)
(* AccountLedger.  IInv is its inductive invariant: the properties         *)
(* themselves, strengthened by what the start-up phases have not done yet  *)
(* (no token exists, nothing was spent or received), without which a       *)
(* rebuild would not conserve KRW; SplitOK adds the split.  The third is   *)
(* about StartupRecovery, whose invariant RInv says which markets are      *)
(* cleared of open orders and which strategies know their position.        *)
(***************************************************************************)
EXTENDS AccountLedger, StartupRecovery, MarketEngineProofs, WellFoundedInduction

----------------------------------------------------------------------------
(* The sum of an equal split.  The folds of the community modules are         *)
(* recursive functions over the subsets of S: an explicit count solves the    *)
(* equation of the fold (SplitSolves), and no other function does (CountOf,   *)
(* by a smallest subset on which one would differ).                           *)

\* iter is the fold of +, 0 and the values of g over the subsets of S.
IsFold(iter, g, S) ==
    iter = [s \in SUBSET S |->
               IF s = {} THEN 0
               ELSE g[CHOOSE x \in s : TRUE] + iter[s \ {CHOOSE x \in s : TRUE}]]

\* The members of T, and no others, have the value c.
Splits(g, S, T, c) == \A x \in S : g[x] = IF x \in T THEN c ELSE 0

\* Subsets of a finite set are finite, and smaller by one without an element.
LEMMA SubsetSize ==
    ASSUME NEW S, IsFiniteSet(S), NEW s \in SUBSET S
    PROVE  IsFiniteSet(s) /\ Cardinality(s) \in Nat
BY FS_Subset, FS_CardinalityType

LEMMA RemoveSize ==
    ASSUME NEW p, IsFiniteSet(p), NEW x \in p, NEW q, q = p \ {x}
    PROVE  Cardinality(q) = Cardinality(p) - 1
<1>1. Cardinality(p \ {x}) = Cardinality(p) - 1
  BY FS_RemoveElement
<1> QED
  BY <1>1

\* One more member of T is one more c.
LEMMA OneMore ==
    ASSUME NEW a \in Nat, NEW c \in Nat
    PROVE  a * c = c + (a - 1) * c /\ a * c = 0 + a * c /\ a * c \in Nat
OBVIOUS

\* c times the number of members of T solves the fold's equation.
LEMMA SplitSolves ==
    ASSUME NEW S, IsFiniteSet(S), NEW T \in SUBSET S, NEW c \in Nat, NEW g, Splits(g, S, T, c)
    PROVE  IsFold([s \in SUBSET S |-> Cardinality(s \cap T) * c], g, S)
<1> DEFINE h == [s \in SUBSET S |-> Cardinality(s \cap T) * c]
           F(s) == IF s = {} THEN 0
                   ELSE g[CHOOSE x \in s : TRUE] + h[s \ {CHOOSE x \in s : TRUE}]
<1>1. ASSUME NEW s \in SUBSET S PROVE h[s] = F(s)
  <2>1. CASE s = {}
    BY <2>1, FS_EmptySet
  <2>2. CASE s # {}
    <3>0. PICK x \in s : x = CHOOSE y \in s : TRUE
      BY <2>2
    <3> DEFINE r == s \ {x}
               p == s \cap T
               q == r \cap T
               a == Cardinality(p)
               b == Cardinality(q)
    <3>1. x \in s /\ x \in S /\ s \ {x} \in SUBSET S
      OBVIOUS
    <3>2. F(s) = g[x] + h[s \ {x}]
      BY <2>2, <3>0
    <3>3. h[s] = a * c /\ h[s \ {x}] = b * c
      BY <3>1
    <3>4. g[x] = IF x \in T THEN c ELSE 0
      BY <3>1 DEF Splits
    <3> HIDE DEF h, F
    <3>5. a \in Nat /\ (x \in T => b = a - 1) /\ (x \notin T => b = a)
      <4>2. IsFiniteSet(p) /\ Cardinality(p) \in Nat
        BY SubsetSize
      <4>3. (x \in T => x \in p /\ q = p \ {x}) /\ (x \notin T => q = p)
        OBVIOUS
      <4> HIDE DEF r, p, q
      <4> QED
        BY <4>2, <4>3, RemoveSize
    <3> HIDE DEF a, b
    <3>6. a * c = c + (a - 1) * c /\ a * c = 0 + a * c
      BY <3>5, OneMore
    <3>7. CASE x \in T
      BY <3>2, <3>3, <3>4, <3>5, <3>6, <3>7
    <3>8. CASE x \notin T
      BY <3>2, <3>3, <3>4, <3>5, <3>6, <3>8
    <3> QED
      BY <3>7, <3>8
  <2> QED
    BY <2>1, <2>2
<1>2. h = [s \in SUBSET S |-> F(s)]
  BY <1>1
<1> QED
  BY <1>2 DEF IsFold

\* Every solution of the equation is that one.
LEMMA CountOf ==
    ASSUME NEW S, IsFiniteSet(S), NEW T \in SUBSET S, NEW c \in Nat, NEW g,
           Splits(g, S, T, c), NEW iter, IsFold(iter, g, S)
    PROVE  iter[S] = Cardinality(T) * c
<1> DEFINE Bad == {s \in SUBSET S : iter[s] # Cardinality(s \cap T) * c}
           Sizes == {Cardinality(s) : s \in Bad}
<1>1. ASSUME Bad # {} PROVE FALSE
  <2>1. \A s \in SUBSET S : Cardinality(s) \in Nat
    BY FS_Subset, FS_CardinalityType
  <2>2. Sizes \subseteq Nat /\ Sizes # {}
    BY <1>1, <2>1
  <2>3. PICK n \in Sizes : \A k \in Sizes : ~(<<k, n>> \in OpToRel(<, Nat))
    BY <2>2, NatLessThanWellFounded, WFMin
  <2>4. PICK s \in Bad : n = Cardinality(s)
    OBVIOUS
  <2>5. \A r \in SUBSET S : Cardinality(r) < n => iter[r] = Cardinality(r \cap T) * c
    BY <2>1, <2>2, <2>3 DEF OpToRel
  <2>6. s # {}
    <3> SUFFICES ASSUME s = {} PROVE FALSE
      OBVIOUS
    <3>1. Cardinality(s \cap T) = 0
      BY FS_EmptySet
    <3> QED
      BY <3>1 DEF IsFold
  <2>0. PICK x \in s : x = CHOOSE y \in s : TRUE
    BY <2>6
  <2> DEFINE r == s \ {x}
             p == s \cap T
             q == r \cap T
             a == Cardinality(p)
             b == Cardinality(q)
  <2>7. x \in s /\ x \in S /\ s \in SUBSET S /\ s \ {x} \in SUBSET S
    OBVIOUS
  <2>8. iter[s] = g[x] + iter[s \ {x}]
    BY <2>0, <2>6, <2>7 DEF IsFold
  <2>9. g[x] = IF x \in T THEN c ELSE 0
    BY <2>7 DEF Splits
  <2>10. /\ Cardinality(s) \in Nat /\ Cardinality(r) = Cardinality(s) - 1
         /\ a \in Nat /\ (x \in T => b = a - 1) /\ (x \notin T => b = a)
    <3>1. /\ IsFiniteSet(s) /\ Cardinality(s) \in Nat
          /\ IsFiniteSet(p) /\ Cardinality(p) \in Nat
      BY <2>7, SubsetSize
    <3>2. /\ x \in s /\ r = s \ {x}
          /\ (x \in T => x \in p /\ q = p \ {x}) /\ (x \notin T => q = p)
      OBVIOUS
    <3>3. Cardinality(r) = Cardinality(s) - 1
      BY <3>1, <3>2, RemoveSize
    <3> HIDE DEF r, p, q, Bad
    <3> QED
      BY <3>1, <3>2, <3>3, RemoveSize
  <2>11. iter[s \ {x}] = b * c
    <3>1. r \in SUBSET S /\ Cardinality(r) < n
      BY <2>4, <2>7, <2>10
    <3> QED
      BY <2>5, <3>1
  <2>12. iter[s] # a * c
    OBVIOUS
  <2> HIDE DEF a, b, Bad
  <2>13. a * c = c + (a - 1) * c /\ a * c = 0 + a * c
    BY <2>10, OneMore
  <2>14. CASE x \in T
    BY <2>8, <2>9, <2>10, <2>11, <2>12, <2>13, <2>14
  <2>15. CASE x \notin T
    BY <2>8, <2>9, <2>10, <2>11, <2>12, <2>13, <2>15
  <2> QED
    BY <2>14, <2>15
<1>2. S \cap T = T
  OBVIOUS
<1> QED
  BY <1>1, <1>2

\* What the fold of a function that splits c over T computes.
LEMMA FoldOfSplit ==
    ASSUME NEW S, IsFiniteSet(S), NEW T \in SUBSET S, NEW c \in Nat,
           NEW g, DOMAIN g = S, Splits(g, S, T, c)
    PROVE  TotalKrw(g) = Cardinality(T) * c
<1> DEFINE iter == CHOOSE i : IsFold(i, g, S)
<1>1. TotalKrw(g) = iter[S]
  BY DEF TotalKrw, FoldFunction, FoldFunctionOnSet, MapThenFoldSet, IsFold
<1>2. IsFold(iter, g, S)
  BY SplitSolves
<1> HIDE DEF iter
<1>3. iter[S] = Cardinality(T) * c
  BY <1>2, CountOf
<1> QED
  BY <1>1, <1>3

\* The same for the available KRW of wallets.
LEMMA SumOfSplit ==
    ASSUME NEW T \in SUBSET Markets, NEW c \in Nat, NEW ws,
           Splits([m \in Markets |-> ws[m].available], Markets, T, c)
    PROVE  Promised(ws) = Cardinality(T) * c
<1> DEFINE g == [m \in Markets |-> ws[m].available]
           h == [s \in SUBSET Markets |-> Cardinality(s \cap T) * c]
           E(i) == i = [s \in SUBSET Markets |->
                          IF s = {} THEN 0
                          ELSE ws[CHOOSE x \in s : TRUE].available
                                   + i[s \ {CHOOSE x \in s : TRUE}]]
           iter == CHOOSE i : E(i)
<1>1. Promised(ws) = iter[Markets]
  BY DEF Promised, MapThenSumSet, MapThenFoldSet
<1>2. ASSUME NEW i PROVE E(i) <=> IsFold(i, g, Markets)
  <2>1. ASSUME NEW s \in SUBSET Markets, s # {}
        PROVE  g[CHOOSE x \in s : TRUE] = ws[CHOOSE x \in s : TRUE].available
    BY <2>1
  <2> QED
    BY <2>1 DEF IsFold
<1>3. IsFiniteSet(Markets) /\ Splits(g, Markets, T, c)
  BY AccountAssumption
<1>4. IsFold(h, g, Markets)
  <2> HIDE DEF g
  <2> QED
    BY <1>3, SplitSolves
<1>5. E(iter)
  <2>1. E(h)
    BY <1>2, <1>4
  <2> HIDE DEF h, E
  <2> QED
    BY <2>1
<1>6. IsFold(iter, g, Markets)
  BY <1>2, <1>5
<1> HIDE DEF iter, g, E
<1>7. iter[Markets] = Cardinality(T) * c
  BY <1>3, <1>6, CountOf
<1> QED
  BY <1>1, <1>7

\* n equal shares are no more than the whole.
LEMMA SharesFit ==
    ASSUME NEW won \in Nat, NEW n \in Nat, n # 0
    PROVE  n * Share(won, n) <= won /\ Share(won, n) \in Nat
<1>1. n * (won \div n) <= won /\ won \div n \in Nat
  OBVIOUS
<1> QED
  BY <1>1 DEF Share

\* A rebuild hands out at most the free KRW of the account, and none to a market
\* with coin.
LEMMA RebuildSplit ==
    ASSUME NEW ws \in [Markets -> Wallet], NEW acc \in Account,
           \A m \in Markets : ws[m].token = NoToken,
           NEW wr, wr = RebuildFromAccount(ws, acc)
    PROVE  /\ TotalKrw([m \in Markets |-> wr[m].available]) <= acc.krw
           /\ Promised(wr) \in Nat /\ Promised(wr) <= acc.krw
           /\ \A m \in Markets : wr[m].coin >= CoinEpsilon => wr[m].available = 0
<1> DEFINE T == FlatMarkets(acc)
           n == Cardinality(T)
           c == IF T = {} THEN 0 ELSE Share(acc.krw, n)
           g == [m \in Markets |-> wr[m].available]
<1>1. \A m \in Markets : /\ wr[m].coin = KeptCoin(acc, m)
                         /\ wr[m].available = IF m \in T THEN Share(acc.krw, n) ELSE 0
  BY RebuildSound
<1>2. acc.krw \in Nat /\ \A m \in Markets : KeptCoin(acc, m) \in Nat
  BY DEF Account, KeptCoin
<1>3. IsFiniteSet(Markets) /\ T \in SUBSET Markets
  BY AccountAssumption DEF FlatMarkets
<1>4. n \in Nat /\ (T = {} <=> n = 0)
  BY <1>3, FS_Subset, FS_CardinalityType, FS_EmptySet
<1>5. \A m \in Markets : wr[m].coin >= CoinEpsilon => m \notin T
  <2>1. CoinEpsilon \in Nat
    BY AccountAssumption
  <2>2. \A m \in T : KeptCoin(acc, m) < CoinEpsilon
    BY DEF FlatMarkets
  <2> HIDE DEF T
  <2> QED
    BY <1>1, <1>2, <2>1, <2>2
<1> HIDE DEF T
<1>6. Splits(g, Markets, T, c)
  BY <1>1, <1>3 DEF Splits
<1>7. c \in Nat /\ n * c \in Nat /\ n * c <= acc.krw
  <2>1. CASE T = {}
    BY <1>2, <1>4, <2>1
  <2>2. CASE T # {}
    BY <1>2, <1>4, <2>2, SharesFit
  <2> QED
    BY <2>1, <2>2
<1>8. DOMAIN g = Markets
  OBVIOUS
<1>9. Promised(wr) = n * c
  BY <1>3, <1>6, <1>7, SumOfSplit
<1> HIDE DEF g, c
<1>10. TotalKrw(g) = n * c
  BY <1>3, <1>6, <1>7, <1>8, FoldOfSplit
<1> QED
  BY <1>1, <1>5, <1>7, <1>9, <1>10 DEF g

----------------------------------------------------------------------------
(* The ledger *)

WalletsOK == \A m \in Markets : WalletOK(wallets[m])

\* What market m should own.
Owed(m) == allotted[m] - spent[m] + received[m]

Balanced == \A m \in Markets : Total(wallets[m]) = Owed(m)

\* Before the bot runs no token was ever handed out.
Untraded ==
    phase # "running" =>
        \A m \in Markets : /\ wallets[m].token = NoToken
                           /\ spent[m] = 0 /\ received[m] = 0

IInv == TypeOK /\ WalletsOK /\ Balanced /\ Untraded

----------------------------------------------------------------------------

\* The invariant gives each property the runs check.
LEMMA IInvImplies ==
    IInv => ReservedIsBacked /\ KrwConserved /\ NeverOverdrawn
<1> SUFFICES ASSUME IInv PROVE ReservedIsBacked /\ KrwConserved /\ NeverOverdrawn
  OBVIOUS
<1>1. NeverOverdrawn
  BY DEF IInv, WalletsOK, WalletOK, NeverOverdrawn
<1>2. KrwConserved
  BY DEF IInv, Balanced, Total, Owed, KrwConserved
<1>3. ReservedIsBacked
  <2> SUFFICES ASSUME NEW m \in Markets
               PROVE  /\ wallets[m].reserved = Remaining(wallets[m].token)
                      /\ wallets[m].token.active \/ wallets[m].token = NoToken
                      /\ 0 <= wallets[m].token.consumed
                      /\ wallets[m].token.consumed <= wallets[m].token.amount
    BY DEF ReservedIsBacked
  <2>1. WalletOK(wallets[m])
    BY DEF IInv, WalletsOK
  <2>2. wallets[m].token.consumed \in Nat
    BY <2>1, WalletFields DEF WalletOK
  <2> QED
    BY <2>1, <2>2 DEF WalletOK
<1> QED
  BY <1>1, <1>2, <1>3

\* The constructor on the empty account establishes it.
LEMMA InitIInv == Init => IInv
<1> SUFFICES ASSUME Init PROVE IInv
  OBVIOUS
<1>1. WalletsOK
  BY ConstructEmpty DEF Init, WalletsOK
<1>2. wallets \in [Markets -> Wallet]
  <2>1. wallets = [m \in Markets |-> wallets[m]]
    BY DEF Init, Construct
  <2> QED
    BY <1>1, <2>1 DEF WalletsOK, WalletOK
<1>3. TypeOK
  BY <1>2 DEF Init, TypeOK
<1>4. \A m \in Markets : /\ wallets[m].token = NoToken /\ wallets[m].available = 0
                         /\ allotted[m] = 0 /\ spent[m] = 0 /\ received[m] = 0
  BY ConstructEmpty DEF Init
<1>5. Balanced
  <2> SUFFICES ASSUME NEW m \in Markets PROVE Total(wallets[m]) = Owed(m)
    BY DEF Balanced
  <2>1. wallets[m].reserved = 0 /\ wallets[m].token.consumed = 0
    BY <1>1, <1>4, TokenType DEF WalletsOK, WalletOK, Remaining
  <2> QED
    BY <1>4, <2>1 DEF Total, Owed
<1>6. Untraded
  BY <1>4 DEF Untraded
<1> QED
  BY <1>1, <1>3, <1>5, <1>6 DEF IInv

----------------------------------------------------------------------------

\* A start-up synchronisation re-allots the account's KRW.
LEMMA SyncIInv ==
    ASSUME IInv, phase # "running", NEW acc \in Accounts,
           RebuildAccountOnStartup(acc), phase' \in {"recovering", "running"}
    PROVE  IInv'
<1>1. acc \in Account
  BY LedgerAssumption
<1>2. acc.krw \in Nat
  BY <1>1 DEF Account
<1>3. wallets \in [Markets -> Wallet] /\ \A m \in Markets : wallets[m].token = NoToken
  BY DEF IInv, TypeOK, Untraded
<1>4. wallets' = RebuildFromAccount(wallets, acc)
  BY DEF RebuildAccountOnStartup
<1>5. \A m \in Markets : /\ WalletOK(wallets'[m])
                         /\ wallets'[m].token = NoToken /\ wallets'[m].reserved = 0
  BY <1>1, <1>3, <1>4, RebuildSound
<1>6. WalletsOK'
  BY <1>5 DEF WalletsOK
<1>7. wallets' \in [Markets -> Wallet]
  <2>1. wallets' = [m \in Markets |-> wallets'[m]]
    BY <1>4 DEF RebuildFromAccount
  <2> QED
    BY <1>5, <2>1 DEF WalletOK
<1>8. \A m \in Markets : wallets'[m].available \in Int
  BY <1>7, WalletFields
<1>9. allotted' = [m \in Markets |-> wallets'[m].available]
  BY DEF RebuildAccountOnStartup
<1>10. TypeOK'
  <2>1. allotted' \in [Markets -> Int]
    BY <1>8, <1>9
  <2>2. free' \in Nat /\ UNCHANGED <<ops, spent, received>>
    BY <1>2 DEF RebuildAccountOnStartup
  <2> QED
    BY <1>7, <2>1, <2>2 DEF IInv, TypeOK
<1>11. \A m \in Markets : spent'[m] = 0 /\ received'[m] = 0
  BY DEF IInv, Untraded, RebuildAccountOnStartup
<1>12. Balanced'
  <2> SUFFICES ASSUME NEW m \in Markets PROVE Total(wallets[m])' = Owed(m)'
    BY DEF Balanced
  <2>1. allotted'[m] = wallets'[m].available
    BY <1>9
  <2>2. wallets'[m].token.consumed = 0
    BY <1>5, TokenType
  <2> QED
    BY <1>5, <1>8, <1>11, <2>1, <2>2 DEF Total, Owed
<1>13. Untraded'
  BY <1>5, <1>11 DEF Untraded
<1> QED
  BY <1>6, <1>10, <1>12, <1>13 DEF IInv

\* The call leaves market m with wallet w, and d more spent and e more received.
Effect(m, w, d, e) ==
    /\ Call(m, w)
    /\ WalletOK(w)
    /\ spent' = [spent EXCEPT ![m] = @ + d]
    /\ received' = [received EXCEPT ![m] = @ + e]
    /\ Total(w) = Total(wallets[m]) - d + e

\* A worker's call touches one wallet.
LEMMA CallIInv ==
    ASSUME IInv, NEW m \in Markets, NEW w, NEW d \in Int, NEW e \in Int,
           Effect(m, w, d, e)
    PROVE  IInv'
<1>1. /\ Call(m, w) /\ WalletOK(w)
      /\ spent' = [spent EXCEPT ![m] = @ + d]
      /\ received' = [received EXCEPT ![m] = @ + e]
      /\ Total(w) = Total(wallets[m]) - d + e
  BY DEF Effect
<1>2. wallets' = [wallets EXCEPT ![m] = w] /\ w \in Wallet
  BY <1>1 DEF Call, WalletOK
<1>3. TypeOK'
  BY <1>1, <1>2 DEF IInv, TypeOK, Call
<1>4. WalletsOK'
  BY <1>1, <1>2 DEF IInv, TypeOK, WalletsOK
<1>5. Balanced'
  <2> SUFFICES ASSUME NEW n \in Markets PROVE Total(wallets'[n]) = Owed(n)'
    BY DEF Balanced
  <2>1. Total(wallets[n]) = Owed(n) /\ allotted'[n] = allotted[n]
    BY <1>1 DEF IInv, Balanced, Call
  <2>2. CASE n = m
    <3>1. wallets'[n] = w
      BY <1>2, <2>2 DEF IInv, TypeOK
    <3>2. spent'[n] = spent[n] + d /\ received'[n] = received[n] + e
      BY <1>1, <2>2 DEF IInv, TypeOK
    <3>3. allotted[n] \in Int /\ spent[n] \in Int /\ received[n] \in Int
      BY DEF IInv, TypeOK
    <3> QED
      BY <1>1, <2>1, <2>2, <3>1, <3>2, <3>3 DEF Owed
  <2>3. CASE n # m
    <3>1. /\ wallets'[n] = wallets[n]
          /\ spent'[n] = spent[n] /\ received'[n] = received[n]
      BY <1>1, <1>2, <2>3 DEF IInv, TypeOK
    <3> QED
      BY <2>1, <3>1 DEF Owed
  <2> QED
    BY <2>2, <2>3
<1>6. Untraded'
  BY <1>1 DEF Untraded, Call
<1> QED
  BY <1>3, <1>4, <1>5, <1>6 DEF IInv

\* A history variable a call leaves alone grows by 0.
LEMMA AddNothing ==
    ASSUME NEW g \in [Markets -> Int], NEW m \in Markets
    PROVE  g = [g EXCEPT ![m] = @ + 0]
OBVIOUS

----------------------------------------------------------------------------
(* One lemma per call *)

\* What every call starts from.
LEMMA CallFacts ==
    ASSUME IInv, NEW m \in Markets
    PROVE  /\ WalletOK(wallets[m])
           /\ wallets[m].available \in Int /\ wallets[m].reserved \in Nat
           /\ wallets[m].token.consumed \in Nat
           /\ spent \in [Markets -> Int] /\ received \in [Markets -> Int]
           /\ spent = [spent EXCEPT ![m] = @ + 0]
           /\ received = [received EXCEPT ![m] = @ + 0]
           /\ Total(wallets[m]) \in Int
<1>1. WalletOK(wallets[m])
  BY DEF IInv, WalletsOK
<1>2. /\ wallets[m].available \in Int /\ wallets[m].reserved \in Nat
      /\ wallets[m].token.consumed \in Nat
  BY <1>1, WalletFields DEF WalletOK
<1>3. spent \in [Markets -> Int] /\ received \in [Markets -> Int]
  BY DEF IInv, TypeOK
<1> QED
  BY <1>1, <1>2, <1>3, AddNothing DEF Total

\* A token for a new buy.
LEMMA ReserveIInv ==
    ASSUME IInv, NEW m \in Markets, NEW won \in Amounts, CallReserve(m, won)
    PROVE  IInv'
<1> DEFINE w == Reserve(wallets[m], won)
<1>1. won \in Int /\ WalletOK(wallets[m]) /\ ~wallets[m].token.active
  BY LedgerAssumption, CallFacts DEF CallReserve
<1>2. WalletOK(w) /\ Total(w) = Total(wallets[m])
  BY <1>1, ReserveSound DEF CallReserve
<1>3. Call(m, w) /\ spent' = spent /\ received' = received
  BY DEF CallReserve
<1> HIDE DEF w
<1>4. Total(w) = Total(wallets[m]) - 0 + 0
  BY <1>2, CallFacts
<1>5. Effect(m, w, 0, 0)
  BY <1>2, <1>3, <1>4, CallFacts DEF Effect
<1> QED
  BY <1>5, CallIInv

\* The token ends: what it consumed becomes spent.
LEMMA TokenEndIInv ==
    ASSUME IInv, NEW m \in Markets, NEW w, Call(m, w), TokenEnds(m),
           received' = received, WalletOK(w), w.token = NoToken, w.reserved = 0,
           w.available = wallets[m].available + wallets[m].reserved
    PROVE  IInv'
<1> DEFINE d == wallets[m].token.consumed
<1>1. spent' = [spent EXCEPT ![m] = @ + d]
  BY DEF TokenEnds
<1>2. Total(w) = Total(wallets[m]) - d + 0
  <2>1. w.token.consumed = 0
    BY TokenType
  <2>2. /\ wallets[m].available \in Int /\ wallets[m].reserved \in Nat /\ d \in Nat
    BY CallFacts
  <2>3. Total(w) = wallets[m].available + wallets[m].reserved
    BY <2>1, <2>2 DEF Total
  <2>4. Total(wallets[m]) = wallets[m].available + wallets[m].reserved + d
    BY DEF Total
  <2> HIDE DEF d
  <2> QED
    BY <2>2, <2>3, <2>4
<1>3. d \in Int
  BY CallFacts
<1>4. received' = [received EXCEPT ![m] = @ + 0]
  BY CallFacts
<1> HIDE DEF d
<1>5. Effect(m, w, d, 0)
  BY <1>1, <1>2, <1>4 DEF Effect
<1> QED
  BY <1>3, <1>5, CallIInv

\* The token is given back before its order was placed.
LEMMA ReleaseIInv ==
    ASSUME IInv, NEW m \in Markets, CallRelease(m)
    PROVE  IInv'
<1>1. WalletOK(wallets[m]) /\ wallets[m].token.active
  BY CallFacts DEF CallRelease
<1>2. /\ Call(m, Release(wallets[m])) /\ TokenEnds(m) /\ received' = received
  BY DEF CallRelease
<1> QED
  BY <1>1, <1>2, ReleaseSound, TokenEndIInv

\* The end of a buy gives back what its token did not spend.
LEMMA FinalizeOrderIInv ==
    ASSUME IInv, NEW m \in Markets, CallFinalizeOrder(m)
    PROVE  IInv'
<1>1. WalletOK(wallets[m]) /\ wallets[m].token.active
  BY CallFacts DEF CallFinalizeOrder
<1>2. /\ Call(m, FinalizeOrder(wallets[m])) /\ TokenEnds(m) /\ received' = received
  BY DEF CallFinalizeOrder
<1> QED
  BY <1>1, <1>2, OrderSound, TokenEndIInv

\* A fill of a buy, paid from its token.
LEMMA FillBuyIInv ==
    ASSUME IInv, NEW m \in Markets, NEW won \in Amounts, NEW vol \in Volumes,
           NEW price \in Prices, CallFinalizeFillBuy(m, won, vol, price)
    PROVE  IInv'
<1> DEFINE w == FinalizeFillBuy(wallets[m], won, vol, price)
<1>1. won \in Int /\ vol \in Int /\ price \in Int /\ WalletOK(wallets[m])
  BY LedgerAssumption, CallFacts
<1>2. WalletOK(w) /\ Total(w) = Total(wallets[m])
  BY <1>1, FillBuySound
<1>3. Call(m, w) /\ spent' = spent /\ received' = received
  BY DEF CallFinalizeFillBuy
<1> HIDE DEF w
<1>4. Total(w) = Total(wallets[m]) - 0 + 0
  BY <1>2, CallFacts
<1>5. Effect(m, w, 0, 0)
  BY <1>2, <1>3, <1>4, CallFacts DEF Effect
<1> QED
  BY <1>5, CallIInv

\* A fill of a sell: what is received and what is available grow alike.
LEMMA FillSellIInv ==
    ASSUME IInv, NEW m \in Markets, NEW vol \in Volumes, NEW won \in Amounts,
           CallFinalizeFillSell(m, vol, won)
    PROVE  IInv'
<1> DEFINE w == FinalizeFillSell(wallets[m], vol, won)
           e == IF vol > 0 /\ won >= 0 THEN won ELSE 0
<1>1. won \in Int /\ vol \in Int /\ WalletOK(wallets[m])
  BY LedgerAssumption, CallFacts
<1>2. /\ WalletOK(w) /\ w.token = wallets[m].token /\ w.reserved = wallets[m].reserved
      /\ w.available = IF vol > 0 /\ won >= 0 THEN wallets[m].available + won
                       ELSE wallets[m].available
  BY <1>1, FillSellSound
<1>3. Call(m, w) /\ spent' = spent
  BY DEF CallFinalizeFillSell
<1>4. received' = [received EXCEPT ![m] = @ + e]
  <2>1. received[m] \in Int /\ received \in [Markets -> Int]
    BY CallFacts
  <2>2. (IF vol > 0 /\ won >= 0 THEN received[m] + won ELSE received[m]) = received[m] + e
    BY <1>1, <2>1
  <2>3. received' = [received EXCEPT ![m] =
                        IF vol > 0 /\ won >= 0 THEN received[m] + won ELSE received[m]]
    BY DEF CallFinalizeFillSell
  <2> QED
    BY <2>2, <2>3
<1>5. e \in Int
  BY <1>1
<1>6. w.available = wallets[m].available + e
  BY <1>1, <1>2, CallFacts
<1> HIDE DEF w, e
<1>7. Total(w) = Total(wallets[m]) - 0 + e
  <2>1. /\ wallets[m].available \in Int /\ wallets[m].reserved \in Int
        /\ wallets[m].token.consumed \in Int
    BY CallFacts
  <2>2. Total(w) = (wallets[m].available + e) + wallets[m].reserved
                      + wallets[m].token.consumed
    BY <1>2, <1>6 DEF Total
  <2>3. Total(wallets[m]) = wallets[m].available + wallets[m].reserved
                               + wallets[m].token.consumed
    BY DEF Total
  <2> QED
    BY <1>5, <2>1, <2>2, <2>3
<1>8. spent' = [spent EXCEPT ![m] = @ + 0] /\ 0 \in Int /\ WalletOK(w)
  BY <1>2, <1>3, CallFacts
<1>9. Effect(m, w, 0, e)
  BY <1>3, <1>4, <1>7, <1>8 DEF Effect
<1> QED
  BY <1>5, <1>9, CallIInv

\* The end of a sell moves no KRW, though it may write off dust.
LEMMA SellOrderIInv ==
    ASSUME IInv, NEW m \in Markets, NEW mark \in Prices, CallFinalizeSellOrder(m, mark)
    PROVE  IInv'
<1> DEFINE w == FinalizeSellOrder(wallets[m], mark)
<1>1. mark \in Int /\ WalletOK(wallets[m])
  BY LedgerAssumption, CallFacts
<1>2. /\ WalletOK(w) /\ w.token = wallets[m].token
      /\ w.reserved = wallets[m].reserved /\ w.available = wallets[m].available
  BY <1>1, SellOrderSound
<1>3. Call(m, w) /\ spent' = spent /\ received' = received
  BY DEF CallFinalizeSellOrder
<1> HIDE DEF w
<1>4. Total(w) = Total(wallets[m]) - 0 + 0
  BY <1>2, CallFacts DEF Total
<1>5. Effect(m, w, 0, 0)
  BY <1>2, <1>3, <1>4, CallFacts DEF Effect
<1> QED
  BY <1>5, CallIInv

----------------------------------------------------------------------------

\* Every call of a worker and every synchronisation keeps the invariant.
LEMMA NextIInv == IInv /\ [Next]_vars => IInv'
<1> SUFFICES ASSUME IInv, [Next]_vars PROVE IInv'
  OBVIOUS
<1>1. ASSUME NEW acc \in Accounts, FirstSync(acc) PROVE IInv'
  BY <1>1, SyncIInv DEF FirstSync
<1>2. ASSUME NEW acc \in Accounts, FinalSync(acc) PROVE IInv'
  BY <1>2, SyncIInv DEF FinalSync
<1>3. CASE FinalSyncFails
  BY <1>3 DEF FinalSyncFails, IInv, TypeOK, WalletsOK, Balanced, Owed, Untraded
<1>4. ASSUME NEW m \in Markets, Worker(m) PROVE IInv'
  BY <1>4, ReserveIInv, ReleaseIInv, FillBuyIInv, FinalizeOrderIInv, FillSellIInv,
     SellOrderIInv DEF Worker
<1>5. CASE UNCHANGED vars
  BY <1>5 DEF vars, IInv, TypeOK, WalletsOK, Balanced, Owed, Untraded
<1> QED
  BY <1>1, <1>2, <1>3, <1>4, <1>5 DEF Next, StartUp

\* The invariant holds of every reachable state of the ledger.
LEMMA LedgerInvariant == Spec => []IInv
<1> QED
  BY InitIInv, NextIInv, PTL DEF Spec

\* The AccountManager's state keeps its shape under every call
\* (AccountManager.h:20-66).
THEOREM LedgerTypeCorrect == Spec => []TypeOK
<1>1. IInv => TypeOK
  BY DEF IInv
<1> QED
  BY <1>1, LedgerInvariant, PTL

\* Whatever fills, releases and ends of orders are reported, in whatever order,
\* the budget's reserved KRW is what the engine's token has left
\* (AccountManager.cpp:206-408).
THEOREM ReservationsBacked == Spec => []ReservedIsBacked
  BY IInvImplies, LedgerInvariant, PTL

\* No sequence of AccountManager calls creates or loses KRW, where the KRW of an
\* oversell counts as received, as the code books it (AccountManager.cpp:160-408).
THEOREM LedgerConservesKrw == Spec => []KrwConserved
  BY IInvImplies, LedgerInvariant, PTL

\* No market ever spends KRW it does not have (AccountManager.cpp:160-194).
THEOREM LedgerNeverOverdrawn == Spec => []NeverOverdrawn
  BY IInvImplies, LedgerInvariant, PTL

----------------------------------------------------------------------------
(* The split of the KRW among the markets *)

\* SplitWithinAccount, in the start-up phases too.
SplitOK ==
    /\ TotalKrw(allotted) <= free
    /\ ops = 0 => \A m \in Markets : wallets[m].coin >= CoinEpsilon => allotted[m] = 0

\* Nothing is split at first.
LEMMA InitSplit == Init => SplitOK
<1> SUFFICES ASSUME Init PROVE SplitOK
  OBVIOUS
<1> DEFINE g == [m \in Markets |-> 0]
           c == 0
           T == {}
<1>1. IsFiniteSet(Markets) /\ T \in SUBSET Markets /\ c \in Nat
  BY AccountAssumption
<1>2. Splits(g, Markets, T, c) /\ DOMAIN g = Markets
  BY DEF Splits
<1>3. Cardinality(T) * c = 0
  BY FS_EmptySet
<1>4. allotted = g /\ free = 0
  BY DEF Init
<1>5. \A m \in Markets : allotted[m] = 0
  BY <1>4
<1> HIDE DEF g, c, T
<1>6. TotalKrw(g) = 0
  BY <1>1, <1>2, <1>3, FoldOfSplit
<1> QED
  BY <1>4, <1>5, <1>6 DEF SplitOK

\* Only a rebuild splits KRW.
LEMMA NextSplit == IInv /\ SplitOK /\ [Next]_vars => SplitOK'
<1> SUFFICES ASSUME IInv, SplitOK, [Next]_vars PROVE SplitOK'
  OBVIOUS
<1>1. ASSUME NEW acc \in Accounts, RebuildAccountOnStartup(acc), phase # "running"
      PROVE  SplitOK'
  <2>1. acc \in Account
    BY LedgerAssumption
  <2>2. wallets \in [Markets -> Wallet] /\ \A m \in Markets : wallets[m].token = NoToken
    BY <1>1 DEF IInv, TypeOK, Untraded
  <2>3. /\ wallets' = RebuildFromAccount(wallets, acc) /\ free' = acc.krw
        /\ allotted' = [m \in Markets |-> wallets'[m].available]
    BY <1>1 DEF RebuildAccountOnStartup
  <2> DEFINE wr == wallets'
  <2>4. wr = RebuildFromAccount(wallets, acc)
    BY <2>3
  <2> HIDE DEF wr
  <2>5. /\ TotalKrw([m \in Markets |-> wr[m].available]) <= acc.krw
        /\ \A m \in Markets : wr[m].coin >= CoinEpsilon => wr[m].available = 0
    BY <2>1, <2>2, <2>4, RebuildSplit
  <2> QED
    BY <2>3, <2>5 DEF wr, SplitOK
<1>2. ASSUME NEW m \in Markets, Worker(m) PROVE SplitOK'
  <2>1. ops' = ops + 1 /\ ops \in Nat /\ free' = free /\ allotted' = allotted
    BY <1>2 DEF IInv, TypeOK, Worker, Call, CallReserve, CallRelease, CallFinalizeFillBuy,
                CallFinalizeOrder, CallFinalizeFillSell, CallFinalizeSellOrder
  <2>2. ops' # 0
    BY <2>1
  <2> QED
    BY <2>1, <2>2 DEF SplitOK
<1>3. CASE FinalSyncFails
  BY <1>3 DEF FinalSyncFails, SplitOK
<1>4. CASE UNCHANGED vars
  BY <1>4 DEF vars, SplitOK
<1> QED
  BY <1>1, <1>2, <1>3, <1>4 DEF Next, StartUp, FirstSync, FinalSync

\* The equal split at start-up hands out no more KRW than the account has free,
\* whatever the account and however many markets, and none to a market that
\* starts with coin (AccountManager.cpp:426-488).
THEOREM LedgerSplitsWithin == Spec => []SplitWithinAccount
<1>1. SplitOK => SplitWithinAccount
  BY DEF SplitOK, SplitWithinAccount
<1> QED
  BY <1>1, InitSplit, NextSplit, LedgerInvariant, PTL DEF Spec

----------------------------------------------------------------------------
(* The start-up after a crash (StartupRecovery).  RInv is the inductive       *)
(* invariant: what the budgets promise, what is still open among the markets  *)
(* not yet recovered (LeftoversAhead), and that the strategies of the         *)
(* recovered ones have the position they were told (PositionsRead).           *)

\* Wallets without tokens.
BudgetsSound ==
    /\ Promised(budgets) \in Nat
    /\ \A m \in Markets : WalletOK(budgets[m]) /\ budgets[m].token = NoToken

\* A live order has something left to trade.
LiveLeft == \A o \in AllOrders : Live(o) => orders[o].left >= 1

RBase == RecoveryTypeOK /\ BudgetsSound /\ LiveLeft

\* The open orders of the bot, those of S aside, are of markets from index i on.
OpenFrom(i, S) ==
    \A o \in BotOrders \ S :
        orders[o].state = "open" =>
            \E j \in i..Len(MarketSeq) : orders[o].market = MarketSeq[j]

LeftoversAhead ==
    /\ found \subseteq BotOrders
    /\ step = "sync1" => next = 1
    /\ clean /\ step = "list" => OpenFrom(next, {})
    /\ clean /\ step = "cancel" => OpenFrom(next + 1, found)
    /\ clean /\ step = "position" => OpenFrom(next + 1, {})
    /\ clean /\ step \in {"sync2", "running"} =>
           \A o \in BotOrders : orders[o].state # "open"

\* The position that getMyAccount reports for n free coins.
Pos(n) == [free |-> n, avg |-> IF n = 0 THEN 0 ELSE Price]

TookOver(m) == m \notin moved => strategy[m] = SyncOnStart(Pos(coin[m]))

PositionsRead ==
    /\ clean /\ step \in {"list", "cancel", "position"} =>
           \A i \in 1..(next - 1) : TookOver(MarketSeq[i])
    /\ clean /\ step = "sync2" => \A m \in Markets : TookOver(m)

RInv == RBase /\ LeftoversAhead /\ PositionsRead /\ BudgetsFunded /\ PositionTaken

----------------------------------------------------------------------------

\* The markets are numbered from 1.
LEMMA Numbered ==
    /\ Len(MarketSeq) \in Nat /\ DOMAIN MarketSeq = 1..Len(MarketSeq)
    /\ \A i \in 1..Len(MarketSeq) : MarketSeq[i] \in Markets
    /\ \A m \in Markets : \E i \in 1..Len(MarketSeq) : MarketSeq[i] = m
    /\ 1 \in DOMAIN MarketSeq
<1>1. MarketSeq \in Seq(Markets) /\ Markets = {MarketSeq[i] : i \in DOMAIN MarketSeq}
  BY RecoveryAssumption
<1>2. Len(MarketSeq) \in Nat /\ DOMAIN MarketSeq = 1..Len(MarketSeq)
  BY <1>1
<1>3. \A m \in Markets : \E i \in 1..Len(MarketSeq) : MarketSeq[i] = m
  BY <1>1, <1>2
<1>4. PICK m \in Markets : TRUE
  BY AccountAssumption
<1>5. 1 \in DOMAIN MarketSeq
  BY <1>2, <1>3, <1>4
<1>6. \A i \in 1..Len(MarketSeq) : MarketSeq[i] \in Markets
  BY <1>1, <1>2
<1> QED
  BY <1>2, <1>3, <1>5, <1>6

\* What getMyAccount reports is an account.
LEMMA ReportIs ==
    ASSUME RecoveryTypeOK
    PROVE  /\ Report \in Account /\ Report.krw = krw
           /\ \A m \in Markets : Report.pos[m] = Pos(coin[m])
<1>1. krw \in Nat /\ coin \in [Markets -> Nat]
  BY DEF RecoveryTypeOK
<1>2. Price \in Nat
  BY RecoveryAssumption
<1>3. Report.krw = krw /\ \A m \in Markets : Report.pos[m] = Pos(coin[m])
  BY DEF Report, Pos
<1>4. \A m \in Markets : Pos(coin[m]) \in [free : Nat, avg : Nat]
  BY <1>1, <1>2 DEF Pos
<1>5. Report = [krw |-> krw, pos |-> [m \in Markets |-> Pos(coin[m])]]
  BY DEF Report, Pos
<1>6. Report \in Account
  BY <1>1, <1>4, <1>5 DEF Account
<1> QED
  BY <1>3, <1>6

\* A new process starts with empty budgets.
LEMMA EmptyBudgets ==
    ASSUME NEW ws, ws = Construct(EmptyAccount)
    PROVE  /\ ws \in [Markets -> Wallet] /\ Promised(ws) = 0
           /\ \A m \in Markets : /\ WalletOK(ws[m]) /\ ws[m].token = NoToken
                                 /\ ws[m].coin = 0
<1>1. \A m \in Markets : /\ WalletOK(ws[m]) /\ ws[m].token = NoToken
                         /\ ws[m].coin = 0 /\ ws[m].available = 0
  BY ConstructEmpty
<1>2. ws = [m \in Markets |-> ws[m]]
  BY DEF Construct
<1>3. ws \in [Markets -> Wallet]
  BY <1>1, <1>2 DEF WalletOK
<1> DEFINE c == 0
           T == {}
<1>4. c \in Nat /\ T \in SUBSET Markets /\ Splits([m \in Markets |-> ws[m].available], Markets, T, c)
  BY <1>1 DEF Splits
<1>5. Cardinality(T) * c = 0
  BY FS_EmptySet
<1> HIDE DEF c, T
<1>6. Promised(ws) = 0
  BY <1>4, <1>5, SumOfSplit
<1> QED
  BY <1>1, <1>3, <1>6

\* A rebuild from the reported account.
LEMMA RebuiltBudgets ==
    ASSUME RBase, NEW ws, ws = RebuildFromAccount(budgets, Report)
    PROVE  /\ ws \in [Markets -> Wallet] /\ Promised(ws) \in Nat /\ Promised(ws) <= krw
           /\ \A m \in Markets :
                 /\ WalletOK(ws[m]) /\ ws[m].token = NoToken
                 /\ ws[m].coin = IF CoinValue(Pos(coin[m])) >= InitDust THEN coin[m] ELSE 0
                 /\ ws[m].avg = IF CoinValue(Pos(coin[m])) >= InitDust
                                THEN Pos(coin[m]).avg ELSE 0
<1>1. /\ Report \in Account /\ Report.krw = krw
      /\ \A m \in Markets : Report.pos[m] = Pos(coin[m])
  BY ReportIs DEF RBase
<1>2. budgets \in [Markets -> Wallet] /\ \A m \in Markets : budgets[m].token = NoToken
  BY DEF RBase, RecoveryTypeOK, BudgetsSound
<1> DEFINE acc == Report
<1>3. ws = RebuildFromAccount(budgets, acc) /\ acc \in Account
  BY <1>1
<1>4. acc.krw = krw /\ \A m \in Markets : acc.pos[m] = Pos(coin[m])
  BY <1>1
<1> HIDE DEF acc
<1>5. Promised(ws) \in Nat /\ Promised(ws) <= acc.krw
  BY <1>2, <1>3, RebuildSplit
<1>6. \A m \in Markets : /\ WalletOK(ws[m]) /\ ws[m].token = NoToken
                         /\ ws[m].coin = KeptCoin(acc, m) /\ ws[m].avg = KeptPrice(acc, m)
  BY <1>2, <1>3, RebuildSound
<1>7. ws = [m \in Markets |-> ws[m]]
  BY <1>3 DEF RebuildFromAccount
<1>8. ws \in [Markets -> Wallet]
  BY <1>6, <1>7 DEF WalletOK
<1>9. \A m \in Markets : Pos(coin[m]).free = coin[m]
  BY DEF Pos
<1> QED
  BY <1>4, <1>5, <1>6, <1>8, <1>9 DEF KeptCoin, KeptPrice

----------------------------------------------------------------------------
(* Steps of the exchange *)

\* Orders only end: none opens, none changes its market.
OrdersEnd(x, y) ==
    /\ y \in [AllOrders -> ExOrder]
    /\ \A o \in AllOrders :
          /\ y[o].state \in {"open", "cancelling"} => y[o].left >= 1
          /\ y[o].market = x[o].market
          /\ y[o].state = "open" => x[o].state = "open"

\* Balances only grow, and only in markets that are marked as moved.
ExchangeMoves ==
    /\ UNCHANGED process
    /\ krw' \in Nat /\ krw <= krw'
    /\ coin' \in [Markets -> Nat] /\ \A m \in Markets : coin[m] <= coin'[m]
    /\ moved \subseteq moved' /\ moved' \subseteq Markets
    /\ \A m \in Markets \ moved' : coin'[m] = coin[m]
    /\ OrdersEnd(orders, orders')

\* The fields of an order of the exchange.
LEMMA ExOrderFields ==
    ASSUME NEW x \in ExOrder
    PROVE  /\ x.state \in {"unused", "open", "cancelling", "ended"}
           /\ x.market \in Markets /\ x.side \in {"BID", "ASK"} /\ x.left \in Nat
BY DEF ExOrder

\* One order is replaced by a later version of itself.
LEMMA OneOrderEnds ==
    ASSUME RBase, NEW o \in AllOrders, NEW y \in ExOrder,
           orders' = [orders EXCEPT ![o] = y], y.market = orders[o].market,
           y.state = "open" => orders[o].state = "open",
           y.state \in {"open", "cancelling"} => y.left >= 1
    PROVE  OrdersEnd(orders, orders')
<1>1. orders \in [AllOrders -> ExOrder]
  BY DEF RBase, RecoveryTypeOK
<1>2. orders' \in [AllOrders -> ExOrder]
  BY <1>1
<1>3. \A p \in AllOrders : orders'[p] = IF p = o THEN y ELSE orders[p]
  BY <1>1
<1>4. \A p \in AllOrders : orders[p].state \in {"open", "cancelling"} => orders[p].left >= 1
  BY DEF RBase, LiveLeft, Live
<1> QED
  BY <1>2, <1>3, <1>4 DEF OrdersEnd

\* One unit of one market more.
LEMMA OneCoinMore ==
    ASSUME RecoveryTypeOK, NEW m \in Markets, NEW n \in Nat,
           coin' = coin \/ coin' = [coin EXCEPT ![m] = @ + n]
    PROVE  /\ coin' \in [Markets -> Nat] /\ \A k \in Markets : coin[k] <= coin'[k]
           /\ \A k \in Markets : k # m => coin'[k] = coin[k]
<1>1. coin \in [Markets -> Nat]
  BY DEF RecoveryTypeOK
<1>2. CASE coin' = coin
  BY <1>1, <1>2
<1>3. CASE coin' = [coin EXCEPT ![m] = @ + n]
  <2>1. coin[m] \in Nat /\ coin[m] + n \in Nat /\ coin[m] <= coin[m] + n
    BY <1>1
  <2>2. coin' = [coin EXCEPT ![m] = coin[m] + n]
    BY <1>3
  <2> QED
    BY <1>1, <2>1, <2>2
<1> QED
  BY <1>2, <1>3

\* A trade of an order.
LEMMA FillMoves ==
    ASSUME RBase, NEW o \in AllOrders, Fill(o)
    PROVE  ExchangeMoves
<1> DEFINE x == orders[o]
           n == x.left - 1
           s == IF x.left = 1 THEN "ended" ELSE x.state
           y == [x EXCEPT !.left = n, !.state = s]
<1>1. orders \in [AllOrders -> ExOrder] /\ krw \in Nat /\ moved \subseteq Markets
  BY DEF RBase, RecoveryTypeOK
<1>2. x \in ExOrder /\ x.state \in {"open", "cancelling"} /\ x.left >= 1
  BY <1>1 DEF RBase, LiveLeft, Live, Fill
<1>3. orders' = [orders EXCEPT ![o] = y]
  BY <1>1 DEF Fill
<1>4. /\ krw' = (IF x.side = "ASK" THEN krw + Price ELSE krw) /\ UNCHANGED process
      /\ moved' = moved \cup {x.market}
      /\ coin' = IF x.side = "BID" THEN [coin EXCEPT ![x.market] = @ + 1] ELSE coin
  BY DEF Fill
<1> HIDE DEF x
<1>5. x.market \in Markets /\ x.left \in Nat
  BY <1>2, ExOrderFields
<1>6. n \in Nat /\ s \in {"unused", "open", "cancelling", "ended"}
      /\ (s \in {"open", "cancelling"} => n >= 1) /\ (s = "open" => x.state = "open")
  BY <1>2, <1>5
<1>7. y \in ExOrder /\ y.state = s /\ y.left = n /\ y.market = x.market
  <2>1. y = [x EXCEPT !.left = n, !.state = s]
    OBVIOUS
  <2> HIDE DEF n, s, y
  <2> QED
    BY <1>2, <1>6, <2>1 DEF ExOrder
<1> HIDE DEF y, n, s
<1>8. OrdersEnd(orders, orders')
  BY <1>3, <1>6, <1>7, OneOrderEnds DEF x
<1>9. krw' \in Nat /\ krw <= krw'
  BY <1>1, <1>4, RecoveryAssumption
<1>10. /\ coin' \in [Markets -> Nat] /\ \A k \in Markets : coin[k] <= coin'[k]
       /\ \A k \in Markets : k # x.market => coin'[k] = coin[k]
  BY <1>4, <1>5, OneCoinMore DEF RBase
<1> QED
  BY <1>1, <1>4, <1>5, <1>8, <1>9, <1>10 DEF ExchangeMoves

\* The end of an order frees what it has left.
LEMMA CancelledMoves ==
    ASSUME RBase, NEW o \in AllOrders, Cancelled(o)
    PROVE  ExchangeMoves
<1> DEFINE x == orders[o]
           y == [x EXCEPT !.state = "ended"]
<1>1. orders \in [AllOrders -> ExOrder] /\ krw \in Nat /\ moved \subseteq Markets
  BY DEF RBase, RecoveryTypeOK
<1>2. x \in ExOrder
  BY <1>1
<1>3. orders' = [orders EXCEPT ![o] = y]
  BY <1>1 DEF Cancelled
<1>4. /\ krw' = (IF x.side = "BID" THEN krw + x.left * Price ELSE krw)
      /\ UNCHANGED process /\ moved' = moved \cup {x.market}
      /\ coin' = IF x.side = "ASK" THEN [coin EXCEPT ![x.market] = @ + x.left] ELSE coin
  BY DEF Cancelled
<1> HIDE DEF x
<1>5. x.market \in Markets /\ x.left \in Nat
  BY <1>2, ExOrderFields
<1>6. y \in ExOrder /\ y.state = "ended" /\ y.market = x.market
  BY <1>2 DEF ExOrder
<1> HIDE DEF y
<1>7. OrdersEnd(orders, orders')
  BY <1>3, <1>6, OneOrderEnds DEF x
<1>8. krw' \in Nat /\ krw <= krw'
  <2> DEFINE n == x.left
  <2>1. n \in Nat /\ krw' = IF x.side = "BID" THEN krw + n * Price ELSE krw
    BY <1>4, <1>5
  <2> HIDE DEF n
  <2>2. n * Price \in Nat
    BY <2>1, RecoveryAssumption
  <2> QED
    BY <1>1, <2>1, <2>2
<1>9. /\ coin' \in [Markets -> Nat] /\ \A k \in Markets : coin[k] <= coin'[k]
      /\ \A k \in Markets : k # x.market => coin'[k] = coin[k]
  BY <1>4, <1>5, OneCoinMore DEF RBase
<1> QED
  BY <1>1, <1>4, <1>5, <1>7, <1>8, <1>9 DEF ExchangeMoves

\* Whatever the exchange does, the invariant stays.
LEMMA ExchangeKeeps ==
    ASSUME RInv, ExchangeMoves
    PROVE  RInv'
<1>1. UNCHANGED process /\ OrdersEnd(orders, orders')
  BY DEF ExchangeMoves
<1>2. UNCHANGED <<step, next, found, budgets, strategy, clean>>
  BY <1>1 DEF process
<1>3. RBase'
  <2>1. RecoveryTypeOK'
    BY <1>1, <1>2 DEF RInv, RBase, RecoveryTypeOK, ExchangeMoves, OrdersEnd
  <2>2. BudgetsSound'
    BY <1>2 DEF RInv, RBase, BudgetsSound
  <2>3. LiveLeft'
    BY <1>1 DEF OrdersEnd, LiveLeft, Live
  <2> QED
    BY <2>1, <2>2, <2>3 DEF RBase
<1>4. LeftoversAhead'
  <2>1. \A o \in BotOrders : o \in AllOrders
    BY DEF AllOrders
  <2>2. \A o \in BotOrders : /\ orders'[o].market = orders[o].market
                             /\ orders'[o].state = "open" => orders[o].state = "open"
    BY <1>1, <2>1 DEF OrdersEnd
  <2>3. LeftoversAhead
    BY DEF RInv
  <2> QED
    BY <1>2, <2>2, <2>3 DEF LeftoversAhead, OpenFrom
<1>5. \A m \in Markets : TookOver(m) => TookOver(m)'
  BY <1>2 DEF TookOver, ExchangeMoves
<1>6. PositionsRead'
  <2>1. \A i \in 1..(next - 1) : MarketSeq[i] \in Markets
    BY Numbered DEF RInv, RBase, RecoveryTypeOK
  <2> QED
    BY <1>2, <1>5, <2>1 DEF RInv, PositionsRead
<1>7. BudgetsFunded'
  <2>1. CASE step = "trading"
    BY <1>2, <2>1 DEF BudgetsFunded
  <2>2. CASE step # "trading"
    <3>1. Promised(budgets) <= krw /\ \A m \in Markets : budgets[m].coin <= coin[m]
      BY <2>2 DEF RInv, BudgetsFunded
    <3>2. /\ krw \in Nat /\ coin \in [Markets -> Nat] /\ krw' \in Nat /\ krw <= krw'
          /\ coin' \in [Markets -> Nat] /\ \A m \in Markets : coin[m] <= coin'[m]
      BY DEF ExchangeMoves, RInv, RBase, RecoveryTypeOK
    <3>3. \A m \in Markets : budgets[m].coin \in Int
      BY WalletFields DEF RInv, RBase, RecoveryTypeOK
    <3>4. budgets' = budgets
      BY <1>2
    <3> QED
      <4>1. Promised(budgets) \in Nat
        BY DEF RInv, RBase, BudgetsSound
      <4>2. Promised(budgets) <= krw'
        BY <3>1, <3>2, <4>1
      <4>3. \A m \in Markets : budgets[m].coin <= coin'[m]
        BY <3>1, <3>2, <3>3
      <4> QED
        BY <3>4, <4>2, <4>3 DEF BudgetsFunded
  <2> QED
    BY <2>1, <2>2
<1>8. PositionTaken'
  BY <1>2 DEF RInv, PositionTaken, ExchangeMoves
<1> QED
  BY <1>3, <1>4, <1>6, <1>7, <1>8 DEF RInv

----------------------------------------------------------------------------
(* Steps of the constructor *)

\* A new process: nothing is promised and nothing is read.
LEMMA NewProcessKeeps ==
    ASSUME RInv, Crash
    PROVE  RInv'
<1>1. /\ step' = "sync1" /\ next' = 1 /\ found' = {} /\ clean' = TRUE /\ moved' = {}
      /\ budgets' = Construct(EmptyAccount)
      /\ strategy' = [m \in Markets |-> [state |-> "Flat", entry |-> 0]]
      /\ UNCHANGED <<orders, krw, coin>>
  BY DEF Crash, NewProcess, exchange
<1> DEFINE ws == budgets'
<1>2. ws = Construct(EmptyAccount)
  BY <1>1
<1> HIDE DEF ws
<1>3. /\ ws \in [Markets -> Wallet] /\ Promised(ws) = 0
      /\ \A m \in Markets : WalletOK(ws[m]) /\ ws[m].token = NoToken /\ ws[m].coin = 0
  BY <1>2, EmptyBudgets
<1>4. RBase'
  <2>1. RecoveryTypeOK'
    BY <1>1, <1>3, Numbered DEF ws, RInv, RBase, RecoveryTypeOK
  <2>2. BudgetsSound' /\ LiveLeft'
    BY <1>1, <1>3 DEF ws, RInv, RBase, BudgetsSound, LiveLeft, Live
  <2> QED
    BY <2>1, <2>2 DEF RBase
<1>5. LeftoversAhead' /\ PositionsRead' /\ PositionTaken'
  BY <1>1 DEF LeftoversAhead, PositionsRead, PositionTaken
<1>6. BudgetsFunded'
  <2>1. krw \in Nat /\ coin \in [Markets -> Nat]
    BY DEF RInv, RBase, RecoveryTypeOK
  <2>2. Promised(ws) <= krw /\ \A m \in Markets : ws[m].coin <= coin[m]
    BY <1>3, <2>1
  <2> QED
    BY <1>1, <2>2 DEF ws, BudgetsFunded
<1> QED
  BY <1>4, <1>5, <1>6 DEF RInv

\* A synchronisation that succeeds.
LEMMA RebuildKeeps ==
    ASSUME RInv, FirstRebuild \/ LastRebuild
    PROVE  RInv'
<1> DEFINE ws == budgets'
<1>1. /\ ws = RebuildFromAccount(budgets, Report)
      /\ UNCHANGED <<next, found, strategy, clean, moved, orders, krw, coin>>
      /\ \/ step = "sync1" /\ step' = "list"
         \/ step = "sync2" /\ step' = "running"
  BY DEF FirstRebuild, LastRebuild, exchange
<1> HIDE DEF ws
<1>2. /\ ws \in [Markets -> Wallet] /\ Promised(ws) \in Nat /\ Promised(ws) <= krw
      /\ \A m \in Markets :
            /\ WalletOK(ws[m]) /\ ws[m].token = NoToken
            /\ ws[m].coin = IF CoinValue(Pos(coin[m])) >= InitDust THEN coin[m] ELSE 0
            /\ ws[m].avg = IF CoinValue(Pos(coin[m])) >= InitDust
                           THEN Pos(coin[m]).avg ELSE 0
  BY <1>1, RebuiltBudgets DEF RInv
<1>3. coin \in [Markets -> Nat]
  BY DEF RInv, RBase, RecoveryTypeOK
<1>4. RBase'
  <2>1. RecoveryTypeOK'
    BY <1>1, <1>2 DEF ws, RInv, RBase, RecoveryTypeOK
  <2>2. BudgetsSound' /\ LiveLeft'
    BY <1>1, <1>2 DEF ws, RInv, RBase, BudgetsSound, LiveLeft, Live
  <2> QED
    BY <2>1, <2>2 DEF RBase
<1>5. LeftoversAhead'
  <2>1. CASE step = "sync2"
    BY <1>1, <2>1 DEF RInv, LeftoversAhead
  <2>2. CASE step = "sync1"
    <3>1. step' = "list" /\ next' = 1
      BY <1>1, <2>2 DEF RInv, LeftoversAhead
    <3>2. \A o \in BotOrders : orders'[o].market \in Markets
      BY <1>1, ExOrderFields DEF RInv, RBase, RecoveryTypeOK, AllOrders
    <3>3. OpenFrom(next, {})'
      BY <3>1, <3>2, Numbered DEF OpenFrom
    <3> QED
      BY <1>1, <3>1, <3>3 DEF RInv, LeftoversAhead
  <2> QED
    BY <1>1, <2>1, <2>2
<1>6. PositionsRead'
  BY <1>1 DEF RInv, PositionsRead, LeftoversAhead
<1>7. BudgetsFunded'
  <2>1. \A m \in Markets : ws[m].coin <= coin[m]
    BY <1>2, <1>3
  <2> QED
    BY <1>1, <1>2, <2>1 DEF ws, BudgetsFunded
<1>8. PositionTaken'
  <2> SUFFICES ASSUME step' = "running", clean, NEW m \in Markets \ moved, ws[m].coin > 0
               PROVE  strategy[m] = [state |-> "InPosition", entry |-> ws[m].avg]
    BY <1>1 DEF ws, PositionTaken
  <2>1. strategy[m] = SyncOnStart(Pos(coin[m]))
    BY <1>1 DEF RInv, PositionsRead, TookOver
  <2>2. coin[m] > 0 /\ ws[m].avg = Pos(coin[m]).avg
    BY <1>2
  <2>3. Pos(coin[m]).free = coin[m] /\ Pos(coin[m]).avg = Price
    BY <1>3, <2>2 DEF Pos
  <2>4. Price > 0
    BY RecoveryAssumption
  <2> QED
    BY <2>1, <2>2, <2>3, <2>4 DEF SyncOnStart
<1> QED
  BY <1>4, <1>5, <1>6, <1>7, <1>8 DEF RInv

\* A step that leaves the account, the budgets, the strategies and the types alone.
LEMMA StepOnly ==
    ASSUME RInv, UNCHANGED <<next, budgets, strategy, moved, orders, krw, coin>>,
           step' \in {"list", "cancel", "position", "sync2", "running", "failed"},
           clean' \in BOOLEAN, found' \in SUBSET AllOrders, step # "trading"
    PROVE  RBase' /\ BudgetsFunded'
<1>1. RecoveryTypeOK'
  BY DEF RInv, RBase, RecoveryTypeOK
<1>2. BudgetsSound' /\ LiveLeft'
  BY DEF RInv, RBase, BudgetsSound, LiveLeft, Live
<1>3. BudgetsFunded'
  BY DEF RInv, BudgetsFunded
<1> QED
  BY <1>1, <1>2, <1>3 DEF RBase

\* A synchronisation that fails.
LEMMA RebuildFailsKeeps ==
    ASSUME RInv, FirstRebuildFails \/ LastRebuildFails
    PROVE  RInv'
<1>1. /\ UNCHANGED <<next, found, budgets, strategy, moved, orders, krw, coin>>
      /\ \/ step = "sync1" /\ step' = "failed" /\ clean' = clean
         \/ step = "sync2" /\ step' = "running" /\ clean' = FALSE
  BY DEF FirstRebuildFails, LastRebuildFails, exchange
<1>2. clean \in BOOLEAN /\ found \in SUBSET AllOrders
  BY DEF RInv, RBase, RecoveryTypeOK
<1>3. RBase' /\ BudgetsFunded'
  BY <1>1, <1>2, StepOnly
<1>4. LeftoversAhead' /\ PositionsRead' /\ PositionTaken'
  BY <1>1 DEF RInv, LeftoversAhead, PositionsRead, PositionTaken
<1> QED
  BY <1>3, <1>4 DEF RInv

\* The list of a market's open orders.
LEMMA ListKeeps ==
    ASSUME RInv, List \/ ListFails
    PROVE  RInv'
<1>1. step = "list" /\ UNCHANGED <<next, budgets, strategy, moved, orders, krw, coin>>
  BY DEF List, ListFails, exchange
<1>2. clean \in BOOLEAN /\ found \in SUBSET AllOrders /\ next \in 1..Len(MarketSeq)
  BY Numbered DEF RInv, RBase, RecoveryTypeOK
<1>3. \/ step' = "cancel" /\ found' = OpenBotOrders(MarketSeq[next]) /\ clean' = clean
      \/ step' = "position" /\ found' = found /\ clean' = FALSE
  BY DEF List, ListFails
<1>4. found' \subseteq BotOrders /\ found' \in SUBSET AllOrders
  BY <1>2, <1>3 DEF OpenBotOrders, AllOrders, RInv, LeftoversAhead
<1>5. RBase' /\ BudgetsFunded'
  BY <1>1, <1>2, <1>3, <1>4, StepOnly
<1>6. PositionsRead' /\ PositionTaken'
  BY <1>1, <1>3 DEF RInv, PositionsRead, PositionTaken, TookOver
<1>7. ASSUME clean', step' = "cancel" PROVE OpenFrom(next + 1, found)'
  <2>1. found' = OpenBotOrders(MarketSeq[next]) /\ clean
    BY <1>3, <1>7
  <2>2. OpenFrom(next, {})
    BY <1>1, <2>1 DEF RInv, LeftoversAhead
  <2> SUFFICES ASSUME NEW o \in BotOrders \ found', orders[o].state = "open"
               PROVE  \E j \in (next + 1)..Len(MarketSeq) : orders[o].market = MarketSeq[j]
    BY <1>1 DEF OpenFrom
  <2>3. orders[o].market # MarketSeq[next]
    BY <2>1 DEF OpenBotOrders, Live
  <2>4. PICK j \in next..Len(MarketSeq) : orders[o].market = MarketSeq[j]
    BY <2>2 DEF OpenFrom
  <2>5. j \in (next + 1)..Len(MarketSeq)
    BY <1>2, <2>3, <2>4
  <2> QED
    BY <2>4, <2>5
<1>8. LeftoversAhead'
  BY <1>1, <1>3, <1>4, <1>7 DEF LeftoversAhead
<1> QED
  BY <1>5, <1>6, <1>8 DEF RInv

\* A cancel, answered or not: an open order may become one that is cancelling.
LEMMA CancelKeeps ==
    ASSUME RInv, NEW o \in AllOrders, Cancel(o) \/ CancelFails(o)
    PROVE  RInv'
<1> DEFINE x == orders[o]
           y == [x EXCEPT !.state = IF x.state = "open" THEN "cancelling" ELSE x.state]
<1>1. /\ step = "cancel" /\ o \in found /\ found' = found \ {o}
      /\ UNCHANGED <<step, next, budgets, strategy, moved, krw, coin>>
      /\ \/ clean' = clean /\ orders' = [orders EXCEPT ![o] = y]
         \/ clean' = FALSE /\ (orders' = [orders EXCEPT ![o] = y] \/ orders' = orders)
  BY DEF Cancel, CancelFails, RInv, RBase, RecoveryTypeOK
<1>2. /\ orders \in [AllOrders -> ExOrder] /\ clean \in BOOLEAN
      /\ found \subseteq BotOrders /\ found \in SUBSET AllOrders
  BY DEF RInv, RBase, RecoveryTypeOK, LeftoversAhead
<1>3. y \in ExOrder /\ y.market = x.market /\ y.state # "open" /\ y.left = x.left
  BY <1>2 DEF ExOrder
<1>4. y.state \in {"open", "cancelling"} => x.state \in {"open", "cancelling"}
  BY <1>2 DEF ExOrder
<1>5. x.state \in {"open", "cancelling"} => x.left >= 1
  BY DEF RInv, RBase, LiveLeft, Live
<1> HIDE DEF y
<1>6. OrdersEnd(orders, [orders EXCEPT ![o] = y])
  <2>1. \A p \in AllOrders : [orders EXCEPT ![o] = y][p] = IF p = o THEN y ELSE orders[p]
    BY <1>2
  <2>2. \A p \in AllOrders : orders[p].state \in {"open", "cancelling"} => orders[p].left >= 1
    BY DEF RInv, RBase, LiveLeft, Live
  <2>3. [orders EXCEPT ![o] = y] \in [AllOrders -> ExOrder]
    BY <1>2, <1>3
  <2> HIDE DEF x
  <2> QED
    BY <1>3, <1>4, <1>5, <2>1, <2>2, <2>3 DEF OrdersEnd, x
<1>7. OrdersEnd(orders, orders)
  BY <1>2 DEF OrdersEnd, RInv, RBase, LiveLeft, Live
<1>8. OrdersEnd(orders, orders')
  BY <1>1, <1>6, <1>7
<1>9. RBase'
  <2>1. RecoveryTypeOK'
    BY <1>1, <1>2, <1>8 DEF RInv, RBase, RecoveryTypeOK, OrdersEnd
  <2>2. BudgetsSound'
    BY <1>1 DEF RInv, RBase, BudgetsSound
  <2>3. LiveLeft'
    BY <1>8 DEF OrdersEnd, LiveLeft, Live
  <2> QED
    BY <2>1, <2>2, <2>3 DEF RBase
<1>10. ASSUME clean' PROVE OpenFrom(next + 1, found)'
  <2>1. clean /\ orders' = [orders EXCEPT ![o] = y]
    BY <1>1, <1>10
  <2>2. OpenFrom(next + 1, found)
    BY <1>1, <2>1 DEF RInv, LeftoversAhead
  <2> SUFFICES ASSUME NEW p \in BotOrders \ found', orders'[p].state = "open"
               PROVE  \E j \in (next + 1)..Len(MarketSeq) : orders'[p].market = MarketSeq[j]
    BY <1>1 DEF OpenFrom
  <2>3. p \in AllOrders /\ p # o
    BY <1>2, <1>3, <2>1 DEF AllOrders
  <2>4. orders'[p] = orders[p] /\ p \in BotOrders \ found
    BY <1>1, <1>2, <2>1, <2>3
  <2> QED
    BY <2>2, <2>4 DEF OpenFrom
<1>11. LeftoversAhead'
  BY <1>1, <1>2, <1>10 DEF LeftoversAhead
<1>12. PositionsRead' /\ PositionTaken' /\ BudgetsFunded'
  BY <1>1 DEF RInv, PositionsRead, PositionTaken, BudgetsFunded, TookOver
<1> QED
  BY <1>9, <1>11, <1>12 DEF RInv

\* All orders of the list were dealt with.
LEMMA CancelsDoneKeeps ==
    ASSUME RInv, CancelsDone
    PROVE  RInv'
<1>1. /\ step = "cancel" /\ found = {} /\ step' = "position"
      /\ UNCHANGED <<next, found, budgets, strategy, clean, moved, orders, krw, coin>>
  BY DEF CancelsDone, exchange
<1>2. clean \in BOOLEAN /\ found \in SUBSET AllOrders
  BY DEF RInv, RBase, RecoveryTypeOK
<1>3. RBase' /\ BudgetsFunded'
  BY <1>1, <1>2, StepOnly
<1>4. LeftoversAhead'
  BY <1>1 DEF RInv, LeftoversAhead, OpenFrom
<1>5. PositionsRead' /\ PositionTaken'
  BY <1>1 DEF RInv, PositionsRead, PositionTaken, TookOver
<1> QED
  BY <1>3, <1>4, <1>5 DEF RInv

\* The position of a market, or none when the call fails.
LEMMA PositionKeeps ==
    ASSUME RInv, Position \/ PositionFails
    PROVE  RInv'
<1> DEFINE m == MarketSeq[next]
           len == Len(MarketSeq)
<1>1. /\ step = "position" /\ UNCHANGED <<found, budgets, orders, krw, coin>>
      /\ moved' = moved \ {m}
      /\ \/ next = len /\ step' = "sync2" /\ next' = next
         \/ next # len /\ step' = "list" /\ next' = next + 1
  BY DEF Position, PositionFails, TakePosition, exchange
<1>2. /\ len \in Nat /\ next \in 1..len /\ m \in Markets /\ coin \in [Markets -> Nat]
      /\ strategy \in [Markets -> [state : {"Flat", "InPosition"}, entry : Nat]]
      /\ clean \in BOOLEAN /\ moved \subseteq Markets
  BY Numbered DEF RInv, RBase, RecoveryTypeOK
<1>3. PICK pos \in [free : Nat, avg : Nat] :
        /\ strategy' = [strategy EXCEPT ![m] = SyncOnStart(pos)]
        /\ \/ clean' = FALSE
           \/ clean' = clean /\ pos = Pos(coin[m])
  <2>1. CASE Position
    <3>1. Report.pos[m] = Pos(coin[m])
      BY <1>2, ReportIs DEF RInv, RBase
    <3>2. Pos(coin[m]) \in [free : Nat, avg : Nat]
      BY <1>2, RecoveryAssumption DEF Pos
    <3> QED
      BY <2>1, <3>1, <3>2 DEF Position, TakePosition
  <2>2. CASE PositionFails
    BY <2>2 DEF PositionFails, TakePosition
  <2> QED
    BY <2>1, <2>2
<1>4. SyncOnStart(pos) \in [state : {"Flat", "InPosition"}, entry : Nat]
  BY DEF SyncOnStart
<1>5. \A k \in Markets : strategy'[k] = IF k = m THEN SyncOnStart(pos) ELSE strategy[k]
  BY <1>2, <1>3
<1> HIDE DEF m
<1>6. next' \in DOMAIN MarketSeq
  <2>1. DOMAIN MarketSeq = 1..len
    BY Numbered
  <2> HIDE DEF len
  <2>2. next' \in 1..len
    BY <1>1, <1>2
  <2> QED
    BY <2>1, <2>2
<1>7. RBase'
  <2>1. strategy' \in [Markets -> [state : {"Flat", "InPosition"}, entry : Nat]]
    BY <1>2, <1>3, <1>4
  <2>2. clean' \in BOOLEAN /\ moved' \in SUBSET Markets
    BY <1>1, <1>2, <1>3
  <2>3. RecoveryTypeOK'
    BY <1>1, <1>6, <2>1, <2>2 DEF RInv, RBase, RecoveryTypeOK
  <2>4. BudgetsSound' /\ LiveLeft'
    BY <1>1 DEF RInv, RBase, BudgetsSound, LiveLeft, Live
  <2> QED
    BY <2>3, <2>4 DEF RBase
<1>8. BudgetsFunded' /\ PositionTaken'
  BY <1>1 DEF RInv, BudgetsFunded, PositionTaken
<1>9. LeftoversAhead'
  <2>1. clean' => OpenFrom(next + 1, {})
    BY <1>1, <1>3 DEF RInv, LeftoversAhead
  <2>2. found \subseteq BotOrders
    BY DEF RInv, LeftoversAhead
  <2>3. CASE next # len
    <3>1. step' = "list" /\ next' = next + 1
      BY <1>1, <2>3
    <3>2. clean' => OpenFrom(next, {})'
      BY <1>1, <2>1, <3>1 DEF OpenFrom
    <3> QED
      BY <1>1, <2>2, <3>1, <3>2 DEF LeftoversAhead
  <2>4. CASE next = len
    <3>1. step' = "sync2"
      BY <1>1, <2>4
    <3>2. (next + 1)..len = {}
      BY <1>2, <2>4
    <3>3. clean' => \A o \in BotOrders : orders'[o].state # "open"
      BY <1>1, <2>1, <3>2 DEF OpenFrom
    <3> QED
      BY <1>1, <2>2, <3>1, <3>3 DEF LeftoversAhead
  <2> QED
    BY <2>3, <2>4
<1>10. ASSUME clean' PROVE \A i \in 1..next : TookOver(MarketSeq[i])'
  <2> SUFFICES ASSUME NEW i \in 1..next, MarketSeq[i] \notin moved'
               PROVE  strategy'[MarketSeq[i]] = SyncOnStart(Pos(coin[MarketSeq[i]]))
    BY <1>1 DEF TookOver
  <2>1. clean /\ pos = Pos(coin[m])
    BY <1>2, <1>3, <1>10
  <2>2. MarketSeq[i] \in Markets
    BY <1>2, Numbered
  <2>3. CASE MarketSeq[i] = m
    BY <1>5, <2>1, <2>2, <2>3
  <2>4. CASE MarketSeq[i] # m
    <3>1. i \in 1..(next - 1)
      BY <1>2, <2>4 DEF m
    <3>2. TookOver(MarketSeq[i]) /\ MarketSeq[i] \notin moved
      BY <1>1, <2>1, <2>4, <3>1 DEF RInv, PositionsRead
    <3> QED
      BY <1>5, <2>2, <2>4, <3>2 DEF TookOver
  <2> QED
    BY <2>3, <2>4
<1>11. PositionsRead'
  <2>1. CASE next # len
    <3>1. step' = "list" /\ next' = next + 1 /\ next' - 1 = next
      BY <1>1, <1>2, <2>1
    <3> QED
      BY <1>10, <3>1 DEF PositionsRead
  <2>2. CASE next = len
    <3>1. step' = "sync2" /\ \A k \in Markets : \E i \in 1..next : MarketSeq[i] = k
      BY <1>1, <2>2, Numbered
    <3> QED
      BY <1>10, <3>1 DEF PositionsRead, TookOver
  <2> QED
    BY <2>1, <2>2
<1> QED
  BY <1>7, <1>8, <1>9, <1>11 DEF RInv

\* The first order of the running bot.
LEMMA PlaceKeeps ==
    ASSUME RInv, NEW o \in BotOrders, NEW m \in Markets, Place(o, m)
    PROVE  RInv'
<1> DEFINE buy == strategy[m].state = "Flat"
           left == IF buy THEN budgets[m].available \div Price ELSE budgets[m].coin
           y == [state |-> "open", market |-> m, left |-> left,
                 side |-> IF buy THEN "BID" ELSE "ASK"]
<1>1. /\ step = "running" /\ step' = "trading" /\ left > 0
      /\ IF buy THEN left * Price <= krw ELSE left <= coin[m]
      /\ orders' = [orders EXCEPT ![o] = y]
      /\ krw' = IF buy THEN krw - left * Price ELSE krw
      /\ coin' = IF buy THEN coin ELSE [coin EXCEPT ![m] = @ - left]
      /\ UNCHANGED <<next, found, budgets, strategy, clean, moved>>
  BY DEF Place
<1>2. /\ orders \in [AllOrders -> ExOrder] /\ krw \in Nat /\ coin \in [Markets -> Nat]
      /\ budgets[m] \in Wallet /\ o \in AllOrders /\ Price \in Nat /\ Price # 0
  BY RecoveryAssumption DEF RInv, RBase, RecoveryTypeOK, AllOrders
<1>3. left \in Nat
  <2>1. budgets[m].available \in Int /\ budgets[m].available >= 0 /\ budgets[m].coin \in Int
    BY <1>2, WalletFields DEF RInv, RBase, BudgetsSound, WalletOK
  <2>2. budgets[m].available \div Price \in Nat
    BY <1>2, <2>1
  <2> QED
    BY <1>1, <2>1, <2>2
<1>4. y \in ExOrder /\ y.left = left
  BY <1>3 DEF ExOrder
<1> HIDE DEF left, y
<1>5. krw' \in Nat
  <2>1. left * Price \in Nat
    BY <1>2, <1>3
  <2> QED
    BY <1>1, <1>2, <2>1
<1>6. coin' \in [Markets -> Nat]
  <2>1. CASE buy
    BY <1>1, <1>2, <2>1
  <2>2. CASE ~buy
    <3>1. coin[m] - left \in Nat /\ coin' = [coin EXCEPT ![m] = coin[m] - left]
      BY <1>1, <1>2, <1>3, <2>2
    <3> QED
      BY <1>2, <3>1
  <2> QED
    BY <2>1, <2>2
<1>7. orders' \in [AllOrders -> ExOrder]
  BY <1>1, <1>2, <1>4
<1>8. RBase'
  <2>1. RecoveryTypeOK'
    BY <1>1, <1>5, <1>6, <1>7 DEF RInv, RBase, RecoveryTypeOK
  <2>2. BudgetsSound'
    BY <1>1 DEF RInv, RBase, BudgetsSound
  <2>3. \A p \in AllOrders : orders'[p] = IF p = o THEN y ELSE orders[p]
    BY <1>1, <1>2
  <2>4. LiveLeft'
    BY <1>1, <1>3, <1>4, <2>3 DEF RInv, RBase, LiveLeft, Live
  <2> QED
    BY <2>1, <2>2, <2>4 DEF RBase
<1>9. LeftoversAhead' /\ PositionsRead' /\ BudgetsFunded' /\ PositionTaken'
  BY <1>1 DEF RInv, LeftoversAhead, PositionsRead, BudgetsFunded, PositionTaken
<1> QED
  BY <1>8, <1>9 DEF RInv

----------------------------------------------------------------------------

\* The account before the first start.
LEMMA InitRInv == RecoveryInit => RInv
<1> SUFFICES ASSUME RecoveryInit PROVE RInv
  OBVIOUS
<1>1. /\ step = "sync1" /\ next = 1 /\ found = {} /\ clean = TRUE /\ moved = {}
      /\ budgets = Construct(EmptyAccount)
      /\ strategy = [m \in Markets |-> [state |-> "Flat", entry |-> 0]]
  BY DEF RecoveryInit
<1>2. krw \in Nat /\ coin \in [Markets -> Nat]
  BY RecoveryAssumption DEF RecoveryInit
<1>3. /\ budgets \in [Markets -> Wallet] /\ Promised(budgets) = 0
      /\ \A m \in Markets : /\ WalletOK(budgets[m]) /\ budgets[m].token = NoToken
                            /\ budgets[m].coin = 0
  BY <1>1, EmptyBudgets
<1>4. orders \in [AllOrders -> ExOrder] /\ LiveLeft
  <2> DEFINE First == [state : {"open"}, market : Markets, side : {"BID", "ASK"}, left : {1}]
  <2>1. orders \in [AllOrders -> {Unused} \cup First]
    BY DEF RecoveryInit
  <2>2. Unused \in ExOrder /\ Unused.state = "unused"
    BY Numbered DEF Unused, ExOrder
  <2>3. \A x \in First : x \in ExOrder /\ x.left = 1
    BY DEF ExOrder
  <2> HIDE DEF First
  <2> QED
    BY <2>1, <2>2, <2>3 DEF LiveLeft, Live
<1>5. RBase
  <2>1. RecoveryTypeOK
    BY <1>1, <1>2, <1>3, <1>4, Numbered DEF RecoveryTypeOK
  <2> QED
    BY <1>3, <1>4, <2>1 DEF RBase, BudgetsSound
<1>6. LeftoversAhead /\ PositionsRead /\ PositionTaken
  BY <1>1 DEF LeftoversAhead, PositionsRead, PositionTaken
<1>7. BudgetsFunded
  BY <1>2, <1>3 DEF BudgetsFunded
<1> QED
  BY <1>5, <1>6, <1>7 DEF RInv

\* Every step of the exchange and of the constructor, and every crash.
LEMMA NextRInv == RInv /\ [RecoveryNext]_recoveryVars => RInv'
<1> SUFFICES ASSUME RInv, [RecoveryNext]_recoveryVars PROVE RInv'
  OBVIOUS
<1>1. ASSUME NEW o \in AllOrders, Fill(o) \/ Cancelled(o) PROVE RInv'
  BY <1>1, FillMoves, CancelledMoves, ExchangeKeeps DEF RInv
<1>2. ASSUME NEW o \in AllOrders, Cancel(o) \/ CancelFails(o) PROVE RInv'
  BY <1>2, CancelKeeps
<1>3. ASSUME NEW o \in BotOrders, NEW m \in Markets, Place(o, m) PROVE RInv'
  BY <1>3, PlaceKeeps
<1>4. CASE FirstRebuild \/ LastRebuild
  BY <1>4, RebuildKeeps
<1>5. CASE FirstRebuildFails \/ LastRebuildFails
  BY <1>5, RebuildFailsKeeps
<1>6. CASE List \/ ListFails
  BY <1>6, ListKeeps
<1>7. CASE CancelsDone
  BY <1>7, CancelsDoneKeeps
<1>8. CASE Position \/ PositionFails
  BY <1>8, PositionKeeps
<1>9. CASE Crash
  BY <1>9, NewProcessKeeps
<1>10. CASE UNCHANGED recoveryVars
  <2>1. UNCHANGED <<step, next, found, budgets, strategy, clean, moved, orders, krw, coin>>
    BY <1>10 DEF recoveryVars, process, exchange
  <2> QED
    BY <2>1 DEF RInv, RBase, RecoveryTypeOK, BudgetsSound, LiveLeft, Live, LeftoversAhead,
                OpenFrom, PositionsRead, TookOver, BudgetsFunded, PositionTaken
<1> QED
  BY <1>1, <1>2, <1>3, <1>4, <1>5, <1>6, <1>7, <1>8, <1>9, <1>10 DEF RecoveryNext

\* The inductive invariant of the start-up.
THEOREM RecoveryInvariant == RecoverySpec => []RInv
  BY InitRInv, NextRInv, PTL DEF RecoverySpec

\* From the first synchronisation until the first order the budgets promise no
\* KRW and no coin that the exchange does not have free, for any number of
\* markets and orders, crashes included (MarketEngineManager.cpp:91-134, 209-243).
THEOREM BudgetsAreFunded == RecoverySpec => []BudgetsFunded
<1>1. RInv => BudgetsFunded
  BY DEF RInv
<1> QED
  BY <1>1, RecoveryInvariant, PTL

\* A start whose calls all succeeded has cancelled every order of earlier
\* processes, in every market (StartupRecovery.cpp:36-106).
THEOREM LeftoversAreCancelled == RecoverySpec => []LeftoversCancelled
<1>1. RInv => LeftoversCancelled
  BY DEF RInv, LeftoversAhead, LeftoversCancelled
<1> QED
  BY <1>1, RecoveryInvariant, PTL

\* A market that did not trade since its position was read starts with the
\* strategy in the position that the budget has (MarketEngineManager.cpp:247-268).
THEOREM PositionsAreTaken == RecoverySpec => []PositionTaken
<1>1. RInv => PositionTaken
  BY DEF RInv
<1> QED
  BY <1>1, RecoveryInvariant, PTL

============================================================================
