CONSTANTS
    m1 = m1
    m2 = m2
    Markets <- MCMarkets
    MarketSeq <- MCMarketSeq
    InitDust = 5000
    KrwDust = 1
    CoinEpsilon = 1
    BotOrders = {b1, b2}
    ForeignOrders = {f1}
    Price = 3000
    StartKrw <- MCStartKrw
    StartCoin <- MCStartCoin
SPECIFICATION RecoverySpec
SYMMETRY Symmetry
INVARIANTS
    BudgetsFunded
    LeftoversCancelled
    PositionTaken
