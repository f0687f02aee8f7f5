CONSTANTS
    m1 = m1
    MaxOrders = 2
    NoOrder = 0
    Market = m1
    Markets <- MCMarkets
    Orders <- MCOrders
    Trades <- MCTrades
    InitDust = 5000
    KrwDust = 1
    CoinEpsilon = 1
    MarginNum = 1001
    MarginDen = 1000
    MaxSeen = 100
    MinNotional = 5000
    StopPct = 10
    TargetPct = 15
    StartAccount <- MCStartAccount
    Closes <- MCCloses
    FillPrice = 6000
    FillFee = 3
    Faults = {"timeout", "disconnect", "overflow", "lostReply", "restError", "unknownFunds"}
    MaxFaults = 1
SPECIFICATION Spec
INVARIANTS
    StrategyEngineAgree
    PositionMatchesWallet
    BooksExact
    EndedIsRecorded
