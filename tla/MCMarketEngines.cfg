CONSTANTS
    m1 = m1
    m2 = m2
    o1 = o1
    o2 = o2
    t1 = t1
    t2 = t2
    t3 = t3
    NoOrder = NoOrder
    Markets <- MCMarkets
    Orders <- MCOrders
    Trades <- MCTrades
    InitDust = 5000
    KrwDust = 1
    CoinEpsilon = 1
    MarginNum = 1001
    MarginDen = 1000
    MaxSeen = 2
    Accounts <- MCAccounts
    Requests <- MCRequests
    TradeMsgs <- MCTradeMsgs
    Snapshots <- MCSnapshots
    Marks <- MCMarks
    MaxCalls = 5
SPECIFICATION Spec
INVARIANTS
    SlotsConsistent
    StoreOfOwner
    TradeSettledOnce
    ReconcileIdempotent
PROPERTIES
    EndAnnouncedOnce
    ImplementsSlot
CHECK_DEADLOCK FALSE
