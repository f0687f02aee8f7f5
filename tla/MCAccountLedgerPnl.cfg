CONSTANTS
    m1 = m1
    m2 = m2
    Markets <- MCMarkets
    InitDust = 5000
    KrwDust = 1
    CoinEpsilon = 1
    Accounts <- MCAccounts
    Amounts <- MCAmounts
    Volumes <- MCVolumes
    Prices <- MCPrices
    MaxOps = 5
SPECIFICATION Spec
PROPERTY
    PnlIsProfit
CHECK_DEADLOCK FALSE
