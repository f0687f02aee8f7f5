CONSTANTS
    Params <- MCParams
    Prices = {0, 2, 3, 6}
    Scale = 6
    MaxTrendStrength = 6
    MinVolatility = 1
    Oversold = 30
    Overbought = 70
    MaxCandles = 7
SPECIFICATION IndicatorSpec
INVARIANTS
    WindowsExact
    RsiExact
    SignalGrounded
CHECK_DEADLOCK FALSE
