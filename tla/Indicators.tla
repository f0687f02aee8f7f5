----------------------------- MODULE Indicators -----------------------------
(***************************************************************************)
(* The indicators (src/trading/indicators) and the snapshot the strategy   *)
(* builds from them for every candle (buildSnapshot in                     *)
(* RsiMeanReversionStrategy.cpp).                                          *)
(*                                                                         *)
(* Numbers are exact.  Every price other than 0 divides Scale, so a return *)
(* (close - prev) / prev is an integer in units of 1/Scale; the averages   *)
(* of the RSI are integers over a power of its length; a standard          *)
(* deviation is compared by its square.                                    *)
(***************************************************************************)
EXTENDS RingBuffer, Sequences, FiniteSets

CONSTANTS
    Params,             \* lengths of the windows: [rsi, trend, vol, sma]
    Prices, Scale,
    MaxTrendStrength,   \* in units of 1/Scale
    MinVolatility,      \* in units of 1/Scale
    Oversold, Overbought,
    MaxCandles          \* bound: candles fed

ASSUME IndicatorAssumption ==
    /\ Params \subseteq [rsi : Nat, trend : Nat, vol : Nat, sma : Nat]
    /\ Scale \in Nat \ {0} /\ Prices \subseteq Nat
    /\ \A c \in Prices \ {0} : Scale % c = 0
    /\ {MaxTrendStrength, MinVolatility, Oversold, Overbought, MaxCandles} \subseteq Nat

VARIABLES
    params,     \* Params of the strategy
    sma, closeN, vol, rsi,
    snapshot,   \* what buildSnapshot returned for the last candle
    taken,      \* candles so far (bounded by MaxCandles)
    hist        \* history: the closes since the last reset

indicatorVars == <<params, sma, closeN, vol, rsi, snapshot, taken, hist>>

NoPrice == -1

Ready(v) == [ready |-> TRUE, v |-> v]
NotReady == [ready |-> FALSE, v |-> 0]

----------------------------------------------------------------------------
(* Sma: the sum over the window; the average is it divided by the length *)

SmaReset(length) == [length |-> length, window |-> Ring(length), sum |-> 0]

SmaClear(s) == [s EXCEPT !.window = ClearRing(@), !.sum = 0]

SmaUpdate(s, x) ==
    IF s.length = 0 THEN s
    ELSE [s EXCEPT !.window = Push(@, x), !.sum = @ - Overwritten(s.window) + x]

SmaValue(s) == IF s.length > 0 /\ Full(s.window) THEN Ready(s.sum) ELSE NotReady

----------------------------------------------------------------------------
(* ClosePriceWindow: close[N] needs N + 1 closes *)

CloseReset(length) == [length |-> length, window |-> Ring(length + 1)]

CloseClear(w) == [w EXCEPT !.window = ClearRing(@)]

CloseUpdate(w, close) == [w EXCEPT !.window = Push(@, close)]

CloseN(w) ==
    IF ValueFromBack(w.window, w.length) = {} THEN NotReady
    ELSE Ready(CHOOSE v \in ValueFromBack(w.window, w.length) : TRUE)

----------------------------------------------------------------------------
(* ChangeVolatilityIndicator *)

VolClear(v) ==
    [v EXCEPT !.window = ClearRing(@), !.sum = 0, !.sumsq = 0, !.prev = NoPrice]

VolReset(length) ==
    LET n == IF length < 2 THEN 2 ELSE length
    IN  [length |-> n, window |-> Ring(n), sum |-> 0, sumsq |-> 0, prev |-> NoPrice]

\* No return can be made of the first close, nor of one that follows a 0.
VolSkips(v) == v.prev \in {NoPrice, 0}

\* mutant: the overwritten return stays in the sum of squares
BadVolUpdate(v, close) ==
    LET r == ((close - v.prev) * Scale) \div v.prev
    IN  IF VolSkips(v) THEN [v EXCEPT !.prev = close]
        ELSE [v EXCEPT !.prev = close, !.window = Push(@, r),
                       !.sum = @ - Overwritten(v.window) + r, !.sumsq = @ + r * r]

VolUpdate(v, close) ==
    LET r == ((close - v.prev) * Scale) \div v.prev
        old == Overwritten(v.window)
    IN  IF VolSkips(v) THEN [v EXCEPT !.prev = close]
        ELSE [v EXCEPT !.prev = close, !.window = Push(@, r),
                       !.sum = @ - old + r, !.sumsq = @ - old * old + r * r]

\* The population variance in units of 1 / (length * Scale)^2, except that stdev_
\* returns 0 for a window of two returns, whatever they are.
Variance(v) ==
    LET n == v.length
        var == n * v.sumsq - v.sum * v.sum
    IN  IF n <= 2 \/ var < 0 THEN 0 ELSE var

\* mutant: a volatility is given before the window is full
BadVolValue(v) == Ready(Variance(v))

VolValue(v) == IF Full(v.window) THEN Ready(Variance(v)) ELSE NotReady

----------------------------------------------------------------------------
(* RsiWilder: the averages are gain and loss over length^exp *)

NoRsi == [ready |-> FALSE, v |-> <<0, 1>>]

\* a to the k-th, where 0 to the 0-th is 1.
Power(a, k) ==
    LET power[i \in 0..k] == IF i = 0 THEN 1 ELSE a * power[i - 1]
    IN  power[k]

RsiClear(r) ==
    [r EXCEPT !.prev = NoPrice, !.seed = 0, !.gainSum = 0, !.lossSum = 0,
              !.gain = 0, !.loss = 0, !.exp = 0, !.last = NoRsi]

RsiReset(length) ==
    [length |-> length, prev |-> NoPrice, seed |-> 0, gainSum |-> 0, lossSum |-> 0,
     gain |-> 0, loss |-> 0, exp |-> 0, last |-> NoRsi]

\* As a fraction; 100 - 100 / (1 + gain / loss) is 100 * gain / (gain + loss).
ComputeRsi(gain, loss) ==
    IF gain = 0 /\ loss = 0 THEN <<50, 1>>
    ELSE IF loss = 0 THEN <<100, 1>>
    ELSE IF gain = 0 THEN <<0, 1>>
    ELSE <<100 * gain, gain + loss>>

Up(delta) == IF delta > 0 THEN delta ELSE 0

\* A change of the price in the seed.
RsiSeed(r, delta) ==
    LET s == [r EXCEPT !.seed = @ + 1, !.gainSum = @ + Up(delta), !.lossSum = @ + Up(-delta)]
    IN  IF s.seed < s.length THEN s
        ELSE [s EXCEPT !.gain = s.gainSum, !.loss = s.lossSum, !.exp = 1,
                       !.last = Ready(ComputeRsi(s.gainSum, s.lossSum))]

\* mutant: the new change counts as much as all that came before
BadRsiSmooth(r, delta) ==
    LET unit == Power(r.length, r.exp)
        g == r.gain + Up(delta) * unit
        l == r.loss + Up(-delta) * unit
    IN  [r EXCEPT !.gain = g, !.loss = l, !.exp = @ + 1, !.last = Ready(ComputeRsi(g, l))]

\* Wilder's smoothing after the seed.
RsiSmooth(r, delta) ==
    LET unit == Power(r.length, r.exp)
        g == r.gain * (r.length - 1) + Up(delta) * unit
        l == r.loss * (r.length - 1) + Up(-delta) * unit
    IN  [r EXCEPT !.gain = g, !.loss = l, !.exp = @ + 1, !.last = Ready(ComputeRsi(g, l))]

RsiUpdate(r, close) ==
    LET s == [r EXCEPT !.prev = close]
    IN  IF r.length = 0 THEN r
        ELSE IF r.prev = NoPrice THEN s
        ELSE IF r.seed < r.length THEN RsiSeed(s, close - r.prev)
        ELSE RsiSmooth(s, close - r.prev)

----------------------------------------------------------------------------
(* The strategy's use of them *)

Abs(x) == IF x < 0 THEN -x ELSE x

\* update returns no volatility for a close it skips, even with a full window.
Snapshot(close, r, c, v, skipped) ==
    LET volatility == IF skipped THEN NotReady ELSE VolValue(v)
        n == CloseN(c)
        trendReady == n.ready /\ n.v # 0
        trendOk == trendReady /\ Abs(close - n.v) * Scale <= MaxTrendStrength * n.v
        min == v.length * MinVolatility
        volOk == volatility.ready /\ volatility.v >= min * min
    IN  [close |-> close, rsi |-> r.last, closeN |-> n, volatility |-> volatility,
         trendReady |-> trendReady, marketOk |-> trendOk /\ volOk /\ r.last.ready]

NoSnapshot == [close |-> 0, rsi |-> NoRsi, closeN |-> NotReady, volatility |-> NotReady,
               trendReady |-> FALSE, marketOk |-> FALSE]

\* What maybeEnter and maybeExit take from a snapshot: see Signals in
\* RsiMeanReversionStrategy.
Signal(s) ==
    IF s.marketOk /\ s.rsi.v[1] <= Oversold * s.rsi.v[2] THEN "buy"
    ELSE IF s.rsi.ready /\ s.rsi.v[1] >= Overbought * s.rsi.v[2] THEN "sell"
    ELSE "none"

\* buildSnapshot, for a candle with a new timestamp.  Sma, which the strategy
\* does not use, is fed the same closes.
BuildSnapshot(close) ==
    /\ taken < MaxCandles
    /\ taken' = taken + 1
    /\ sma' = SmaUpdate(sma, close)
    /\ rsi' = RsiUpdate(rsi, close)
    /\ closeN' = CloseUpdate(closeN, close)
    /\ vol' = VolUpdate(vol, close)
    /\ snapshot' = Snapshot(close, rsi', closeN', vol', VolSkips(vol))
    /\ hist' = Append(hist, close)
    /\ UNCHANGED params

\* RsiMeanReversionStrategy::reset.
Reset ==
    /\ hist # <<>>
    /\ sma' = SmaClear(sma) /\ rsi' = RsiClear(rsi)
    /\ closeN' = CloseClear(closeN) /\ vol' = VolClear(vol)
    /\ snapshot' = NoSnapshot
    /\ hist' = <<>>
    /\ UNCHANGED <<params, taken>>

IndicatorInit ==
    /\ params \in Params
    /\ sma = SmaReset(params.sma) /\ rsi = RsiReset(params.rsi)
    /\ closeN = CloseReset(params.trend) /\ vol = VolReset(params.vol)
    /\ snapshot = NoSnapshot
    /\ taken = 0
    /\ hist = <<>>

IndicatorNext == Reset \/ \E close \in Prices : BuildSnapshot(close)

IndicatorSpec == IndicatorInit /\ [][IndicatorNext]_indicatorVars

----------------------------------------------------------------------------
(* Reference definitions: functions of the closes since the last reset *)

\* f[1] + ... + f[n].
SumTo(n, f) ==
    LET sum[i \in 0..n] == IF i = 0 THEN 0 ELSE sum[i - 1] + f[i]
    IN  sum[n]

LastN(s, n) ==
    LET k == IF Len(s) <= n THEN Len(s) ELSE n
    IN  [i \in 1..k |-> s[Len(s) - k + i]]

Change(h, i) == h[i + 1] - h[i]

\* The changes of which there is a return: not those of a close of 0.
Usable(h) == {i \in 1..Len(h) - 1 : h[i] # 0}

\* The usable changes that are the k-th: they have k usable ones up to themselves.
Nth(h, k) == {i \in Usable(h) : Cardinality({j \in Usable(h) : j <= i}) = k}

ReturnAt(h, i) == (Change(h, i) * Scale) \div h[i]

\* The returns in units of 1/Scale, in order.
Returns(h) ==
    [k \in 1..Cardinality(Usable(h)) |-> ReturnAt(h, CHOOSE i \in Nth(h, k) : TRUE)]

\* Valid entries of a ring, from the oldest, and the same read from the newest.
FromOldest(b) == [i \in 1..b.size |-> b.buf[PhysicalIndexFromOldest(b, i - 1)]]
FromNewest(b) == [i \in 1..b.size |-> b.buf[PhysicalIndexFromNewest(b, b.size - i)]]

SumOf(b) == SumTo(b.size, FromOldest(b))
SumOfSquares(b) == SumTo(b.size, [i \in 1..b.size |-> FromOldest(b)[i] * FromOldest(b)[i]])

\* Wilder's average of m changes c, times length^exp, in closed form.
Weight(j, m, n) ==
    IF j <= n THEN Power(n - 1, m - n) ELSE Power(n - 1, m - j) * Power(n, j - n)

WilderAverage(c, m, n) == SumTo(m, [j \in 1..m |-> c[j] * Weight(j, m, n)])

Gains(h) == [i \in 1..Len(h) - 1 |-> Up(Change(h, i))]
Losses(h) == [i \in 1..Len(h) - 1 |-> Up(-Change(h, i))]

\* The squares of the differences of all pairs of the values w[1..n], summed up.
Spread(w, n) ==
    SumTo(n, [i \in 1..n |-> SumTo(n, [j \in 1..n |-> (w[i] - w[j]) * (w[i] - w[j])])])

\* However the rings wrap, and whatever a reset left in them, each one holds
\* the last values it was given, in order, read from either end, and the running
\* sums are those of its entries (RingBuffer.h:216-270, Sma.cpp:18-43,
\* ChangeVolatilityIndicator.cpp:26-74).
WindowsExact ==
    /\ \A w \in {<<closeN.window, hist, params.trend + 1>>,
                 <<vol.window, Returns(hist), vol.length>>,
                 <<sma.window, hist, params.sma>>} :
           FromOldest(w[1]) = LastN(w[2], w[3]) /\ FromNewest(w[1]) = LastN(w[2], w[3])
    /\ sma.sum = SumOf(sma.window)
    /\ vol.sum = SumOf(vol.window) /\ vol.sumsq = SumOfSquares(vol.window)

\* The incremental RSI is Wilder's, computed from all closes at once, and is
\* there from the length-th change on (RsiWilder.cpp:27-112).
RsiExact ==
    LET n == params.rsi
        m == Len(hist) - 1
        g == WilderAverage(Gains(hist), m, n)
        l == WilderAverage(Losses(hist), m, n)
    IN  /\ rsi.last.ready <=> n > 0 /\ m >= n
        /\ rsi.last.ready =>
               LET q == rsi.last.v
               IN  IF g + l = 0 THEN q = <<50, 1>> ELSE q[1] * (g + l) = 100 * g * q[2]

\* The market is fit exactly when the closes since the reset fill every window,
\* the price N candles ago is near, the last close followed a price, and the
\* last returns, here compared in pairs, differ enough; no signal is given before
\* the RSI is known (RsiMeanReversionStrategy.cpp:203-240, 251-256, 300,
\* ClosePriceWindow.cpp:19-38, ChangeVolatilityIndicator.cpp:87-100).
\*
\* One case is not what the header says.  Its deviation is that of the population
\* (ChangeVolatilityIndicator.h:74), which two returns that differ have too, but
\* stdev_ gives 0 for a window of two (ChangeVolatilityIndicator.cpp:90; reset
\* makes smaller ones a window of two).  With such a window and a MinVolatility
\* above 0 the market is never fit: the case n = 2 below states that.
SignalGrounded ==
    LET len == Len(hist)
        past == hist[len - params.trend]
        n == vol.length
        spread == Spread(LastN(Returns(hist), n), n)
    IN  /\ snapshot.marketOk <=>
               /\ params.rsi > 0 /\ len > params.rsi
               /\ len > params.trend /\ past # 0
               /\ Abs(hist[len] - past) * Scale <= MaxTrendStrength * past
               /\ Len(Returns(hist)) >= n /\ hist[len - 1] # 0
               /\ IF n = 2 THEN MinVolatility = 0
                  ELSE spread >= 2 * (n * MinVolatility) * (n * MinVolatility)
        /\ Signal(snapshot) # "none" => params.rsi > 0 /\ len > params.rsi

=============================================================================
