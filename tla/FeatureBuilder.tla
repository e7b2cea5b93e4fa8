--------------------------- MODULE FeatureBuilder ---------------------------
(***************************************************************************)
(* The features of a bar, computed from a series of candles                *)
(* (apps/backtester/feature_builder.py).                                   *)
(*                                                                         *)
(* A series with undefined entries (None) is a function on the bars where  *)
(* it is defined; a feature is a sequence of one value, or empty. Numbers  *)
(* are integers in units of 1/Unit, and quotients are rounded down. Bars   *)
(* count from 1. The window lengths are constants. A feature that repeats  *)
(* another with a different length, and those read off the candle and its  *)
(* time alone, are left out.                                               *)
(***************************************************************************)
EXTENDS Integers, Sequences, FiniteSetsExt

CONSTANTS
    Unit,      \* the unit of the numbers
    Lags,      \* lags of the returns
    EmaLen,    \* length of the exponential average
    RmaLen,    \* length of Wilder's smoothing
    BandLen,   \* length of the Bollinger bands
    VolLen,    \* length of the volatility
    SlopeLag,  \* lag of the slope of the average
    Factor,    \* bars in a bar of the higher timeframe
    HigherLag  \* lag of the return on the higher timeframe

Div(a, b) == (a * Unit) \div b

Abs(x) == IF x < 0 THEN - x ELSE x

Closes(candles) == [i \in DOMAIN candles |-> candles[i].close]

-----------------------------------------------------------------------------
(* Indicators. *)

\* The average times its length: a running sum over the window.
sma(values, length) ==
    LET sum[i \in 0 .. Len(values)] ==
            IF i = 0 THEN 0
            ELSE sum[i - 1] + values[i] - (IF i > length THEN values[i - length] ELSE 0)
    IN [i \in length .. Len(values) |-> sum[i]]

\* The variance, times the square of the length.
stdev(values, length) ==
    LET window(i) == i - length + 1 .. i
        sum(i) == MapThenSumSet(LAMBDA k : values[k], window(i))
        squares(i) == MapThenSumSet(LAMBDA k : values[k] * values[k], window(i))
    IN [i \in length .. Len(values) |-> length * squares(i) - sum(i) * sum(i)]

ema(values, length) ==
    LET out[i \in 1 .. Len(values)] ==
            IF i = 1 THEN values[1]
            ELSE (2 * values[i] + (length - 1) * out[i - 1]) \div (length + 1)
    IN out

rma(values, length) ==
    LET out[i \in length .. Len(values)] ==
            IF i = length THEN MapThenSumSet(LAMBDA k : values[k], 1 .. length) \div length
            ELSE out[i - 1] + (values[i] - out[i - 1]) \div length
    IN out

first_defined(series) == Min(DOMAIN series)

\* The defined end of a series, without what comes before.
clean(series) ==
    [k \in 1 .. Max(DOMAIN series) - first_defined(series) + 1 |->
        series[first_defined(series) + k - 1]]

\* What was computed over the defined end of a series, put back in its place.
_align_from_first_defined(series, computed) ==
    IF DOMAIN series = {} THEN series
    ELSE LET start == first_defined(series) - 1
         IN [i \in {start + k : k \in DOMAIN computed} |-> computed[i - start]]

smoothed(series, length) == _align_from_first_defined(series, rma(clean(series), length))

\* Gains and losses of bar i stand at i - 1.
rsi_from_closes(closes, length) ==
    LET moves == 1 .. Len(closes) - 1
        up == rma([i \in moves |-> Max({closes[i + 1] - closes[i], 0})], length)
        down == rma([i \in moves |-> Max({closes[i] - closes[i + 1], 0})], length)
    IN [i \in {k + 1 : k \in DOMAIN up} |->
            IF down[i - 1] = 0 THEN (IF up[i - 1] > 0 THEN 100 * Unit ELSE 50 * Unit)
            ELSE Div(100 * up[i - 1], up[i - 1] + down[i - 1])]

true_range(candles) ==
    [i \in 2 .. Len(candles) |->
        Max({candles[i].high - candles[i].low,
             Abs(candles[i].high - candles[i - 1].close),
             Abs(candles[i].low - candles[i - 1].close)})]

atr(candles, length) == smoothed(true_range(candles), length)

up_move(candles, i) == candles[i].high - candles[i - 1].high
down_move(candles, i) == candles[i - 1].low - candles[i].low

\* A move counts when it is the larger one and goes outward.
directional(move, other) == IF move > other /\ move > 0 THEN move ELSE 0

\* A smoothed move in percent of the smoothed true range, where there is one.
_di(moved, range) ==
    [i \in {k \in DOMAIN range : range[k] # 0} |-> Div(100 * moved[i], range[i])]

\* The index between the two directions, smoothed.
_adx(plus, minus, length) ==
    LET dx == [i \in DOMAIN plus |-> IF plus[i] + minus[i] = 0 THEN 0
                                     ELSE Div(100 * Abs(plus[i] - minus[i]), plus[i] + minus[i])]
    IN smoothed(dx, length)

\* plus_di, minus_di and the index.
dmi(candles, length) ==
    LET bars == 2 .. Len(candles)
        plus_dm == [i \in bars |-> directional(up_move(candles, i), down_move(candles, i))]
        minus_dm == [i \in bars |-> directional(down_move(candles, i), up_move(candles, i))]
        plus == _di(smoothed(plus_dm, length), atr(candles, length))
        minus == _di(smoothed(minus_dm, length), atr(candles, length))
    IN [plus |-> plus, minus |-> minus, adx |-> _adx(plus, minus, length)]

-----------------------------------------------------------------------------
(* The higher timeframe, and the features. *)

\* Mutant: the bar that is still forming counts.
_last_closed_bin_forming(i, factor) == (i - 1) \div factor

\* The last bin, counted from 0, that has closed at bar i; -1 for none.
_last_closed_bin(i, factor) ==
    LET bin == (i - 1) \div factor
    IN IF (i - 1) % factor = factor - 1 THEN bin ELSE bin - 1

\* The close of every complete bin, the first one at 1.
resample_closes(candles, factor) ==
    [k \in 1 .. Len(candles) \div factor |-> candles[k * factor].close]

At(series, i) == IF i \in DOMAIN series THEN <<series[i]>> ELSE << >>

Ratio(a, b) == IF b = 0 THEN << >> ELSE <<Div(a, b)>>

Return(closes, i, lag) == IF i > lag THEN Ratio(closes[i] - closes[i - lag], closes[i - lag]) ELSE << >>

\* Every feature of bar i, defined or not.
Features(candles, i) ==
    LET closes == Closes(candles)
        close == closes[i]
        average == ema(closes, EmaLen)
        returns == [k \in 2 .. Len(candles) |-> Div(closes[k] - closes[k - 1], closes[k - 1])]
        basis == At(sma(closes, BandLen), i)
        deviation == At(stdev(closes, BandLen), i)
        di == dmi(candles, RmaLen)
        range == At(atr(candles, RmaLen), i)
        higher == resample_closes(candles, Factor)
        bin == _last_closed_bin(i, Factor) + 1
    IN [ret |-> [lag \in Lags |-> Return(closes, i, lag)],
        atr_pct |-> IF range = << >> THEN << >> ELSE Ratio(range[1], close),
        vol |-> At(_align_from_first_defined(returns, stdev(clean(returns), VolLen)), i),
        dist_ema |-> Ratio(close - average[i], close),
        ema_slope |-> IF i > SlopeLag THEN Ratio(average[i] - average[i - SlopeLag], average[i]) ELSE << >>,
        rsi |-> At(rsi_from_closes(closes, RmaLen), i),
        plus_di |-> At(di.plus, i),
        minus_di |-> At(di.minus, i),
        adx |-> At(di.adx, i),
        bb_z |-> IF deviation = << >> THEN << >>
                 ELSE Ratio(BandLen * close - basis[1], deviation[1]),
        htf_dist_ema |-> IF bin \in DOMAIN higher
                         THEN Ratio(higher[bin] - ema(higher, EmaLen)[bin], higher[bin]) ELSE << >>,
        htf_ret |-> IF bin \in DOMAIN higher THEN Return(higher, bin, HigherLag) ELSE << >>]

\* All of them, or nothing.
build_at(candles, i) ==
    LET f == Features(candles, i)
    IN IF \E name \in DOMAIN f \ {"ret"} : f[name] = << >> THEN << >>
       ELSE IF \E lag \in Lags : f.ret[lag] = << >> THEN << >>
       ELSE <<f>>
=============================================================================
