----------------------------- MODULE Indicators -----------------------------
(***************************************************************************)
(* The indicator columns of a frame (indicators/implementations): the      *)
(* candles of a higher timeframe made of its bars, the series of each kind *)
(* over those candles, and the column of the last completed candle's value *)
(* on every bar.                                                           *)
(*                                                                         *)
(* Time is counted in base bars.  A frame is [from, bars]: the open time   *)
(* of its first bar and its bars.  A timeframe is [d, origin]: how many    *)
(* bars a candle lasts and where its grid begins.  A value is NaN or a     *)
(* reduced fraction <<n, d>>, d > 0.                                       *)
(***************************************************************************)
EXTENDS Integers, SequencesExt, FiniteSetsExt

CONSTANT NaN        \* a missing value

RECURSIVE Gcd(_, _)
Gcd(a, b) == IF b = 0 THEN a ELSE Gcd(b, a % b)

Size(n) == IF n < 0 THEN -n ELSE n
Frac(n, d) == LET g == Gcd(d, Size(n)) IN <<n \div g, d \div g>>
Whole(n) == IF n = NaN THEN NaN ELSE <<n, 1>>
Plus(x, y) == Frac(x[1] * y[2] + y[1] * x[2], x[2] * y[2])
Times(x, n, d) == Frac(x[1] * n, x[2] * d)
AtMost(x, y) == x[1] * y[2] <= y[1] * x[2]
Apart(x, y) == LET z == Plus(x, <<-y[1], y[2]>>) IN <<Size(z[1]), z[2]>>

-----------------------------------------------------------------------------
(* Candles.                                                                *)

LastOpen(frame) == frame.from + Len(frame.bars) - 1
Bucket(tf, i) == (i - tf.origin) \div tf.d

\* first, max, min, last and sum of the bars of a bucket; the open interest
\* of its last bar, missing or not.
Merged(run) ==
    LET end == run[Len(run)]
    IN  [open |-> run[1].open, high |-> Max({b.high : b \in ToSet(run)}),
         low |-> Min({b.low : b \in ToSet(run)}), close |-> end.close,
         volume |-> FoldLeft(LAMBDA sum, b : sum + b.volume, 0, run), open_interest |-> end.open_interest]

\* The candles that hold a bar of the frame, from that of its first bar on,
\* whole or not.
Candles(frame, tf) ==
    LET first == Bucket(tf, frame.from)
        start(k) == Max({0, (first + k - 1) * tf.d + tf.origin - frame.from})
        end(k) == Min({Len(frame.bars), (first + k) * tf.d + tf.origin - frame.from})
    IN  [k \in 1..(Bucket(tf, LastOpen(frame)) - first + 1) |->
            Merged(SubSeq(frame.bars, start(k) + 1, end(k)))]

-----------------------------------------------------------------------------
(* The kinds: the value on candle i of the candles c.                      *)

TrueRange(c, i) ==
    IF i = 1 THEN c[1].high - c[1].low
    ELSE Max({c[i].high - c[i].low, Size(c[i].high - c[i - 1].close), Size(c[i].low - c[i - 1].close)})

\* The sum of f over the last p candles; NaN before there are p of them
\* from candle from on, and where one of them is missing.
Rolling(f, p, from, i) ==
    LET run == (i - p + 1)..i
    IN  IF i - p + 1 < from \/ \E k \in run : f[k] = NaN THEN NaN
        ELSE FoldFunctionOnSet(LAMBDA x, y : x + y, 0, f, run)

Source(c, source) == [i \in DOMAIN c |-> c[i][source]]

\* ewm(span = p, adjust = False).mean().
Ema(c, source, p) ==
    LET y[i \in 1..Len(c)] ==
            IF i = 1 THEN Whole(c[1][source])
            ELSE Plus(Times(Whole(c[i][source]), 2, p + 1), Times(y[i - 1], p - 1, p + 1))
    IN  y

Atr(c, p) ==
    [i \in DOMAIN c |-> LET sum == Rolling([k \in DOMAIN c |-> TrueRange(c, k)], p, 1, i)
                        IN  IF sum = NaN THEN NaN ELSE Frac(sum, p)]

\* Seeded by the mean of the first p true ranges.
AtrWilder(c, p) ==
    LET y[i \in 1..Len(c)] ==
            IF i <= p THEN Atr(c, p)[i]
            ELSE Times(Plus(Times(y[i - 1], p - 1, 1), Whole(TrueRange(c, i))), 1, p)
    IN  y

\* 100 * gain / (gain + loss) over the last p changes.
Rsi(c, p) ==
    LET change(k) == IF k = 1 THEN 0 ELSE c[k].close - c[k - 1].close
        gain(i) == Rolling([k \in DOMAIN c |-> Max({change(k), 0})], p, 2, i)
        loss(i) == Rolling([k \in DOMAIN c |-> Max({-change(k), 0})], p, 2, i)
    IN  [i \in DOMAIN c |-> IF gain(i) = NaN \/ gain(i) + loss(i) = 0 THEN NaN
                            ELSE Frac(100 * gain(i), gain(i) + loss(i))]

RollingExtreme(c, kind, source, p) ==
    [i \in DOMAIN c |->
        LET run == {c[k][source] : k \in Max({1, i - p + 1})..i}
        IN  IF i < p \/ NaN \in run THEN NaN
            ELSE Whole(IF kind = "rolling_max" THEN Max(run) ELSE Min(run))]

RollingSum(c, source, p, lag) ==
    [i \in DOMAIN c |-> IF i <= lag THEN NaN ELSE Whole(Rolling(Source(c, source), p, 1, i - lag))]

\* The body over the ATR of the candle before, where that is above 0.
CandleBodyAtr(c, p) ==
    [i \in DOMAIN c |->
        LET atr == AtrWilder(c, p)[i - 1]
        IN  IF i = 1 \/ atr = NaN \/ atr[1] <= 0 THEN NaN
            ELSE Times(Frac(atr[2], atr[1]), c[i].close - c[i].open, 1)]

CandleClosePosition(c) ==
    [i \in DOMAIN c |-> IF c[i].high <= c[i].low THEN NaN
                        ELSE Frac(c[i].close - c[i].low, c[i].high - c[i].low)]

Values(f, c) ==
    CASE f.kind = "ema" -> Ema(c, f.source, f.period)
      [] f.kind = "rsi" -> Rsi(c, f.period)
      [] f.kind = "atr" -> Atr(c, f.period)
      [] f.kind = "atr_wilder" -> AtrWilder(c, f.period)
      [] f.kind = "candle_body_atr" -> CandleBodyAtr(c, f.period)
      [] f.kind = "candle_close_position" -> CandleClosePosition(c)
      [] f.kind = "rolling_sum" -> RollingSum(c, f.source, f.period, f.lag)
      [] f.kind \in {"rolling_max", "rolling_min"} -> RollingExtreme(c, f.kind, f.source, f.period)

-----------------------------------------------------------------------------
(* Columns.                                                                *)

IsBase(tf) == tf.d = 1

\* Every bar has the value of the last candle completed when it opens, or
\* when it closes.
Aligned(values, tf, frame, early) ==
    LET first == Bucket(tf, frame.from)
        seen(t) == Bucket(tf, frame.from + t - 1 + early) - first
    IN  [t \in DOMAIN frame.bars |-> IF seen(t) < 1 THEN NaN ELSE values[seen(t)]]

\* The column of a feature; an atr_distance multiplies that of its ATR.
RECURSIVE Column(_, _)
Column(f, frame) ==
    IF f.kind = "atr_distance"
    THEN LET atr == Column(f.of, frame)
         IN  [t \in DOMAIN atr |-> IF atr[t] = NaN THEN NaN ELSE Times(atr[t], f.multiplier, 1)]
    ELSE LET values == Values(f, Candles(frame, f.tf))
         IN  IF IsBase(f.tf) THEN values
             ELSE Aligned(values, f.tf, frame, IF f.availability = "bar_close" THEN 1 ELSE 0)
=============================================================================
