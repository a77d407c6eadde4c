---------------------------- MODULE WaveOperands ----------------------------
(***************************************************************************)
(* The operands of the pre-entry predicates that read a market history and *)
(* the touches of an EMA stack episode: the values of predicates.py and of *)
(* candles.py, leg_*.py, anchor_follow.py, pullback_depth.py,              *)
(* impulse_atr.py and forming_candle.py.                                   *)
(*                                                                         *)
(* A world w is one frame: its bars, the grid offset of the first of them, *)
(* the feature columns in the bars, and per side the projected episode -   *)
(* the touch table, the first row of every episode and, per bar, the       *)
(* episode and the number of its current touch.  An operator gives the     *)
(* value on bar t, the arrays of the code being read bar by bar.  A        *)
(* quotient is kept in whole Units.                                        *)
(***************************************************************************)
EXTENDS Integers, SequencesExt

CONSTANTS
    NaN,            \* a missing value
    None,           \* an absent parameter
    Unit,           \* the denominator of quotients
    Timeframe,      \* base bars of a candle of the higher timeframe
    AtrPeriod       \* of the Wilder ATR of that timeframe

Finite(v) == v # NaN
Both(a, b) == Finite(a) /\ Finite(b)
Abs(v) == IF v < 0 THEN -v ELSE v
Quot(a, b) == IF b > 0 THEN (Unit * a) \div b ELSE (-Unit * a) \div (-b)
SideSign(s) == IF s = "long" THEN 1 ELSE -1
Greater(a, b) == IF a < b THEN b ELSE a
Lesser(a, b) == IF a < b THEN a ELSE b

\* The values f[a..b]: their total and, for a <= b, their extremes.
Total(f, a, b) == FoldFunctionOnSet(LAMBDA u, v : u + v, 0, f, a..b)
Most(f, a, b) == Max({f[u] : u \in a..b})
Fewest(f, a, b) == Min({f[u] : u \in a..b})
Clean(f, a, b) == \A u \in a..b : Finite(f[u])

Column(w, field) == [u \in 1..w.n |-> w.bars[u][field]]

-----------------------------------------------------------------------------
(* The current touch.                                                      *)

Live(E, t) == E.number[t] # NaN /\ E.number[t] >= 1
TouchRow(E, t) == E.first[E.id[t]] + E.number[t] - 1
\* Mutant: the row of the latest touch instead of the row of the bar's own.
TouchOfTable(E, t) == E.rows[Len(E.rows)]

Touch(E, t) == E.rows[TouchRow(E, t)]
HasWave(E, t) == Live(E, t) /\ Touch(E, t).origin <= Touch(E, t).peak /\ Touch(E, t).peak <= t
HasPrevious(E, t) == HasWave(E, t) /\ E.number[t] >= 2
PreviousTouch(E, t) == E.rows[TouchRow(E, t) - 1]

LegStart(E, t, leg) == IF leg = "impulse" THEN Touch(E, t).origin ELSE Touch(E, t).peak
LegEnd(E, t, leg) == IF leg = "impulse" THEN Touch(E, t).peak ELSE t

-----------------------------------------------------------------------------
(* Means and sums over a leg; here the pullback begins after the peak.     *)

\* Mutant: the force ignores the side.
ForceSeriesUnsigned(w, field, s) ==
    [u \in 1..w.n |->
        IF u = 1 THEN 0
        ELSE (IF field = "force_against" THEN -1 ELSE 1)
             * (w.bars[u].close - w.bars[u - 1].close) * w.bars[u].volume]

ForceSeries(w, field, s) ==
    LET sign == IF field = "force_against" THEN -SideSign(s) ELSE SideSign(s)
    IN  [u \in 1..w.n |->
            IF u = 1 THEN 0
            ELSE sign * (w.bars[u].close - w.bars[u - 1].close) * w.bars[u].volume]

OwnColorVolume(w, s, leg) ==
    [u \in 1..w.n |->
        LET body == SideSign(s) * (w.bars[u].close - w.bars[u].open)
        IN  IF (leg = "impulse" /\ body > 0) \/ (leg = "pullback" /\ body < 0)
            THEN w.bars[u].volume ELSE 0]

MeanFrom(E, t, leg) == IF leg = "impulse" THEN Touch(E, t).origin ELSE Touch(E, t).peak + 1

LegTotal(E, series, leg, t) ==
    LET a == MeanFrom(E, t, leg)
        e == LegEnd(E, t, leg)
    IN  IF ~ HasWave(E, t) THEN NaN
        ELSE IF a > e \/ ~ Clean(series, a, e) THEN NaN
        ELSE Total(series, a, e)

LegMean(E, series, leg, t) ==
    LET total == LegTotal(E, series, leg, t)
    IN  IF total = NaN THEN NaN
        ELSE Quot(total, LegEnd(E, t, leg) - MeanFrom(E, t, leg) + 1)

\* share is <<numerator, denominator>>.
TopMean(ordered, share) ==
    LET k == Greater(1, (share[1] * Len(ordered) + share[2] - 1) \div share[2])
    IN  Quot(Total(ordered, Len(ordered) - k + 1, Len(ordered)), k)

Ordered(series, a, e) == SortSeq([i \in 1..(e - a + 1) |-> series[a + i - 1]], <)
Inserted(ordered, v) == SortSeq(Append(ordered, v), <)

\* The pullback's window is kept sorted while t grows within a touch.
LegTopMean(E, series, leg, share, t) ==
    LET window[u \in 0..t] ==
            IF u = 0 THEN [begin |-> 0, end |-> 0, sorted |-> <<>>]
            ELSE LET before == window[u - 1]
                     a == Touch(E, u).peak + 1
                 IN  IF ~ HasWave(E, u) THEN before
                     ELSE IF a > u \/ ~ Clean(series, a, u) THEN before
                     ELSE [begin |-> a, end |-> u,
                           sorted |-> IF a = before.begin /\ u = before.end + 1
                                      THEN Inserted(before.sorted, series[u])
                                      ELSE Ordered(series, a, u)]
        a == MeanFrom(E, t, leg)
        e == LegEnd(E, t, leg)
    IN  IF ~ HasWave(E, t) THEN NaN
        ELSE IF a > e \/ ~ Clean(series, a, e) THEN NaN
        ELSE TopMean(IF leg = "impulse" THEN Ordered(series, a, e) ELSE window[t].sorted, share)

-----------------------------------------------------------------------------
(* Measures of the legs, the peak counted in both.                         *)

LegBars(E, leg, t) ==
    IF HasWave(E, t) THEN LegEnd(E, t, leg) - LegStart(E, t, leg) + 1 ELSE NaN

LegSpeed(E, close, leg, t) ==
    IF ~ HasWave(E, t) THEN NaN
    ELSE LET far == IF leg = "impulse" THEN Touch(E, t).originPrice ELSE close[t]
         IN  Quot(Abs(Touch(E, t).peakPrice - far), LegBars(E, leg, t))

LegEfficiency(E, close, leg, t) ==
    IF ~ HasWave(E, t) THEN NaN
    ELSE LET a == LegStart(E, t, leg)
             z == LegEnd(E, t, leg)
             run == Total([u \in (a + 1)..z |-> Abs(close[u] - close[u - 1])], a + 1, z)
         IN  IF z > a /\ run > 0 THEN Quot(Abs(close[z] - close[a]), run) ELSE NaN

LegChange(E, series, leg, touch, t) ==
    IF ~ HasWave(E, t) \/ (touch = "previous" /\ ~ HasPrevious(E, t)) THEN NaN
    ELSE LET first == series[IF touch = "previous" THEN PreviousTouch(E, t).origin
                             ELSE LegStart(E, t, leg)]
             last == series[IF touch = "previous" THEN PreviousTouch(E, t).peak
                            ELSE LegEnd(E, t, leg)]
         IN  IF first > 0 THEN Quot(100 * (last - first), first) ELSE NaN

AnchorFollow(E, anchor, s, t) ==
    IF ~ HasWave(E, t) THEN NaN
    ELSE LET p == Touch(E, t).peak
             gap == SideSign(s) * (Touch(E, t).peakPrice - anchor[p])
         IN  IF gap > 0 THEN Quot(SideSign(s) * (anchor[t] - anchor[p]), gap) ELSE NaN

ImpulseAtr(E, atr, t) ==
    IF ~ HasWave(E, t) THEN NaN
    ELSE LET scale == atr[Touch(E, t).peak]
         IN  IF scale = NaN THEN NaN
             ELSE IF scale > 0
             THEN Quot(Abs(Touch(E, t).peakPrice - Touch(E, t).originPrice), scale) ELSE NaN

\* Mutant: the extreme is carried whatever the peak it began at.
PullbackExtremeCarried(E, price, s, t) ==
    LET pick(a, b) == IF s = "long" THEN Lesser(a, b) ELSE Greater(a, b)
        run[u \in 0..t] ==
            IF u = 0 THEN NaN
            ELSE IF ~ HasWave(E, u) THEN run[u - 1]
            ELSE IF run[u - 1] # NaN THEN pick(run[u - 1], price[u])
            ELSE IF s = "long" THEN Fewest(price, Touch(E, u).peak, u)
            ELSE Most(price, Touch(E, u).peak, u)
    IN  run[t]

\* The extreme of [peak, t] is carried from bar to bar within a touch.
PullbackExtreme(E, price, s, t) ==
    LET pick(a, b) == IF s = "long" THEN Lesser(a, b) ELSE Greater(a, b)
        window(p, u) == IF s = "long" THEN Fewest(price, p, u) ELSE Most(price, p, u)
        run[u \in 0..t] ==
            IF u = 0 THEN [peak |-> 0, at |-> 0, ext |-> NaN]
            ELSE IF ~ HasWave(E, u) THEN run[u - 1]
            ELSE LET p == Touch(E, u).peak
                 IN  [peak |-> p, at |-> u,
                      ext |-> IF p = run[u - 1].peak /\ u = run[u - 1].at + 1
                              THEN pick(run[u - 1].ext, price[u]) ELSE window(p, u)]
    IN  run[t].ext

PullbackDepth(w, E, s, touch, t) ==
    LET price == Column(w, IF s = "long" THEN "low" ELSE "high")
        row == IF touch = "current" THEN Touch(E, t) ELSE PreviousTouch(E, t)
        height == Abs(row.peakPrice - row.originPrice)
        ext == IF touch = "current" THEN PullbackExtreme(E, price, s, t)
               ELSE IF s = "long" THEN Fewest(price, row.peak, Touch(E, t).origin)
               ELSE Most(price, row.peak, Touch(E, t).origin)
    IN  IF ~ HasWave(E, t) \/ (touch = "previous" /\ ~ HasPrevious(E, t)) THEN NaN
        ELSE IF touch = "previous" /\ Touch(E, t).origin <= row.peak THEN NaN
        ELSE IF height > 0 THEN Quot(SideSign(s) * (row.peakPrice - ext), height) ELSE NaN

-----------------------------------------------------------------------------
(* The extreme of a window by a sparse table, for a <= b.                  *)

WindowExtreme(f, a, b, largest) ==
    LET reduce(u, v) == IF largest THEN Greater(u, v) ELSE Lesser(u, v)
        level == Max({j \in 0..(b - a + 1) : 2^j <= b - a + 1})
        table[j \in 0..level] ==
            IF j = 0 THEN [i \in a..b |-> f[i]]
            ELSE [i \in a..(b - 2^j + 1) |-> reduce(table[j - 1][i], table[j - 1][i + 2^(j - 1)])]
    IN  reduce(table[level][a], table[level][b - 2^level + 1])

-----------------------------------------------------------------------------
(* Candles of the higher timeframe, built from base bars on its grid.      *)

Bucket(w, t) == (w.offset + t - 1) \div Timeframe
BucketBars(w, b) == {u \in 1..w.n : Bucket(w, u) = b}
FirstBar(w, b) == Min(BucketBars(w, b))
LastBar(w, b) == Max(BucketBars(w, b))
BucketOpen(w, b) == w.bars[FirstBar(w, b)].open
BucketClose(w, b) == w.bars[LastBar(w, b)].close
ClosesBucket(w, t) == (w.offset + t) % Timeframe = 0

TrueRange(w, b) ==
    LET high == Max({w.bars[u].high : u \in BucketBars(w, b)})
        low == Min({w.bars[u].low : u \in BucketBars(w, b)})
    IN  IF BucketBars(w, b - 1) = {} THEN high - low
        ELSE LET c == BucketClose(w, b - 1)
             IN  Max({high - low, Abs(high - c), Abs(low - c)})

\* The aligned column of the Wilder ATR: of the candles complete when the
\* bucket of bar t opens; a bucket whose first bars are missing is no candle.
AtrAfter(w, b) ==
    LET start == IF w.offset % Timeframe = 0 THEN Bucket(w, 1) ELSE Bucket(w, 1) + 1
        seed == start + AtrPeriod - 1
        own(k) == IF k = start
                  THEN Most(Column(w, "high"), FirstBar(w, k), LastBar(w, k))
                       - Fewest(Column(w, "low"), FirstBar(w, k), LastBar(w, k))
                  ELSE TrueRange(w, k)
        atr[k \in seed..(seed + w.n)] ==
            IF k = seed THEN Total([j \in start..seed |-> own(j)], start, seed) \div AtrPeriod
            ELSE (atr[k - 1] * (AtrPeriod - 1) + own(k)) \div AtrPeriod
    IN  IF b < seed THEN NaN ELSE atr[b]
Atr(w, t) == AtrAfter(w, Bucket(w, t) - 1)

Normalised(body, atr) ==
    IF atr = NaN THEN 0 ELSE IF atr > 0 THEN Quot(Greater(body, 0), atr) ELSE 0

\* The ATR of a candle itself: the aligned value at the open of the next one;
\* the last candle of the series continues the previous one by the recursion.
OwnAtr(w, b) ==
    IF BucketBars(w, b + 1) # {} THEN Atr(w, FirstBar(w, b + 1))
    ELSE IF BucketBars(w, b - 1) = {} \/ Atr(w, FirstBar(w, b)) = NaN THEN NaN
    ELSE (Atr(w, FirstBar(w, b)) * (AtrPeriod - 1) + TrueRange(w, b)) \div AtrPeriod

\* The largest body, with or against the trade, of a leg's candles: its
\* clipped first and last candle and the full ones between.
CandleValue(w, E, s, leg, direction, normalise, t) ==
    LET begin == MeanFrom(E, t, leg)
        end == LegEnd(E, t, leg)
        sign == IF (direction = "with") = (s = "long") THEN 1 ELSE -1
        b0 == Bucket(w, begin)
        b1 == Bucket(w, end)
        opened(b) == IF b = b0 THEN w.bars[begin].open ELSE BucketOpen(w, b)
        closed(b) == IF b = b1 THEN w.bars[end].close ELSE BucketClose(w, b)
        scale(b) == IF b = b1 /\ ~ ClosesBucket(w, end) THEN Atr(w, FirstBar(w, b)) ELSE OwnAtr(w, b)
        bodies == [b \in b0..b1 |->
                     LET body == sign * (closed(b) - opened(b))
                     IN  IF normalise THEN Normalised(body, scale(b)) ELSE Greater(body, 0)]
    IN  IF ~ HasWave(E, t) THEN NaN
        ELSE IF begin > end THEN NaN
        ELSE Max({bodies[b0], bodies[b1]}
                 \union IF b1 - b0 >= 2 THEN {WindowExtreme(bodies, b0 + 1, b1 - 1, TRUE)} ELSE {})

FormingBody(w, E, s, t) ==
    LET atr == Atr(w, t)
    IN  IF ~ HasWave(E, t) \/ atr = NaN THEN NaN
        ELSE IF atr > 0
        THEN Quot(SideSign(s) * (w.bars[t].close - BucketOpen(w, Bucket(w, t))), atr) ELSE NaN

\* The range seen so far of the bucket of t over the ATR at its start; a
\* bucket whose first bar is missing stays missing.
FormingRange(w, E, t) ==
    LET run[u \in 0..t] ==
            IF u = 0 THEN [bucket |-> -1, valid |-> FALSE, hi |-> 0, lo |-> 0, atr |-> NaN]
            ELSE LET before == run[u - 1]
                     fresh == Bucket(w, u) # before.bucket
                     bar == w.bars[u]
                 IN  [bucket |-> Bucket(w, u),
                      valid |-> IF fresh THEN (w.offset + u - 1) % Timeframe = 0 ELSE before.valid,
                      hi |-> IF fresh THEN bar.high ELSE Greater(before.hi, bar.high),
                      lo |-> IF fresh THEN bar.low ELSE Lesser(before.lo, bar.low),
                      atr |-> IF fresh THEN Atr(w, u) ELSE before.atr]
        now == run[t]
    IN  IF ~ HasWave(E, t) \/ ~ now.valid \/ now.atr = NaN THEN NaN
        ELSE IF now.atr > 0 THEN Quot(now.hi - now.lo, now.atr) ELSE NaN

=============================================================================
