---------------------------- MODULE WaveSegments ----------------------------
(***************************************************************************)
(* Aggregates of a series over a stretch of the current or the previous    *)
(* wave, and changes between the ends of a stretch (segment_values,        *)
(* interval_change_values and window_change_values of predicates.py).      *)
(* A series is already signed for the side.                                *)
(***************************************************************************)
EXTENDS WaveOperands

SegmentPoint(E, point, t) ==
    CASE point = "origin"  -> Touch(E, t).origin
      [] point = "peak"    -> Touch(E, t).peak
      [] point = "touch"   -> Touch(E, t).touch
      [] point = "current" -> t

SegmentBegin(E, seg, t) ==
    IF seg.touch = "current" THEN SegmentPoint(E, seg.from, t)
    ELSE IF seg.from = "origin" THEN PreviousTouch(E, t).origin ELSE PreviousTouch(E, t).peak

\* The previous pullback runs to the origin of the current wave.
SegmentEnd(E, seg, t) ==
    IF seg.touch = "current" THEN SegmentPoint(E, seg.to, t)
    ELSE IF seg.to = "next_origin" THEN Touch(E, t).origin ELSE PreviousTouch(E, t).peak

SegmentDefined(E, seg, t) ==
    /\ Live(E, t)
    /\ seg.touch = "previous" => E.number[t] >= 2
    /\ LET a == SegmentBegin(E, seg, t)
           e == SegmentEnd(E, seg, t)
       IN  /\ IF seg.to = "next_origin" THEN a < e ELSE a <= e
           /\ e <= t

\* The first bar read: without the start bar, and at most last_n bars.
SegmentFirst(E, seg, t) ==
    LET a == SegmentBegin(E, seg, t)
        e == SegmentEnd(E, seg, t)
        kept == IF seg.include_start THEN a
                ELSE IF a = e /\ seg.empty = "end" THEN e ELSE a + 1
    IN  IF seg.last = None THEN kept ELSE Greater(kept, e - seg.last + 1)

\* Both legs of the current touch, whichever of them the segment reads.
EligibleLegs(E, el, x, t) ==
    el = None \/
    LET o == Touch(E, t).origin
        p == Touch(E, t).peak
        before(from, end) == Greater(from, end - el.window + 1) - 1
    IN  /\ HasWave(E, t)
        /\ el.pullback # None => t - p + 1 >= el.pullback
        /\ el.legs # None => p - o + 1 >= el.legs /\ t - p + 1 >= el.legs
        /\ el.window # None =>
              /\ before(o, p) >= 1 /\ before(p, t) >= 1
              /\ Clean(x, before(o, p), p) /\ Clean(x, before(p, t), t)
              /\ el.positive => x[p] - x[before(o, p)] > 0

TopSum(f, a, e, top) ==
    LET ordered == Ordered(f, a, e)
    IN  Total(ordered, Greater(1, Len(ordered) - top + 1), Len(ordered))

\* max, min, abs_sum, top_abs_sum and top_abs_share of the one-bar or
\* span-bar changes.
ChangeAggregate(seg, x, s, e) ==
    LET span == IF seg.span = None THEN 1 ELSE seg.span
        first == s + span - 1
        change == [u \in first..e |-> x[u] - x[u - span]]
        moves == [u \in first..e |-> Abs(change[u])]
        total == Total(moves, first, e)
        bars == e - first + 1
        top == TopSum(moves, first, e, seg.top)
    IN  IF s - 1 < 1 \/ first > e THEN NaN
        ELSE IF ~ Clean(x, s - 1, e) THEN NaN
        ELSE CASE seg.aggregate \in {"max", "min"} ->
                    WindowExtreme(change, first, e, seg.aggregate = "max")
               [] seg.aggregate = "abs_sum" -> total
               [] seg.aggregate = "top_abs_sum" -> top
               [] OTHER ->
                    IF total > 0 /\ bars > seg.top
                    THEN Quot(top * bars - seg.top * total, total * (bars - seg.top)) ELSE NaN

FromStart(seg, x, s, e) ==
    LET bars == e - s + 1
    IN  CASE seg.aggregate \in {"max", "min"} ->
                WindowExtreme(x, s, e, seg.aggregate = "max") - x[s]
          [] seg.aggregate = "sum" -> Total(x, s, e) - x[s] * bars
          [] OTHER -> Quot(Total(x, s, e), bars) - Unit * x[s]

Aggregated(seg, x, s, e) ==
    LET before == s - 1
        dirty == ~ Clean(x, s, e)
        total == IF seg.value = "level" THEN Total(x, s, e) ELSE x[e] - x[before]
    IN  IF seg.value = "level" /\ seg.aggregate \in {"min", "max"}
        THEN IF dirty THEN NaN ELSE WindowExtreme(x, s, e, seg.aggregate = "max")
        ELSE IF seg.value = "from_start"
        THEN IF dirty THEN NaN ELSE FromStart(seg, x, s, e)
        ELSE IF seg.aggregate \notin {"sum", "mean_per_bar"}
        THEN ChangeAggregate(seg, x, s, e)
        ELSE IF seg.value = "change" /\ before < 1 THEN NaN
        ELSE IF dirty \/ (seg.value = "change" /\ ~ Clean(x, before, e)) THEN NaN
        ELSE IF seg.aggregate = "sum" THEN total ELSE Quot(total, e - s + 1)

Segment(E, seg, x, t) ==
    IF ~ SegmentDefined(E, seg, t) THEN NaN
    ELSE LET s == SegmentFirst(E, seg, t)
             e == SegmentEnd(E, seg, t)
             value == Aggregated(seg, x, s, e)
         IN  IF s > e \/ ~ EligibleLegs(E, seg.eligibility, x, t) THEN NaN
             ELSE IF value = NaN THEN NaN ELSE IF seg.negate THEN -value ELSE value

-----------------------------------------------------------------------------
\* The change of a series over a fixed window or a leg, between two bars.
IntervalChange(E, interval, operation, x, t) ==
    LET episode == interval.kind = "episode"
        end == IF episode THEN LegEnd(E, t, interval.leg) ELSE t
        start == IF ~ episode THEN t - interval.bars
                 ELSE IF interval.last = None THEN LegStart(E, t, interval.leg)
                 ELSE Greater(LegStart(E, t, interval.leg), end - interval.last)
    IN  IF episode /\ ~ HasWave(E, t) THEN NaN
        ELSE IF start < 1 \/ start >= end THEN NaN
        ELSE IF x[start] = NaN \/ x[end] = NaN THEN NaN
        ELSE LET moved == x[end] - x[start]
                 bars == end - start
             IN  CASE operation = "change" -> moved
                   [] operation = "change_per_bar" -> Quot(moved, bars)
                   [] operation \in {"relative_change", "relative_change_per_bar"} ->
                        IF x[start] = 0 THEN NaN
                        ELSE IF operation = "relative_change" THEN Quot(moved, x[start])
                        ELSE Quot(moved, x[start] * bars)

\* The change since the peak, over at most last_n bars, our way.
WindowChange(E, s, x, last, form, t) ==
    IF ~ HasWave(E, t) THEN NaN
    ELSE LET start == Greater(Touch(E, t).peak, t - last)
             moved == SideSign(s) * (x[t] - x[start])
         IN  IF t <= start THEN NaN
             ELSE IF x[start] = NaN \/ x[t] = NaN THEN NaN
             ELSE IF form = "change" THEN moved
             ELSE IF x[start] = 0 THEN NaN ELSE Quot(10000 * moved, x[start] * (t - start))
=============================================================================
