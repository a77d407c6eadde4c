----------------------------- MODULE Predicates -----------------------------
(***************************************************************************)
(* Pre-entry predicates (strategies/ema_pullback/predicates.py): what the  *)
(* parser accepts, the columns an operand and a predicate evaluate to, and *)
(* the identity twin that names the memo node of each of them and the      *)
(* nodes its computation consumes.                                         *)
(*                                                                         *)
(* An operand is a record whose kind is its key in the request.  A feature *)
(* is planned already: its label, its kind and timeframe, the field of the *)
(* bars that holds its column, and the node its plan gave it.  A path is   *)
(* the sequence of roles from the condition down to an operand.            *)
(***************************************************************************)
EXTENDS WaveSegments

CONSTANTS
    Episodes,       \* the references ema_stack_episode declares
    Contexts        \* the references contexts declares

Sides == {"long", "short"}
Compares == {">", ">=", "<", "<="}
PriceFields == {"open", "high", "low", "close", "open_interest"}
Composed == {"scale", "interval_change", "ratio", "abs", "difference", "at_point",
             "signed", "only_if"}
OfWave == {"segment", "candle", "leg_mean", "leg_sum", "leg_top_mean", "anchor_follow",
           "pullback_depth", "leg_speed", "leg_efficiency", "leg_bars", "leg_change",
           "forming_candle", "impulse_atr", "window_change"}
Keys == Composed \union OfWave \union {"feature", "episode", "price", "const"}

\* The operands right below an operand, by role.
Children(o) ==
    CASE o.k \in {"scale", "at_point", "signed"} -> "operand" :> o.operand
      [] o.k = "interval_change"                -> "of" :> o.of
      [] o.k = "abs"                            -> "abs" :> o.abs
      [] o.k \in {"ratio", "difference"}        -> "left" :> o.left @@ "right" :> o.right
      [] o.k = "only_if"                        -> "operand" :> o.operand @@ "require" :> o.require.operand
      [] OTHER                                  -> <<>>

RECURSIVE NeedsEpisode(_), Features(_), HasSeriesLeaf(_)

NeedsEpisode(o) ==
    \/ o.k \in OfWave \union {"episode", "at_point", "signed", "only_if"}
    \/ o.k = "interval_change" /\ o.interval.kind = "episode"
    \/ /\ o.k \in {"scale", "abs", "difference", "ratio"}
       /\ \E r \in DOMAIN Children(o) : NeedsEpisode(Children(o)[r])

\* Every feature an operand reads; what the plan must hold for it.
Features(o) ==
    CASE o.k = "feature" -> {o.feature}
      [] o.k = "segment" -> {o.left, o.right} \ {None}
      [] o.k \in {"candle", "impulse_atr", "forming_candle"} -> {o.atr} \ {None}
      [] o.k = "window_change" -> {o.series}
      [] OTHER -> UNION {Features(Children(o)[r]) : r \in DOMAIN Children(o)}

HasSeriesLeaf(o) ==
    \/ o.k \in {"feature", "price"}
    \/ /\ o.k \in {"abs", "scale", "ratio", "difference"}
       /\ \E r \in DOMAIN Children(o) : HasSeriesLeaf(Children(o)[r])

-----------------------------------------------------------------------------
(* Parsing.                                                                *)

Positive(n) == n = None \/ n >= 1
Spans == {<<"origin", "peak">>, <<"peak", "current">>, <<"origin", "current">>,
          <<"peak", "touch">>, <<"peak", "next_origin">>}
TopAggregates == {"top_abs_sum", "top_abs_share"}
ChangeAggregates == {"abs_sum"} \union TopAggregates

\* Where the segment begins and ends.
SpanAccepted(g) ==
    /\ <<g.from, g.to>> \in Spans
    /\ g.touch = "previous" => <<g.from, g.to>> \in {<<"origin", "peak">>, <<"peak", "next_origin">>}
    /\ g.to = "next_origin" => g.touch = "previous"

\* Which aggregates of which values there are, and their parameters.
AggregateAccepted(g) ==
    /\ g.value = "from_start" => g.aggregate \in {"sum", "mean_per_bar", "max", "min"} /\ g.last = None
    /\ (g.value = "change_over") <=> (g.span # None)
    /\ Positive(g.span)
    /\ g.value = "level" => g.aggregate \notin ChangeAggregates
    /\ g.value = "change_over" => g.aggregate \notin {"sum", "mean_per_bar"}
    /\ (g.aggregate \in TopAggregates) <=> (g.top # None)
    /\ Positive(g.top) /\ Positive(g.last)
    /\ g.aggregate \in TopAggregates => g.last # None

BoundariesAccepted(g) ==
    (~ g.include_start \/ g.empty # "missing") => g.value = "level" /\ g.aggregate \in {"min", "max"}

EligibilityAccepted(el) ==
    el = None \/ (/\ el.positive => el.window # None
                  /\ Positive(el.legs) /\ Positive(el.window) /\ Positive(el.pullback))

SegmentAccepted(g) ==
    /\ g.episode \in Episodes
    /\ SpanAccepted(g) /\ AggregateAccepted(g) /\ BoundariesAccepted(g)
    /\ g.by_side => g.right # None
    /\ EligibilityAccepted(g.eligibility)

LegFields(k) ==
    CASE k = "leg_mean"     -> {"volume", "open_interest", "force_with", "force_against"}
      [] k = "leg_sum"      -> {"volume", "open_interest", "own_color_volume"}
      [] k = "leg_top_mean" -> {"volume", "open_interest"}
      [] k = "leg_change"   -> {"close", "open_interest"}

LegAccepted(o) ==
    /\ o.episode \in Episodes
    /\ o.k \in {"leg_mean", "leg_sum", "leg_top_mean", "leg_change"} => o.field \in LegFields(o.k)
    /\ o.k = "leg_top_mean" => 0 < o.share[1] /\ o.share[1] <= o.share[2]
    /\ o.k = "leg_change" /\ o.touch = "previous" => o.leg = "impulse"

CandleAccepted(o) ==
    /\ o.episode \in Episodes
    /\ o.timeframe # "base"
    /\ o.k = "forming_candle" => o.atr # None /\ o.field \in {"body", "range"}
    /\ o.atr # None => o.atr.kind = "atr_wilder" /\ o.atr.timeframe = o.timeframe

\* The series of an interval: arithmetic of base-timeframe series only.
RECURSIVE Sampled(_)
Sampled(o) ==
    /\ o.k \in {"feature", "price", "const", "difference", "ratio", "abs", "scale"}
    /\ o.k = "feature" => o.feature.timeframe = "base"
    /\ o.k = "ratio" /\ o.mode = "absolute" => o.floor >= 0
    /\ o.k = "scale" => HasSeriesLeaf(o.operand)
    /\ \A r \in DOMAIN Children(o) : Sampled(Children(o)[r])

RangeAccepted(c) ==
    /\ c.operand.k # "const"
    /\ c.min # None /\ c.max # None =>
          c.min <= c.max /\ ~ (c.bounds = "exclusive" /\ c.min = c.max)

\* What an operand over operands asks of the ones right below it.
ComposedAccepted(o) ==
    CASE o.k \in {"ratio", "difference"} -> ~ (o.left.k = "const" /\ o.right.k = "const")
      [] o.k = "abs"                -> o.abs.k \notin {"const", "abs", "ratio"}
      [] o.k = "at_point"           -> o.operand.k \notin {"const", "at_point"}
      [] o.k \in {"signed", "scale"} -> o.operand.k # "const"
      [] o.k = "only_if"            -> o.operand.k # "const" /\ RangeAccepted(o.require)
      [] o.k = "interval_change"    ->
            /\ Sampled(o.of) /\ HasSeriesLeaf(o.of)
            /\ o.interval.kind = "episode" => o.interval.ref \in Episodes

RECURSIVE Accepted(_)
Accepted(o) ==
    /\ o.k \in Keys
    /\ o.k \in {"at_point", "episode", "window_change", "impulse_atr"} => o.episode \in Episodes
    /\ CASE o.k = "segment" -> SegmentAccepted(o)
         [] o.k \in {"candle", "forming_candle"} -> CandleAccepted(o)
         [] o.k = "impulse_atr" -> o.atr.kind = "atr" /\ o.atr.timeframe = "base"
         [] o.k = "window_change" -> o.series.timeframe = "base" /\ o.last >= 1
         [] o.k = "price" -> o.field \in PriceFields
         [] o.k \in {"feature", "const", "episode"} -> TRUE
         [] o.k \in Composed -> ComposedAccepted(o)
         [] OTHER -> LegAccepted(o)
    /\ o.k = "ratio" /\ o.mode = "absolute" => o.floor >= 0
    /\ o.k # "interval_change" => \A r \in DOMAIN Children(o) : Accepted(Children(o)[r])

Operands(c) == IF c = None THEN <<>> ELSE IF c.k = "compare" THEN <<c.left, c.right>> ELSE <<c.operand>>

ConditionAccepted(c) ==
    /\ \A i \in 1..Len(Operands(c)) : Accepted(Operands(c)[i])
    /\ c.k = "compare" => ~ (c.left.k = "const" /\ c.right.k = "const") /\ c.op \in Compares
    /\ c.k = "range" => RangeAccepted(c)
    /\ c.k = "change" => c.operand.k = "feature" /\ c.lookback >= 1 /\ c.op \in Compares

\* A short override of an episode predicate replaces constants only, and
\* never brings in an episode operand; other classes keep their operand.
OverrideAccepted(long, short) ==
    /\ ConditionAccepted(short) /\ short.k = long.k
    /\ long.k # "compare" => short.operand = long.operand
    /\ long.k = "change" => short.lookback = long.lookback
    /\ long.k = "compare" =>
          \A i \in {j \in 1..2 : Operands(short)[j] # Operands(long)[j]} :
             /\ ~ NeedsEpisode(Operands(short)[i])
             /\ (\E j \in 1..2 : NeedsEpisode(Operands(long)[j])) => Operands(short)[i].k = "const"

RECURSIVE PredicateAccepted(_)
PredicateAccepted(p) ==
    CASE p.k = "state"    -> p.context \in Contexts /\ p.regimes # {}
      [] p.k = "temporal" -> p.bars >= 1 /\ p.of.k # "temporal" /\ PredicateAccepted(p.of)
      [] OTHER            -> /\ ConditionAccepted(p.long)
                             /\ p.short # None => OverrideAccepted(p.long, p.short)

-----------------------------------------------------------------------------
(* Evaluation.                                                             *)

FeatureAt(w, f, t) == IF f.kind = "atr_wilder" THEN Atr(w, t) ELSE w.bars[t][f.column]
FeatureSeries(w, f) == [u \in 1..w.n |-> FeatureAt(w, f, u)]

\* The series of a segment as its side reads it.
SegmentSeries(g, s, w) ==
    IF g.by_side THEN FeatureSeries(w, IF s = "long" THEN g.left ELSE g.right)
    ELSE [u \in 1..w.n |->
            LET x == FeatureAt(w, g.left, u)
                y == IF g.right = None THEN 0 ELSE FeatureAt(w, g.right, u)
            IN  IF x = NaN \/ y = NaN THEN NaN ELSE SideSign(s) * (x - y)]

LegSeries(o, s, w) ==
    CASE o.field \in {"force_with", "force_against"} -> ForceSeries(w, o.field, s)
      [] o.field = "own_color_volume"                -> OwnColorVolume(w, s, o.leg)
      [] OTHER                                       -> Column(w, o.field)

EpisodeValue(E, field, t) ==
    IF E.number[t] = NaN THEN NaN ELSE IF field = "touch_number" THEN E.number[t] ELSE E.id[t]

\* The operands that are a column of their own.
LeafValue(o, s, w, t) ==
    LET E == w.ep[s]
        close == Column(w, "close")
    IN  CASE o.k = "const"          -> o.value
          [] o.k = "price"          -> w.bars[t][o.field]
          [] o.k = "feature"        -> FeatureAt(w, o.feature, t)
          [] o.k = "episode"        -> EpisodeValue(E, o.field, t)
          [] o.k = "segment"        -> Segment(E, o, SegmentSeries(o, s, w), t)
          [] o.k = "candle"         -> CandleValue(w, E, s, o.leg, o.direction, o.atr # None, t)
          [] o.k = "leg_mean"       -> LegMean(E, LegSeries(o, s, w), o.leg, t)
          [] o.k = "leg_sum"        -> LegTotal(E, LegSeries(o, s, w), o.leg, t)
          [] o.k = "leg_top_mean"   -> LegTopMean(E, LegSeries(o, s, w), o.leg, o.share, t)
          [] o.k = "anchor_follow"  -> AnchorFollow(E, Column(w, "anchor"), s, t)
          [] o.k = "pullback_depth" -> PullbackDepth(w, E, s, o.touch, t)
          [] o.k = "leg_speed"      -> LegSpeed(E, close, o.leg, t)
          [] o.k = "leg_efficiency" -> LegEfficiency(E, close, o.leg, t)
          [] o.k = "leg_bars"       -> LegBars(E, o.leg, t)
          [] o.k = "leg_change"     -> LegChange(E, Column(w, o.field), o.leg, o.touch, t)
          [] o.k = "forming_candle" -> IF o.field = "range" THEN FormingRange(w, E, t)
                                       ELSE FormingBody(w, E, s, t)
          [] o.k = "impulse_atr"    -> ImpulseAtr(E, FeatureSeries(w, o.atr), t)
          [] o.k = "window_change"  ->
                WindowChange(E, s, FeatureSeries(w, o.series), o.last, o.form, t)

InBounds(c, v) ==
    /\ c.min # None => IF c.bounds = "exclusive" THEN v > c.min ELSE v >= c.min
    /\ c.max # None => IF c.bounds = "exclusive" THEN v < c.max ELSE v <= c.max

\* The value of an operand over operands, given theirs by role.
ComposedValue(o, s, below) ==
    IF \E r \in DOMAIN below : below[r] = NaN /\ (o.k = "only_if" => r = "require") THEN NaN
    ELSE CASE o.k = "scale" -> o.factor * below["operand"]
           [] o.k = "abs" -> Abs(below["abs"])
           [] o.k = "difference" -> below["left"] - below["right"]
           [] o.k = "ratio" ->
                 LET divisor == IF o.mode = "absolute" THEN Abs(below["right"]) ELSE below["right"]
                 IN  IF divisor > o.floor /\ below["right"] # 0
                     THEN Quot(below["left"], below["right"]) ELSE NaN
           [] o.k = "signed" ->
                 IF s = "long" THEN below["operand"] ELSE 2 * o.center - below["operand"]
           [] o.k = "only_if" -> IF InBounds(o.require, below["require"]) THEN below["operand"] ELSE NaN
           [] o.k = "at_point" -> below["operand"]

\* The bar the operands below are read on: an end of the wave for at_point.
ReadOn(o, s, w, t) ==
    CASE o.k # "at_point" -> t
      [] o.point = "peak" -> Touch(w.ep[s], t).peak
      [] OTHER            -> Touch(w.ep[s], t).origin

RECURSIVE ValueAt(_, _, _, _)
ValueAt(o, s, w, t) ==
    CASE o.k \notin Composed -> LeafValue(o, s, w, t)
      [] o.k = "interval_change" ->
            IntervalChange(w.ep[s], o.interval, o.operation, [u \in 1..w.n |-> ValueAt(o.of, s, w, u)], t)
      [] o.k = "at_point" /\ ~ HasWave(w.ep[s], t) -> NaN
      [] OTHER -> ComposedValue(o, s, [r \in DOMAIN Children(o) |->
                                         ValueAt(Children(o)[r], s, w, ReadOn(o, s, w, t))])

Holds(op, a, b) ==
    CASE op = ">" -> a > b [] op = ">=" -> a >= b [] op = "<" -> a < b [] op = "<=" -> a <= b

\* Base bars of one bar of the feature's timeframe.
BarRatio(f) == IF f.timeframe = "base" THEN 1 ELSE Timeframe

\* A condition on the values of its operands now and, of a change, then.
ConditionOn(c, now, then) ==
    CASE c.k = "compare" -> Both(now[1], now[2]) /\ Holds(c.op, now[1], now[2])
      [] c.k = "change"  -> Both(now[1], then[1]) /\ Holds(c.op, now[1] - then[1], c.value)
      [] c.k = "range"   -> IF now[1] = NaN THEN c.empty = "pass" ELSE InBounds(c, now[1])

ConditionAt(c, s, w, t) ==
    LET read == Operands(c)
        then == IF c.k = "change" THEN t - c.lookback * BarRatio(c.operand.feature) ELSE t
        on == [u \in {t, then} |-> [i \in 1..Len(read) |-> ValueAt(read[i], s, w, u)]]
    IN  then >= 1 /\ ConditionOn(c, on[t], on[then])

ForSide(p, s) == IF s = "short" /\ p.short # None THEN p.short ELSE p.long

Regime(raw, s) ==
    IF raw = "neutral" THEN "neutral"
    ELSE IF (raw = "up") = (s = "long") THEN "aligned" ELSE "countertrend"

RECURSIVE MaskAt(_, _, _, _)
MaskAt(p, s, w, t) ==
    CASE p.k = "state"    -> Regime(w.bars[t].regime, s) \in p.regimes
      [] p.k = "temporal" ->
            LET count == Cardinality({u \in Greater(1, t - p.bars + 1)..t : MaskAt(p.of, s, w, u)})
            IN  IF p.mode = "held_for" THEN count = p.bars ELSE count > 0
      [] OTHER            -> ConditionAt(ForSide(p, s), s, w, t)
=============================================================================
