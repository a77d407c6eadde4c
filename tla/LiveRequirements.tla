-------------------------- MODULE LiveRequirements --------------------------
(***************************************************************************)
(* How much history a live evaluation needs before its anchor              *)
(* (strategies/live_calculation, live_calculation_requirements.py): of its *)
(* indicators, of its components, and the start planned from both.         *)
(*                                                                         *)
(* A requirement is [tf, bars]: so many candles of a timeframe.  A         *)
(* specification is a record of                                            *)
(*   features    by label, as Indicators.tla describes them                *)
(*   sides, contexts, blockers, trigger, exits, profile                    *)
(*               as EntryChain.tla and ExitPolicy.tla read them            *)
(*   setups      [id, instance, gate, ...], the parameters included        *)
(*   predicates  those of its composite setups (Predicates.tla)            *)
(*   horizons    history_bars of its episodes, by reference                *)
(*   period      of the anchor EMA                                         *)
(***************************************************************************)
EXTENDS Indicators

CONSTANTS
    None,           \* an absent parameter
    Unit,           \* the denominator of ratios
    Timeframe,      \* base bars of a candle of the predicates' timeframe
    AtrPeriod,      \* of the Wilder ATR of that timeframe
    Episodes, Contexts,
    Tolerance,      \* its inverse is what is left of a seed that converged
    BounceTiers     \* <<largest anchor period, history bars>>, ascending

ASSUME TierAssumption ==
    /\ Tolerance \in Nat \ {0}
    /\ \A i, j \in DOMAIN BounceTiers : i < j => BounceTiers[i][1] < BounceTiers[j][1]

P == INSTANCE Predicates
X == INSTANCE ExitPolicy

Base == [d |-> 1, origin |-> 0]
Higher == [d |-> Timeframe, origin |-> 0]
Require(tf, bars) == [tf |-> tf, bars |-> bars]
Largest(numbers) == Max(numbers \union {0})
Span(r) == r.bars * r.tf.d

-----------------------------------------------------------------------------
(* Indicators.                                                             *)

\* The least n >= 1 with (num/den)^n within the tolerance; 1 for 0.
RECURSIVE Decayed(_, _, _)
Decayed(num, den, n) ==
    IF Tolerance * num ^ n <= den ^ n THEN n ELSE Decayed(num, den, n + 1)

EmaConvergence(p) == Decayed(p - 1, p + 1, 1)
WilderConvergence(p) == Decayed(p - 1, p, 1)

Finite == {"rsi", "atr", "rolling_max", "rolling_min"}
DirectionalKinds == {"adx", "di_plus", "di_minus"}

\* An rsi_ewm has a tolerance of its own: its convergence is given.
IndicatorBars(f) ==
    CASE f.kind = "atr_distance" -> 0
      [] f.kind = "candle_close_position" -> 1
      [] f.kind = "rolling_sum" -> f.period + f.lag
      [] f.kind = "rsi_ewm" -> 1 + f.convergence
      [] f.kind \in Finite -> f.period
      [] f.kind = "ema" -> EmaConvergence(f.period)
      [] f.kind \in DirectionalKinds -> 2 * f.period + 2 * WilderConvergence(f.period)
      [] f.kind = "atr_wilder" -> f.period + WilderConvergence(f.period)
      [] f.kind = "candle_body_atr" -> f.period + WilderConvergence(f.period) + 1

Features(spec) == {spec.features[label] : label \in DOMAIN spec.features}
IndicatorRequirements(spec) == {Require(f.tf, IndicatorBars(f)) : f \in Features(spec)}

-----------------------------------------------------------------------------
(* Predicates.                                                             *)

Below(o) == {P!Children(o)[r] : r \in DOMAIN P!Children(o)}

\* How far before its bar an operand reads, beyond its features' warm-up.
RECURSIVE OperandHistory(_, _)
OperandHistory(o, horizons) ==
    IF o.k = "interval_change"
    THEN IF o.interval.kind = "episode" THEN horizons[o.interval.ref] ELSE o.interval.bars
    ELSE LET most == Largest({OperandHistory(c, horizons) : c \in Below(o)})
         IN  IF o.k = "at_point" /\ most > 0 THEN most + horizons[o.episode] ELSE most

OperandsOf(p) ==
    LET of(c) == {P!Operands(c)[i] : i \in 1..Len(P!Operands(c))}
    IN  of(p.long) \union of(p.short)

\* A candle under the range of a forming one, wherever it occurs.
RECURSIVE FormsRange(_)
FormsRange(o) ==
    \/ o.k = "forming_candle" /\ o.field = "range"
    \/ \E c \in Below(o) : FormsRange(c)

RECURSIVE FormingHistory(_)
FormingHistory(p) ==
    CASE p.k = "state" -> {}
      [] p.k = "temporal" -> FormingHistory(p.of)
      [] OTHER -> IF \E o \in OperandsOf(p) : FormsRange(o) THEN {Require(Higher, 1)} ELSE {}

\* A temporal predicate counts its window in the timeframe of a change.
RECURSIVE BaseHistory(_, _)
BaseHistory(p, horizons) ==
    CASE p.k = "state" -> Require(Base, 0)
      [] p.k = "temporal" ->
            LET of == BaseHistory(p.of, horizons)
                inner == {of} \union FormingHistory(p.of)
            IN  Require(of.tf, p.bars - 1 + Largest({r.bars : r \in inner}))
      [] OTHER ->
            IF p.long.k = "change"
            THEN Require(IF p.long.operand.feature.timeframe = "base" THEN Base ELSE Higher, p.long.lookback)
            ELSE Require(Base, Largest({OperandHistory(o, horizons) : o \in OperandsOf(p)}))

PredicateRequirements(p, horizons) == {BaseHistory(p, horizons)} \union FormingHistory(p)

-----------------------------------------------------------------------------
(* Components.  All of them count base bars.                               *)

\* The tier of the anchor's period; None beyond the last.
BounceHistory(period) ==
    LET fits == {i \in DOMAIN BounceTiers : period <= BounceTiers[i][1]}
    IN  IF fits = {} THEN None ELSE BounceTiers[Min(fits)][2]

SetupBars(u, spec) ==
    CASE u.id = "untouched_anchor_setup" -> u.lookback + u.active - 1
      [] u.id = "anchor_stack_width_setup" -> u.lookback
      [] u.id = "anchor_stack_width_band_setup" -> 0
      [] u.id = "ema_bounce_counter_setup" -> BounceHistory(spec.period)

BlockerBars(b) ==
    IF b.id \in {"rsi_lookback_extreme_blocker", "trend_strength_episode_blocker"} THEN b.lookback ELSE 0

TriggerBars(trigger) == IF trigger.id = "touch_anchor" THEN 0 ELSE trigger.lookback

ExitBars(r) ==
    CASE r.id = "ema_close_loss_exit" -> r.confirm
      [] r.id = "ema_cross_loss_exit" -> r.confirm + 1
      [] OTHER -> 0

\* The anchor's period must lie within the last tier.
Supported(spec) ==
    \A u \in ToSet(spec.setups) : u.id = "ema_bounce_counter_setup" => BounceHistory(spec.period) # None

StrategyRequirements(spec) ==
    {Require(Base, n) : n \in
        {spec.horizons[e] : e \in DOMAIN spec.horizons}
        \union {SetupBars(u, spec) : u \in ToSet(spec.setups)}
        \union {BlockerBars(b) : b \in ToSet(spec.blockers)}
        \union {TriggerBars(spec.trigger)}
        \union {ExitBars(r) : r \in ToSet(X!Rules(spec))}}
    \union UNION {PredicateRequirements(p, spec.horizons) : p \in spec.predicates}

-----------------------------------------------------------------------------
(* The start of the history.                                               *)

Lcm(a, b) == (a * b) \div Gcd(a, b)
Common(numbers) == FoldSet(Lcm, 1, numbers)

IndicatorSpan(spec) == Largest({Span(r) : r \in IndicatorRequirements(spec)})
StrategySpan(spec) == Largest({Span(r) : r \in StrategyRequirements(spec)})

\* Back to a boundary of every timeframe in use, counted from time 0.
AlignedStart(spec, start) ==
    LET step == Common({f.tf.d : f \in Features(spec)})
    IN  (start \div step) * step

\* Mutant: the larger of the two spans, not both.
PlannedStartEither(spec, anchor) ==
    AlignedStart(spec, anchor - Largest({IndicatorSpan(spec), StrategySpan(spec)}))

\* Strategy components read indicators that are warm already.
PlannedStart(spec, anchor) ==
    AlignedStart(spec, anchor - (IndicatorSpan(spec) + StrategySpan(spec)))
=============================================================================
