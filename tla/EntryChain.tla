----------------------------- MODULE EntryChain -----------------------------
(***************************************************************************)
(* How an entry of the EMA pullback comes to be allowed on a bar:          *)
(* contexts.py, context_consumption.py, direction_blockers.py, triggers.py *)
(* and risk.py, over the mask of a setup (Setups.tla models setups).       *)
(*                                                                         *)
(* A world w is one frame: w.n bars, w.bars[t] with the candle and the     *)
(* feature columns.  A mask is a function of the bars, as the tuples and   *)
(* arrays of the code.  A specification is a record:                       *)
(*   sides, contexts (columns by reference), blockers, setups, trigger,    *)
(*   exits (groups of rules) and profile (the context of the exits).       *)
(***************************************************************************)
EXTENDS Integers, SequencesExt, FiniteSetsExt

CONSTANTS
    NaN,            \* a missing value
    None            \* an absent parameter

Sides == {"long", "short"}
Bars(w) == 1..w.n
At(w, column, t) == w.bars[t][column]

\* Comparisons with a missing value are false.
Over(a, b) == a # NaN /\ b # NaN /\ a > b
OverOrOn(a, b) == a # NaN /\ b # NaN /\ a >= b
Ahead(s, a, b) == IF s = "long" THEN Over(a, b) ELSE Over(b, a)
AheadOrOn(s, a, b) == IF s = "long" THEN OverOrOn(a, b) ELSE OverOrOn(b, a)

All(masks, w) == [t \in Bars(w) |-> \A m \in masks : m[t]]
Both(m, k) == [t \in DOMAIN m |-> m[t] /\ k[t]]

-----------------------------------------------------------------------------
(* Contexts and the gates that consume them.                               *)

\* A context whose columns the frame does not hold is neutral throughout.
ContextState(spec, ref, w) ==
    LET c == spec.contexts[ref]
        fast(t) == At(w, c.fast, t)
        anchor(t) == At(w, c.anchor, t)
        slow(t) == At(w, c.slow, t)
    IN  [t \in Bars(w) |->
            IF None \in {c.fast, c.anchor, c.slow} THEN "neutral"
            ELSE IF Over(fast(t), anchor(t)) /\ Over(anchor(t), slow(t)) THEN "up"
            ELSE IF Over(anchor(t), fast(t)) /\ Over(slow(t), anchor(t)) THEN "down"
            ELSE "neutral"]

Regime(state, s) ==
    CASE state = "neutral" -> "neutral"
      [] state = (IF s = "long" THEN "up" ELSE "down") -> "aligned"
      [] OTHER -> "countertrend"

\* The gates of a specification: those of its blockers, then of its setups.
Gates(spec) ==
    LET of(role, items) ==
            {[role |-> role, instance |-> c.instance, context |-> c.gate.context,
              regimes |-> c.gate.regimes] : c \in {d \in ToSet(items) : d.gate # None}}
    IN  of("blocker", spec.blockers) \union of("setup", spec.setups)

\* A component is gated by the gate that bears its instance_id.
Gated(spec, role, instance, s, w, mask) ==
    LET mine == {g \in Gates(spec) : g.role = role /\ g.instance = instance}
    IN  IF mine = {} THEN mask
        ELSE LET g == CHOOSE h \in mine : TRUE
                 state == ContextState(spec, g.context, w)
             IN  [t \in Bars(w) |-> mask[t] /\ Regime(state[t], s) \in g.regimes]

\* The exit profile on every bar; a side that is off is neutral.
Profile(spec, s, w) ==
    IF spec.profile = None \/ s \notin ToSet(spec.sides)
    THEN [t \in Bars(w) |-> "neutral"]
    ELSE LET state == ContextState(spec, spec.profile, w)
         IN  [t \in Bars(w) |-> Regime(state[t], s)]

-----------------------------------------------------------------------------
(* Direction and blockers.                                                 *)

Direction(s, w) ==
    [t \in Bars(w) |-> /\ Ahead(s, At(w, "fast", t), At(w, "anchor", t))
                       /\ Ahead(s, At(w, "anchor", t), At(w, "slow", t))]

\* rolling(lookback, min_periods=1) over a mask.
RollingAny(m, lookback, t) == \E u \in Max({1, t - lookback + 1})..t : m[u]

RsiBlocker(b, s, w) ==
    LET extreme == [t \in Bars(w) |->
                       IF s = "long" THEN Over(At(w, b.rsi, t), b.above) ELSE Over(b.below, At(w, b.rsi, t))]
    IN  [t \in Bars(w) |-> ~ RollingAny(extreme, b.lookback, t)]

Strong(b, s, w, t) ==
    /\ NaN \notin {At(w, "adx", t), At(w, "plus", t), At(w, "minus", t)}
    /\ At(w, "adx", t) >= b.peak
    /\ b.aligned => Ahead(s, At(w, "plus", t), At(w, "minus", t))

\* Mutant: the window of the peak holds one bar too many.
PeakAtOlder(b, s, w, t) ==
    LET last[u \in 0..t] == IF u = 0 THEN 0 ELSE IF Strong(b, s, w, u) THEN u ELSE last[u - 1]
    IN  IF last[t] >= t - b.lookback THEN last[t] ELSE 0

\* The peak of a bar: the last strong bar so far, if it lies in the window;
\* 0 without one.
PeakAt(b, s, w, t) ==
    LET last[u \in 0..t] == IF u = 0 THEN 0 ELSE IF Strong(b, s, w, u) THEN u ELSE last[u - 1]
    IN  IF last[t] >= t - b.lookback + 1 THEN last[t] ELSE 0

\* Why the trend blocker blocks a bar; "" where it allows it.
Blocked(b, s, w, t) ==
    LET peak == PeakAt(b, s, w, t)
        with == IF s = "long" THEN At(w, "plus", t) ELSE At(w, "minus", t)
        against == IF s = "long" THEN At(w, "minus", t) ELSE At(w, "plus", t)
    IN  CASE NaN \in {At(w, "adx", t), with, against} -> "indicator_not_ready"
          [] OTHER -> IF peak = 0 THEN "no_recent_adx_peak"
                      ELSE IF t - peak > b.age THEN "peak_too_old"
                      ELSE IF At(w, "adx", t) < b.current THEN "current_adx_too_low"
                      ELSE IF b.flip /\ against > with + b.margin THEN "opposite_di_flip"
                      ELSE ""

Intrinsic(b, s, w) ==
    CASE b.id = "no_blockers" -> [t \in Bars(w) |-> TRUE]
      [] b.id = "counter_candle_blocker" ->
            [t \in Bars(w) |-> AheadOrOn(s, At(w, "close", t), At(w, "open", t))]
      [] b.id = "rsi_lookback_extreme_blocker" -> RsiBlocker(b, s, w)
      [] b.id = "trend_strength_episode_blocker" -> [t \in Bars(w) |-> Blocked(b, s, w, t) = ""]

\* Without blockers there is the one that blocks nothing.
BlockerItems(spec) ==
    IF spec.blockers = <<>>
    THEN <<[id |-> "no_blockers", instance |-> "no_blockers", gate |-> None]>>
    ELSE spec.blockers

BlockerAllowed(spec, b, s, w) == Gated(spec, "blocker", b.instance, s, w, Intrinsic(b, s, w))

BlockersOk(spec, s, w) == All({BlockerAllowed(spec, b, s, w) : b \in ToSet(BlockerItems(spec))}, w)

\* Mutant: the direction is left out.
PreSetupUndirected(spec, s, w) == BlockersOk(spec, s, w)

PreSetup(spec, s, w) == Both(Direction(s, w), BlockersOk(spec, s, w))

-----------------------------------------------------------------------------
(* Setups, trigger, risk.                                                  *)

Local(w) == [t \in Bars(w) |-> At(w, "setup", t)]
SetupAllowed(spec, u, s, w) == Gated(spec, "setup", u.instance, s, w, Local(w))
SetupsOk(spec, s, w) == All({SetupAllowed(spec, u, s, w) : u \in ToSet(spec.setups)}, w)
PreTrigger(spec, s, w) == Both(PreSetup(spec, s, w), SetupsOk(spec, s, w))

\* The anchor was reached in one of the lookback bars before t, all of which
\* exist, and t closes beyond it.
Probed(strong, s, w, u) ==
    LET probe == IF strong THEN "close" ELSE IF s = "long" THEN "low" ELSE "high"
    IN  AheadOrOn(s, At(w, "anchor", u), At(w, probe, u))

Reclaim(trigger, s, w) ==
    [t \in Bars(w) |->
        /\ t - 1 >= trigger.lookback
        /\ \E u \in (t - trigger.lookback)..(t - 1) :
              Probed(trigger.id = "strong_reclaim_anchor", s, w, u)
        /\ Ahead(s, At(w, "close", t), At(w, "anchor", t))]

CloseOk(s, w, t) == AheadOrOn(s, At(w, "close", t), At(w, "anchor", t))

Triggered(trigger, s, w) ==
    IF trigger.id = "touch_anchor"
    THEN [t \in Bars(w) |-> Probed(FALSE, s, w, t) /\ CloseOk(s, w, t)]
    ELSE Reclaim(trigger, s, w)

PreRisk(spec, s, w) == Both(PreTrigger(spec, s, w), Triggered(spec.trigger, s, w))

\* The one risk component lets every entry through.
EntryAllowed(spec, s, w) ==
    IF s \in ToSet(spec.sides) THEN Both(PreRisk(spec, s, w), [t \in Bars(w) |-> TRUE])
    ELSE [t \in Bars(w) |-> FALSE]
=============================================================================
