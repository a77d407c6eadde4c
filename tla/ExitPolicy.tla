----------------------------- MODULE ExitPolicy -----------------------------
(***************************************************************************)
(* The standard exit policy of the EMA pullback (exits.py) and what is     *)
(* projected from it: the opportunities and signal events of a history     *)
(* (historical_execution_projection.py), the potential entries             *)
(* (potential_entries.py) and the live entry plan (live_entry.py).         *)
(*                                                                         *)
(* A rule is a record [instance, id, kind, ...].  A distance is an integer *)
(* and its ratio to the close is kept in whole Units.                      *)
(***************************************************************************)
EXTENDS EntryChain

CONSTANT Unit       \* the denominator of ratios

Groups == {"always_on", "aligned", "countertrend", "neutral"}
Profiles == {"aligned", "countertrend", "neutral"}
Signals == {"no_signal_exit", "rsi_signal_exit", "ema_close_loss_exit", "ema_cross_loss_exit"}

\* The elements of a sequence that are in a set, as they stood.
Among(s, kept) ==
    LET first[i \in 0..Len(s)] ==
            IF i = 0 THEN <<>> ELSE IF s[i] \in kept THEN Append(first[i - 1], s[i]) ELSE first[i - 1]
    IN  first[Len(s)]

\* The sorting of Python: ascending by key, ties as they stood.  Where each
\* element goes, and what stands at each place.
Places(key) ==
    [i \in DOMAIN key |->
        1 + Cardinality({j \in DOMAIN key : key[j] < key[i] \/ (key[j] = key[i] /\ j < i)})]
Order(places) == [n \in DOMAIN places |-> CHOOSE i \in DOMAIN places : places[i] = n]
Sorted(s, key) ==
    LET order == Order(Places(key))
    IN  [n \in DOMAIN s |-> s[order[n]]]

\* All rules in the order they are declared: group by group.
Rules(spec) ==
    spec.exits["always_on"] \o spec.exits["aligned"] \o spec.exits["countertrend"] \o spec.exits["neutral"]
Applying(spec, profile, kind) ==
    LET rules == spec.exits["always_on"] \o spec.exits[profile]
    IN  Among(rules, {r \in ToSet(rules) : r.kind = kind})

\* Static validation: no two rules share an instance_id, and the partial
\* takes of a profile leave something for a final take.
DistinctInstances(spec) ==
    \A i, j \in DOMAIN Rules(spec) : Rules(spec)[i].instance = Rules(spec)[j].instance => i = j

LadderAccepted(spec, profile) ==
    LET legs == Applying(spec, profile, "partial_take")
        total == FoldLeft(LAMBDA sum, r : sum + r.fraction, 0, legs)
    IN  legs # <<>> => /\ total < Unit
                       /\ Applying(spec, profile, "take_profit") # <<>>

Accepted(spec) == DistinctInstances(spec) /\ \A p \in Profiles : LadderAccepted(spec, p)

-----------------------------------------------------------------------------
(* Rules.                                                                  *)

\* rolling(bars, min_periods=bars).min() over a mask.
Held(m, bars, t) == t >= bars /\ \A u \in (t - bars + 1)..t : m[u]

\* Mutant: a crossing at any earlier bar counts.
CrossLossEver(r, s, w) ==
    LET adverse == [t \in Bars(w) |-> Ahead(s, At(w, r.slow, t), At(w, r.fast, t))]
        cross == [t \in Bars(w) |->
                    adverse[t] /\ t > 1 /\ AheadOrOn(s, At(w, r.fast, t - 1), At(w, r.slow, t - 1))]
    IN  IF r.confirm = 1 THEN cross
        ELSE [t \in Bars(w) |-> Held(adverse, r.confirm, t) /\ RollingAny(cross, t, t)]

CrossLoss(r, s, w) ==
    LET adverse == [t \in Bars(w) |-> Ahead(s, At(w, r.slow, t), At(w, r.fast, t))]
        cross == [t \in Bars(w) |->
                    adverse[t] /\ t > 1 /\ AheadOrOn(s, At(w, r.fast, t - 1), At(w, r.slow, t - 1))]
    IN  IF r.confirm = 1 THEN cross
        ELSE [t \in Bars(w) |-> Held(adverse, r.confirm, t) /\ RollingAny(cross, r.confirm, t)]

CloseLoss(r, s, w) ==
    LET lost == [t \in Bars(w) |-> Ahead(s, At(w, r.ema, t), At(w, "close", t))]
    IN  [t \in Bars(w) |-> Held(lost, r.confirm, t)]

\* The signal of a rule; a side that is off has none.
Signal(spec, r, s, w) ==
    CASE s \notin ToSet(spec.sides) \/ r.id = "no_signal_exit" -> [t \in Bars(w) |-> FALSE]
      [] OTHER ->
            CASE r.id = "rsi_signal_exit" ->
                    [t \in Bars(w) |-> IF s = "long" THEN Over(At(w, r.rsi, t), r.above)
                                       ELSE Over(r.below, At(w, r.rsi, t))]
              [] r.id = "ema_close_loss_exit" -> CloseLoss(r, s, w)
              [] r.id = "ema_cross_loss_exit" -> CrossLoss(r, s, w)

\* What a distance rule keeps the price away by, and the same over the close.
Distance(r, w) ==
    [t \in Bars(w) |->
        CASE r.id = "pct_partial_take" -> (At(w, "close", t) * r.pct) \div Unit
          [] r.id \in {"atr_stop_loss", "atr_take_profit", "atr_partial_take"} -> At(w, r.atr, t)
          [] OTHER -> r.usd]

Ratio(r, w) ==
    [t \in Bars(w) |->
        IF r.id = "pct_partial_take" THEN r.pct
        ELSE IF Distance(r, w)[t] = NaN THEN NaN
        ELSE (Unit * Distance(r, w)[t]) \div At(w, "close", t)]

-----------------------------------------------------------------------------
(* The policy: always-on rules together with those of the bar's profile.   *)

AnySignal(spec, profile, s, w) ==
    LET rules == ToSet(Applying(spec, profile, "signal"))
        fired == {Signal(spec, r, s, w) : r \in rules}
    IN  [t \in Bars(w) |-> \E m \in fired : m[t]]

\* The minimum skips missing values.
Nearest(columns, w) ==
    [t \in Bars(w) |-> LET there == {c[t] : c \in columns} \ {NaN}
                       IN  IF there = {} THEN NaN ELSE Min(there)]

RatioOf(spec, profile, kind, w) ==
    Nearest({Ratio(r, w) : r \in ToSet(Applying(spec, profile, kind))}, w)
DistanceOf(spec, profile, kind, w) ==
    Nearest({Distance(r, w) : r \in ToSet(Applying(spec, profile, kind))}, w)

Ready(spec, profile, w) ==
    [t \in Bars(w) |->
        /\ \A kind \in {"stop_loss", "take_profit"} :
              Applying(spec, profile, kind) # <<>> => RatioOf(spec, profile, kind, w)[t] # NaN
        /\ \A r \in ToSet(Applying(spec, profile, "partial_take")) : Ratio(r, w)[t] # NaN]

\* The value of a column by profile on the profile of every bar.
Select(spec, s, w, by(_)) ==
    LET profile == Profile(spec, s, w)
        column == [p \in Profiles |-> by(p)]
    IN  [t \in Bars(w) |-> column[profile[t]][t]]

SelectedSignal(spec, s, w) == Select(spec, s, w, LAMBDA p : AnySignal(spec, p, s, w))
SelectedReady(spec, s, w) == Select(spec, s, w, LAMBDA p : Ready(spec, p, w))
SelectedRatio(spec, kind, s, w) == Select(spec, s, w, LAMBDA p : RatioOf(spec, p, kind, w))
SelectedDistance(spec, kind, s, w) == Select(spec, s, w, LAMBDA p : DistanceOf(spec, p, kind, w))

-----------------------------------------------------------------------------
(* The historical execution projection.                                    *)

\* A ratio is attributed to the first rule, as declared, that has it; None
\* for a ratio no rule has, which fails the projection.
Attributed(spec, kind, profile, t, ratio, w) ==
    LET rules == Applying(spec, profile, kind)
        first == {i \in DOMAIN rules : Ratio(rules[i], w)[t] = ratio}
    IN  IF first = {} THEN None ELSE rules[Min(first)].instance

InitialLeg(spec, kind, s, t, w) ==
    LET ratio == SelectedRatio(spec, kind, s, w)[t]
    IN  IF ratio = NaN THEN None
        ELSE [ratio |-> ratio, rule |-> Attributed(spec, kind, Profile(spec, s, w)[t], t, ratio, w)]

\* The partial takes in force, nearest first, ties as declared.
Ladder(spec, s, t, w) ==
    LET rules == Applying(spec, Profile(spec, s, w)[t], "partial_take")
        legs == [i \in DOMAIN rules |-> [take |-> rules[i].instance, ratio |-> Ratio(rules[i], w)[t],
                                         fraction |-> rules[i].fraction]]
    IN  Sorted(legs, [i \in DOMAIN legs |-> legs[i].ratio])

Executable(spec, s, t, w) == EntryAllowed(spec, s, w)[t] /\ SelectedReady(spec, s, w)[t]

\* None where there is none.
Opportunity(spec, s, t, w) ==
    IF ~ Executable(spec, s, t, w) THEN None
    ELSE [side |-> s, bar |-> t, profile |-> Profile(spec, s, w)[t],
          stop |-> InitialLeg(spec, "stop_loss", s, t, w),
          take |-> InitialLeg(spec, "take_profit", s, t, w),
          partial |-> Ladder(spec, s, t, w)]

\* The rules of a profile whose signal fired on a bar, as declared.
Candidates(spec, profile, s, t, w) ==
    LET rules == Among(Rules(spec), ToSet(Applying(spec, profile, "signal")))
    IN  Among(rules, {r \in ToSet(rules) : Signal(spec, r, s, w)[t]})

-----------------------------------------------------------------------------
(* Prices: the potential entries and the live plan.                        *)

Positive(v) == v # NaN /\ v > 0
Away(s, price, distance) == IF s = "long" THEN price + distance ELSE price - distance
Toward(s, price, distance) == IF s = "long" THEN price - distance ELSE price + distance

\* Entry, stop and take around a price, all of them positive; else None.
Priced(spec, s, price, t, w) ==
    LET stop == SelectedDistance(spec, "stop_loss", s, w)[t]
        take == SelectedDistance(spec, "take_profit", s, w)[t]
    IN  IF ~ (Positive(price) /\ Positive(stop) /\ Positive(take)) THEN None
        ELSE IF Positive(Toward(s, price, stop)) /\ Positive(Away(s, price, take))
             THEN [entry |-> price, stop |-> Toward(s, price, stop), take |-> Away(s, price, take)]
             ELSE None

\* What an order resting at the anchor would be; only for touch_anchor.
PotentialEntry(spec, s, t, w) ==
    IF spec.trigger.id # "touch_anchor" \/ s \notin ToSet(spec.sides) THEN None
    ELSE IF PreTrigger(spec, s, w)[t] /\ CloseOk(s, w, t) THEN Priced(spec, s, At(w, "anchor", t), t, w)
    ELSE None

\* What an order at the close of the signal bar would be.
TouchEntry(spec, s, t, w) ==
    IF spec.trigger.id # "touch_anchor" \/ ~ EntryAllowed(spec, s, w)[t] THEN None
    ELSE Priced(spec, s, At(w, "close", t), t, w)

\* Mutant: the legs of a plan stay as declared.
PlannedLegsDeclared(spec, s, entry, t, w) ==
    LET rules == Applying(spec, Profile(spec, s, w)[t], "partial_take")
        distance(r) == IF r.id = "pct_partial_take" THEN (entry * r.pct) \div Unit ELSE Distance(r, w)[t]
        legs == [i \in DOMAIN rules |-> [take |-> rules[i].instance, fraction |-> rules[i].fraction,
                                         distance |-> distance(rules[i])]]
    IN  IF \E i \in DOMAIN legs : ~ Positive(legs[i].distance) \/ ~ Positive(Away(s, entry, legs[i].distance))
        THEN None ELSE legs

\* The frozen legs of a plan; None if one of them has no price.
PlannedLegs(spec, s, entry, t, w) ==
    LET rules == Applying(spec, Profile(spec, s, w)[t], "partial_take")
        distance(r) == IF r.id = "pct_partial_take" THEN (entry * r.pct) \div Unit ELSE Distance(r, w)[t]
        legs == [i \in DOMAIN rules |-> [take |-> rules[i].instance, fraction |-> rules[i].fraction,
                                         distance |-> distance(rules[i])]]
    IN  IF \E i \in DOMAIN legs : ~ Positive(legs[i].distance) \/ ~ Positive(Away(s, entry, legs[i].distance))
        THEN None ELSE Sorted(legs, [i \in DOMAIN legs |-> legs[i].distance])

LivePlan(mode, spec, s, t, w) ==
    LET prices == IF mode = "touch_trigger" THEN TouchEntry(spec, s, t, w) ELSE PotentialEntry(spec, s, t, w)
    IN  IF prices = None THEN None
        ELSE LET legs == PlannedLegs(spec, s, prices.entry, t, w)
             IN  IF legs = None THEN None
                 ELSE [entry |-> prices.entry, stop |-> prices.stop, take |-> prices.take, side |-> s, bar |-> t,
                       profile |-> Profile(spec, s, w)[t], partial |-> legs]
=============================================================================
