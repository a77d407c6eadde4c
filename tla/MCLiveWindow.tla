---------------------------- MODULE MCLiveWindow ----------------------------
(* An instance of LiveWindow for TLC: a rising and a falling bar, and        *)
(* specifications whose windows are as long as their requirements.           *)
EXTENDS LiveWindow

Rise == [open |-> 4, high |-> 8, low |-> 4, close |-> 7, volume |-> 1, open_interest |-> NaN]
Fall == [open |-> 6, high |-> 7, low |-> 1, close |-> 3, volume |-> 3, open_interest |-> 2]
MCShapes == {Rise, Fall}

Two == [d |-> 2, origin |-> 0]
Three == [d |-> 3, origin |-> 0]
\* A week that begins on the second of its three bars.
Week == [d |-> 3, origin |-> 1]

Feature(kind, tf, period) ==
    [kind |-> kind, tf |-> tf, period |-> period, source |-> "close", availability |-> "bar_open"]
Of(source, f) == [f EXCEPT !.source = source]
AtClose(f) == [f EXCEPT !.availability = "bar_close"]
Lagged(f, n) == f @@ [lag |-> n]

\* Periods of one are exact: the price of the last completed candle.  The
\* slow EMA is the anchor.
Stack(tf) == [fast |-> Feature("ema", Base, 1), anchor |-> Feature("ema", tf, 1),
              slow |-> Feature("ema", tf, 1)]

NoExits == [g \in {"always_on", "aligned", "countertrend", "neutral"} |-> <<>>]
Signal(r) == r @@ [kind |-> "signal", instance |-> r.id]
CloseLoss(n) == Signal([id |-> "ema_close_loss_exit", ema |-> "anchor", confirm |-> n])
CrossLoss(n) == Signal([id |-> "ema_cross_loss_exit", fast |-> "fast", slow |-> "anchor", confirm |-> n])

Plain == [features |-> Stack(Two), sides |-> <<"long", "short">>, contexts |-> <<>>, blockers |-> <<>>,
          trigger |-> [id |-> "touch_anchor", lookback |-> 1], exits |-> NoExits, profile |-> None,
          setups |-> <<>>, predicates |-> {}, horizons |-> <<>>, period |-> 1]
With(features) == [Plain EXCEPT !.features = features @@ @]

Reclaims ==
    [With([rsi |-> Feature("rsi", Base, 2)]) EXCEPT
        !.blockers = <<[id |-> "rsi_lookback_extreme_blocker", instance |-> "r", gate |-> None,
                        rsi |-> "rsi", lookback |-> 2, above |-> 120, below |-> 80]>>,
        !.trigger = [id |-> "strong_reclaim_anchor", lookback |-> 2],
        !.exits = [NoExits EXCEPT !["always_on"] = <<CloseLoss(3)>>]]

Setup(r) == r @@ [instance |-> r.id, gate |-> None]
Wide ==
    [With([atr |-> Feature("atr", Base, 2)]) EXCEPT
        !.setups = <<Setup([id |-> "untouched_anchor_setup", lookback |-> 2, active |-> 2]),
                     Setup([id |-> "anchor_stack_width_setup", lookback |-> 3, current |-> 1, recent |-> 3]),
                     Setup([id |-> "anchor_stack_width_band_setup", min |-> 1, max |-> 8])>>]

Crossed == [Plain EXCEPT !.exits = [NoExits EXCEPT !["aligned"] = <<CrossLoss(3)>>,
                                                   !["neutral"] = <<CrossLoss(1)>>]]

Read(column, timeframe) ==
    [k |-> "feature", feature |-> [column |-> column, kind |-> "any", timeframe |-> timeframe, node |-> column]]
Price(field) == [k |-> "price", field |-> field]
Const(v) == [k |-> "const", value |-> v]
OneClass(c) == [k |-> "predicate", long |-> c, short |-> None]
Changed(column, timeframe, n) ==
    OneClass([k |-> "change", operand |-> Read(column, timeframe), lookback |-> n, op |-> ">", value |-> 0])
Moved(n) ==
    OneClass([k |-> "compare", op |-> ">", right |-> Const(0),
              left |-> [k |-> "interval_change", of |-> Price("close"), operation |-> "change",
                        interval |-> [kind |-> "bars", bars |-> n]]])
During(mode, n, p) == [k |-> "temporal", mode |-> mode, bars |-> n, of |-> p]

Changes ==
    [With([top |-> Of("high", Feature("rolling_max", Two, 1))]) EXCEPT
        !.predicates = {During("held_for", 2, Changed("top", "higher", 1))}]
Moves ==
    [With([sum |-> Lagged(Of("volume", Feature("rolling_sum", Base, 2)), 1)]) EXCEPT
        !.predicates = {During("within", 2, Moved(2)), Changed("sum", "base", 2)}]

Bodies == With([body |-> Feature("candle_body_atr", Two, 1)])
Smooth == With([higher |-> Feature("ema", Two, 3), base |-> Of("open", Feature("ema", Base, 3)),
                wilder |-> Feature("atr_wilder", Base, 2),
                stop |-> [kind |-> "atr_distance", tf |-> Base, multiplier |-> 2,
                          of |-> Feature("atr", Base, 2)]])
Grids == With([position |-> AtClose(Feature("candle_close_position", Three, 1)),
               low |-> Of("low", Feature("rolling_min", Two, 1))])

Bounces(period) ==
    [Plain EXCEPT !.setups = <<Setup([id |-> "ema_bounce_counter_setup"])>>, !.period = period]

MCSpecs == {Reclaims, Wide, Crossed, Changes, Moves, Bodies, Smooth, Grids, Bounces(1), Bounces(3)}

\* A blocker that looks back on an RSI of a higher timeframe.
MCRsiSpecs ==
    {[With([rsi |-> Feature("rsi", Two, 2)]) EXCEPT
        !.blockers = <<[id |-> "rsi_lookback_extreme_blocker", instance |-> "r", gate |-> None,
                        rsi |-> "rsi", lookback |-> 2, above |-> 120, below |-> 80]>>]}

\* A higher timeframe whose grid does not begin at time 0.
MCWeekSpecs == {With([top |-> Of("high", Feature("rolling_max", Week, 1))])}

MCTiers == <<<<1, 3>>, <<2, 5>>>>
=============================================================================
