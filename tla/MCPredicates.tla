---------------------------- MODULE MCPredicates ----------------------------
(* An instance of PredicateHistory for TLC: a rising, a falling and a        *)
(* doubtful bar, and operands and predicates of every kind.                  *)
EXTENDS PredicateHistory

Up == [open |-> 10, high |-> 13, low |-> 9, close |-> 12, volume |-> 2, open_interest |-> 5,
       anchor |-> 9, x |-> 2, y |-> 1, scale |-> 2, regime |-> "up"]
Down == [open |-> 12, high |-> 12, low |-> 7, close |-> 8, volume |-> 3, open_interest |-> 4,
         anchor |-> 10, x |-> 5, y |-> 3, scale |-> 0, regime |-> "down"]
Gap == [open |-> 8, high |-> 14, low |-> 8, close |-> 9, volume |-> 1, open_interest |-> 0,
        anchor |-> 8, x |-> NaN, y |-> 2, scale |-> NaN, regime |-> "neutral"]

MCShapes == {Up, Down}
MCBeginnings == {<<Up, Gap, Down>>}

-----------------------------------------------------------------------------
Feature(column, kind, timeframe) ==
    [column |-> column, kind |-> kind, timeframe |-> timeframe, node |-> <<kind, column, timeframe>>]
X == Feature("x", "ema", "base")
Y == Feature("y", "ema", "base")
Higher == Feature("x", "ema", "higher")
Scale == Feature("scale", "atr", "base")
Wilder == Feature("none", "atr_wilder", "higher")

Const(v) == [k |-> "const", value |-> v]
Price(f) == [k |-> "price", field |-> f]
Raw(f) == [k |-> "feature", feature |-> f]
OfEpisode(f) == [k |-> "episode", episode |-> "wave", field |-> f]

Eligible(legs, window, positive, pullback) ==
    [legs |-> legs, window |-> window, positive |-> positive, pullback |-> pullback]

\* A segment with the fields that most segments leave at their defaults.
Plain(from, to, value, aggregate) ==
    [k |-> "segment", episode |-> "wave", left |-> X, right |-> None, by_side |-> FALSE,
     from |-> from, to |-> to, value |-> value, aggregate |-> aggregate, last |-> None,
     negate |-> FALSE, span |-> None, top |-> None, touch |-> "current",
     include_start |-> TRUE, empty |-> "missing", eligibility |-> None]

MCSegments ==
    {[Plain(ft[1], ft[2], v, a) EXCEPT !.last = l, !.span = sp, !.top = tp, !.touch = tc] :
        ft \in {<<"peak", "current">>, <<"origin", "peak">>, <<"peak", "next_origin">>},
        v \in {"level", "change", "change_over", "from_start"},
        a \in {"sum", "mean_per_bar", "max", "min", "abs_sum", "top_abs_share"},
        l \in {None, 2}, sp \in {None, 2}, tp \in {None, 1}, tc \in {"current", "previous"}}

Segments ==
    {Plain("origin", "current", "level", "max"),
     Plain("peak", "current", "change", "mean_per_bar"),
     [Plain("peak", "current", "level", "sum") EXCEPT !.right = Y, !.by_side = TRUE],
     [Plain("peak", "current", "level", "sum") EXCEPT !.right = Y],
     [Plain("peak", "current", "level", "sum") EXCEPT !.left = Y],
     [Plain("peak", "current", "level", "min") EXCEPT !.include_start = FALSE, !.empty = "end"],
     [Plain("peak", "current", "level", "min") EXCEPT !.include_start = FALSE],
     [Plain("origin", "peak", "change", "max") EXCEPT !.touch = "previous"],
     [Plain("peak", "next_origin", "level", "mean_per_bar") EXCEPT !.touch = "previous", !.negate = TRUE],
     [Plain("peak", "touch", "change_over", "abs_sum") EXCEPT !.span = 2],
     [Plain("peak", "current", "change", "top_abs_share") EXCEPT !.top = 1, !.last = 2],
     [Plain("origin", "current", "from_start", "sum")
        EXCEPT !.eligibility = Eligible(2, 1, TRUE, None)],
     [Plain("origin", "current", "level", "sum") EXCEPT !.eligibility = Eligible(None, None, FALSE, 2)]}

Candle(leg, direction, atr) ==
    [k |-> "candle", episode |-> "wave", leg |-> leg, timeframe |-> "higher",
     direction |-> direction, atr |-> atr]
Leg(k, leg) == [k |-> k, episode |-> "wave", leg |-> leg]
LegOf(k, leg, field) == [k |-> k, episode |-> "wave", leg |-> leg, field |-> field]
Top(leg) == [k |-> "leg_top_mean", episode |-> "wave", leg |-> leg, field |-> "volume", share |-> <<1, 2>>]
Moved(leg, touch) ==
    [k |-> "leg_change", episode |-> "wave", leg |-> leg, field |-> "open_interest", touch |-> touch]
Follow == [k |-> "anchor_follow", episode |-> "wave"]
Depth(touch) == [k |-> "pullback_depth", episode |-> "wave", touch |-> touch]
Impulse == [k |-> "impulse_atr", episode |-> "wave", atr |-> Scale]
Forming(field) ==
    [k |-> "forming_candle", episode |-> "wave", timeframe |-> "higher", atr |-> Wilder, field |-> field]
Windowed(form) ==
    [k |-> "window_change", episode |-> "wave", series |-> X, last |-> 2, form |-> form]

Leaves ==
    {Candle("pullback", "with", None), Candle("impulse", "against", None),
     Leg("leg_speed", "pullback"), Leg("leg_speed", "impulse"),
     Leg("leg_efficiency", "pullback"), Leg("leg_bars", "impulse"), Leg("leg_bars", "pullback"),
     LegOf("leg_mean", "pullback", "force_with"), LegOf("leg_mean", "impulse", "force_against"),
     LegOf("leg_sum", "impulse", "own_color_volume"), LegOf("leg_sum", "pullback", "own_color_volume"),
     Top("impulse"), Top("pullback"), Moved("impulse", "current"), Moved("pullback", "current"),
     Moved("impulse", "previous"), Follow, Depth("current"), Depth("previous"), Impulse,
     Forming("body"), Forming("range"), Windowed("change"), Windowed("slope")}

-----------------------------------------------------------------------------
Over(k, o) == [k |-> k, operand |-> o]
Scaled(o, f) == Over("scale", o) @@ [factor |-> f]
AtPoint(o, p) == Over("at_point", o) @@ [point |-> p, episode |-> "wave"]
Signed(o, c) == Over("signed", o) @@ [center |-> c]
OnlyIf(o, c) == Over("only_if", o) @@ [require |-> c]
Pair(k, a, b) == [k |-> k, left |-> a, right |-> b]
Ratio(a, b, mode) == Pair("ratio", a, b) @@ [floor |-> 0, mode |-> mode]
Magnitude(o) == [k |-> "abs", abs |-> o]
Fixed(n) == [kind |-> "fixed", bars |-> n, ref |-> None, leg |-> None, last |-> None]
OverLeg(leg, last) == [kind |-> "episode", bars |-> None, ref |-> "wave", leg |-> leg, last |-> last]
Change(o, i, op) == [k |-> "interval_change", of |-> o, interval |-> i, operation |-> op]

Within(o, lo, hi, bounds, empty) ==
    [k |-> "range", operand |-> o, min |-> lo, max |-> hi, bounds |-> bounds, empty |-> empty]

Combined ==
    {Scaled(Raw(X), 2), Scaled(Leg("leg_bars", "impulse"), 2),
     AtPoint(Raw(X), "peak"), AtPoint(Pair("difference", Raw(X), Price("close")), "origin"),
     Signed(Raw(X), 0), Signed(Raw(X), 3), Signed(AtPoint(Raw(Y), "peak"), 0),
     OnlyIf(Raw(X), Within(Raw(Y), 2, None, "inclusive", "block")),
     Ratio(Raw(X), Price("open"), "positive"),
     Ratio(Leg("leg_bars", "pullback"), Leg("leg_bars", "impulse"), "absolute"),
     Pair("difference", OfEpisode("touch_number"), Const(1)),
     Pair("difference", Price("high"), Price("low")),
     Magnitude(Pair("difference", Raw(X), Raw(Y))),
     Change(Raw(X), Fixed(2), "change"), Change(Raw(X), OverLeg("impulse", None), "change"),
     Change(Raw(X), OverLeg("pullback", 1), "change_per_bar"),
     Change(Pair("difference", Price("close"), Raw(Y)), OverLeg("impulse", None), "relative_change")}

MCOperands ==
    Segments \union Leaves \union Combined
        \union {Raw(X), Raw(Higher), Price("close"), OfEpisode("touch_number"), OfEpisode("episode_id")}

MCOfCandles == {Candle("pullback", "with", Wilder), Candle("impulse", "against", Wilder)}

MCMirrored ==
    {[Plain("origin", "current", "from_start", "sum") EXCEPT !.right = Y],
     [Plain("peak", "current", "change", "mean_per_bar") EXCEPT !.right = Y],
     Signed(Raw(X), 0), Signed(AtPoint(Raw(Y), "peak"), 0)}
        \union (Leaves \ {Moved("impulse", "current"), Moved("pullback", "current"),
                          Moved("impulse", "previous"), Windowed("slope")})

-----------------------------------------------------------------------------
Compare(a, op, b) == [k |-> "compare", left |-> a, op |-> op, right |-> b]
Since(f, n, op, v) == [k |-> "change", operand |-> Raw(f), lookback |-> n, op |-> op, value |-> v]
Of(c) == [k |-> "condition", long |-> c, short |-> None]
Sided(c, d) == [k |-> "condition", long |-> c, short |-> d]
State(regimes) == [k |-> "state", context |-> "trend", regimes |-> regimes]
Temporal(mode, n, p) == [k |-> "temporal", mode |-> mode, bars |-> n, of |-> p]

MCPredicateSet ==
    {Of(Compare(Price("close"), ">", Raw(X))), Of(Compare(Price("open"), ">", Raw(X))),
     Of(Compare(Raw(X), ">", Const(2))), Of(Compare(Raw(X), ">=", Const(2))),
     Of(Compare(Raw(X), ">", Const(3))),
     Sided(Compare(Raw(X), ">", Const(2)), Compare(Raw(X), "<", Const(2))),
     Sided(Compare(Leg("leg_bars", "pullback"), ">", Const(1)),
           Compare(Leg("leg_bars", "pullback"), ">", Const(2))),
     Of(Since(X, 1, ">", 0)), Of(Since(X, 2, ">", 0)), Of(Since(Higher, 1, ">", 0)),
     Of(Within(OfEpisode("touch_number"), 1, 1, "inclusive", "pass")),
     Of(Within(OfEpisode("touch_number"), 1, 1, "inclusive", "block")),
     Of(Within(Raw(X), 2, 5, "exclusive", "block")), Of(Within(Raw(X), 2, 5, "inclusive", "block")),
     Of(Within(Price("close"), 9, 12, "inclusive", "block")),
     Of(Within(Price("open"), 9, 12, "inclusive", "block")),
     State({"aligned"}), State({"aligned", "neutral"}),
     Temporal("held_for", 2, Of(Compare(Price("close"), ">", Raw(X)))),
     Temporal("within", 2, Of(Within(OfEpisode("touch_number"), 1, 2, "inclusive", "block"))),
     Temporal("held_for", 2, State({"aligned"}))}

MCPredicates ==
    MCPredicateSet
        \union {Of(Within(o, 0, None, "inclusive", "block")) :
                   o \in Segments \union Leaves \union Combined \union MCOfCandles}
=============================================================================
