------------------------------ MODULE MCEntries ------------------------------
(* An instance of EntryHistory for TLC: bars on which either side, both or   *)
(* neither touches the anchor, and specifications of every component.        *)
EXTENDS EntryHistory

\* A pin at the anchor in a rising stack; a run away from it without an ATR;
\* its counterpart in a falling stack; a dip below the anchor with too wide
\* an ATR; a bar with values missing.
Pin == [open |-> 10, high |-> 12, low |-> 8, close |-> 10, fast |-> 11, anchor |-> 10, slow |-> 9,
        hf |-> 3, ha |-> 2, hs |-> 1, rsi |-> 5, adx |-> 3, plus |-> 2, minus |-> 1,
        atr |-> 2, wide |-> 4, setup |-> TRUE]
Run == [Pin EXCEPT !.open = 10, !.high = 21, !.low = 11, !.close = 20, !.rsi = 9, !.adx = 1,
                   !.hf = 2, !.atr = NaN, !.wide = 5]
Fall == [Pin EXCEPT !.open = 11, !.fast = 9, !.slow = 11, !.hf = 1, !.hs = 3, !.rsi = 2,
                    !.plus = 1, !.minus = 3, !.atr = 3, !.wide = NaN]
Dip == [Pin EXCEPT !.close = 5, !.fast = 12, !.anchor = 6, !.low = 4, !.slow = 4, !.adx = 2, !.hf = 1, !.hs = 3,
                   !.plus = 1, !.minus = 4, !.atr = 12]
Missing == [Pin EXCEPT !.fast = NaN, !.adx = NaN, !.ha = NaN, !.rsi = NaN, !.setup = FALSE, !.wide = 2]

MCBeginnings == {<<>>}
MCShapes == {Pin, Run, Fall, Dip, Missing}

-----------------------------------------------------------------------------
Stop(i, usd) == [instance |-> i, id |-> "constant_usd_stop_loss", kind |-> "stop_loss", usd |-> usd]
Take(i, usd) == [instance |-> i, id |-> "constant_usd_take_profit", kind |-> "take_profit", usd |-> usd]
AtrStop(i, c) == [instance |-> i, id |-> "atr_stop_loss", kind |-> "stop_loss", atr |-> c]
AtrTake(i, c) == [instance |-> i, id |-> "atr_take_profit", kind |-> "take_profit", atr |-> c]
Pct(i, pct, f) == [instance |-> i, id |-> "pct_partial_take", kind |-> "partial_take", pct |-> pct, fraction |-> f]
AtrPart(i, c, f) == [instance |-> i, id |-> "atr_partial_take", kind |-> "partial_take", atr |-> c, fraction |-> f]
NoSignal(i) == [instance |-> i, id |-> "no_signal_exit", kind |-> "signal"]
RsiExit(i, a, b) == [instance |-> i, id |-> "rsi_signal_exit", kind |-> "signal", rsi |-> "rsi", above |-> a, below |-> b]
CloseExit(i, c) == [instance |-> i, id |-> "ema_close_loss_exit", kind |-> "signal", ema |-> "anchor", confirm |-> c]
CrossExit(i, c) == [instance |-> i, id |-> "ema_cross_loss_exit", kind |-> "signal",
                    fast |-> "fast", slow |-> "slow", confirm |-> c]

Exits(always, aligned, counter, neutral) ==
    [always_on |-> always, aligned |-> aligned, countertrend |-> counter, neutral |-> neutral]
Plain == Exits(<<Stop("s", 2), Take("t", 4)>>, <<>>, <<>>, <<>>)

Gate(context, regimes) == [context |-> context, regimes |-> regimes]
Setup(gate) == [instance |-> "pull", gate |-> gate]
Candle(i, gate) == [id |-> "counter_candle_blocker", instance |-> i, gate |-> gate]
Rsi(i, gate, n) == [id |-> "rsi_lookback_extreme_blocker", instance |-> i, gate |-> gate,
                    rsi |-> "rsi", lookback |-> n, above |-> 8, below |-> 3]
Trend(i, gate, age, flip) ==
    [id |-> "trend_strength_episode_blocker", instance |-> i, gate |-> gate, peak |-> 3, lookback |-> 3,
     age |-> age, current |-> 2, aligned |-> TRUE, flip |-> flip, margin |-> 1]

TouchAnchor == [id |-> "touch_anchor", lookback |-> 1]
ReclaimAnchor(id, n) == [id |-> id, lookback |-> n]

Htf == [htf |-> [fast |-> "hf", anchor |-> "ha", slow |-> "hs"],
        same |-> [fast |-> "hf", anchor |-> "ha", slow |-> "hs"],
        absent |-> [fast |-> "hf", anchor |-> None, slow |-> "hs"]]

Base == [sides |-> <<"long", "short">>, contexts |-> Htf, blockers |-> <<>>, setups |-> <<Setup(None)>>,
         trigger |-> TouchAnchor, exits |-> Plain, profile |-> None]

Ladder1 == Exits(<<AtrStop("s", "wide"), Take("t", 4)>>,
                 <<Pct("o", 8, 4), AtrPart("p", "atr", 5), Pct("q", 4, 5), RsiExit("r", 8, 3)>>,
                 <<Stop("u", 3), CloseExit("v", 2)>>,
                 <<AtrPart("p2", "atr", 5), Pct("p3", 8, 4)>>)
Crosses == Exits(<<CrossExit("a", 1), AtrStop("s", "atr"), AtrStop("w", "wide"), AtrTake("t", "wide")>>,
                 <<CrossExit("b", 2), NoSignal("n")>>, <<CloseExit("c", 1)>>, <<NoSignal("m")>>)

MCSpecs ==
    {Base,
     [Base EXCEPT !.exits = Exits(<<AtrPart("p", "wide", 5)>>, <<>>, <<>>, <<Take("t", 4), Stop("s", 2)>>)],
     [Base EXCEPT !.blockers = <<Candle("c", Gate("htf", {"aligned"})), Candle("d", None)>>,
                  !.exits = Ladder1, !.profile = "htf"],
     [Base EXCEPT !.blockers = <<Candle("c", Gate("same", {"aligned", "neutral"}))>>,
                  !.setups = <<Setup(Gate("same", {"neutral"}))>>, !.trigger = ReclaimAnchor("strong_reclaim_anchor", 1),
                  !.exits = Crosses, !.profile = "same"],
     [Base EXCEPT !.sides = <<"long">>, !.blockers = <<Rsi("r", Gate("absent", {"neutral"}), 2)>>,
                  !.trigger = ReclaimAnchor("reclaim_anchor", 2), !.exits = Crosses, !.profile = "absent"],
     [Base EXCEPT !.blockers = <<Trend("t", None, 1, TRUE), Rsi("r", None, 1)>>, !.profile = "htf", !.exits = Crosses],
     [Base EXCEPT !.sides = <<"short">>, !.blockers = <<Trend("t", Gate("htf", {"aligned"}), 2, FALSE)>>,
                  !.profile = "same", !.exits = Ladder1],
     [Base EXCEPT !.exits = Exits(<<Stop("s", 2), Take("s", 2)>>, <<>>, <<>>, <<>>)],
     [Base EXCEPT !.exits = Exits(<<Stop("s", 2)>>, <<Pct("p", 4, 5)>>, <<>>, <<>>), !.profile = "htf"]}
=============================================================================
