----------------------------- MODULE LiveWindow -----------------------------
(***************************************************************************)
(* The live evaluation of a specification on a window of the committed     *)
(* history (strategies/application/load_live_feature_frame.py): bounds are *)
(* read, the window is planned, its candles are loaded and its columns     *)
(* computed, while the market moves on.                                    *)
(*                                                                         *)
(* Time is counted in base bars; the history holds the bars from earliest  *)
(* on.  An answer keeps what was computed on the window and, to compare it *)
(* with, what a frame of the whole history holds.                          *)
(***************************************************************************)
EXTENDS LiveRequirements

CONSTANTS
    Scale,          \* exact values are whole numbers of 1/Scale in masks
    Specs,          \* the specifications asked for
    Shapes,         \* the bars the market may print
    Starts,         \* when its history may begin
    Reach,          \* bound: how far before the latest bar requests look
    MinBars, MaxBars    \* bounds: history when it is asked and at the end

VARIABLES earliest, bars, call

vars == <<earliest, bars, call>>

Latest == earliest + Len(bars) - 1
Sides == {"long", "short"}
Idle == [phase |-> "idle"]

-----------------------------------------------------------------------------
(* The columns of a frame, and the world EntryChain and Predicates read.   *)

Columns(spec, frame) == [label \in DOMAIN spec.features |-> Column(spec.features[label], frame)]

Scaled(v) == IF v = NaN THEN NaN ELSE (v[1] * Scale) \div v[2]
Prices == {"open", "high", "low", "close"}

World(frame, columns) ==
    [n |-> Len(frame.bars),
     ep |-> [s \in Sides |-> None],
     bars |-> [t \in DOMAIN frame.bars |->
                 [label \in DOMAIN columns |-> Scaled(columns[label][t])]
                 @@ [field \in Prices |-> frame.bars[t][field] * Scale]]]

\* Where a bar lies relative to the anchor, as Setups.tla has it.
Place(s, row) ==
    LET reached == IF s = "long" THEN row.low <= row.anchor ELSE row.high >= row.anchor
        across == IF s = "long" THEN row.high < row.anchor ELSE row.low > row.anchor
    IN  CASE row.anchor = NaN -> "unknown"
          [] OTHER -> IF across THEN "beyond"
                      ELSE IF X!Ahead(s, row.close, row.anchor) THEN IF reached THEN "dip" ELSE "clear"
                      ELSE "cross"

\* The width of the stack in units of an ATR.
Width(row) ==
    IF NaN \in {row.fast, row.slow, row.atr} THEN None
    ELSE IF row.atr <= 0 THEN None
    ELSE (Unit * Size(row.fast - row.slow)) \div row.atr

S == INSTANCE SetupColumns

SetupMask(u, s, w) ==
    LET places == [t \in 1..w.n |-> [place |-> Place(s, w.bars[t]),
                                     width |-> IF u.id = "untouched_anchor_setup" THEN None ELSE Width(w.bars[t])]]
        width(t) == places[t].width
    IN  CASE u.id = "untouched_anchor_setup" -> S!Untouched(places, u.lookback, u.active)
          [] u.id = "anchor_stack_width_setup" -> S!WideStack(places, u.lookback, u.current, u.recent)
          [] u.id = "anchor_stack_width_band_setup" ->
                [t \in 1..w.n |-> width(t) # None /\ width(t) >= u.min /\ (u.max # None => width(t) <= u.max)]

\* Every mask a decision is made of, on one side; a bounce counter has none
\* here, its history is a policy and claims no more.
Masks(spec, s, w) ==
    LET setups == SelectSeq(spec.setups, LAMBDA u : u.id # "ema_bounce_counter_setup")
        rules == SelectSeq(X!Rules(spec), LAMBDA r : r.kind = "signal")
    IN  <<[i \in DOMAIN spec.blockers |-> X!Intrinsic(spec.blockers[i], s, w)],
          [i \in DOMAIN setups |-> SetupMask(setups[i], s, w)],
          <<X!Triggered(spec.trigger, s, w)>>,
          [i \in DOMAIN rules |-> X!Signal(spec, rules[i], s, w)],
          [p \in spec.predicates |-> [t \in 1..w.n |-> P!MaskAt(p, s, w, t)]]>>

Evaluated(spec, frame) ==
    LET columns == Columns(spec, frame)
        w == World(frame, columns)
    IN  [columns |-> columns, masks |-> [s \in Sides |-> Masks(spec, s, w)]]

-----------------------------------------------------------------------------
(* A request.  The anchor of a live entry is its target, that of an open   *)
(* trade the earlier of its plan's bar and its entry bar.                  *)

Init == earliest \in Starts /\ bars = <<>> /\ call = Idle

Commit(b) ==
    /\ Len(bars) < MaxBars
    /\ call.phase # "answered"      \* bound: an instance ends with its answer
    /\ bars' = Append(bars, b)
    /\ UNCHANGED <<earliest, call>>

Refused == [phase |-> "refused"]

\* The stream must be ready and hold the target, and every component must
\* have a history policy.
Request(spec, target, anchor, ready) ==
    /\ call = Idle
    /\ call' = IF /\ ready /\ bars # <<>>
                  /\ earliest <= target /\ target <= Latest
                  /\ Supported(spec)
               THEN [phase |-> "planned", spec |-> spec, target |-> target, anchor |-> anchor,
                     from |-> Max({PlannedStart(spec, anchor), earliest})]
               ELSE Refused
    /\ UNCHANGED <<earliest, bars>>

Load ==
    LET frame == [live |-> [from |-> call.from,
                            bars |-> SubSeq(bars, call.from - earliest + 1, call.target - earliest + 1)],
                  whole |-> [from |-> earliest, bars |-> bars]]
    IN  /\ call.phase = "planned"
        /\ call' = [phase |-> "answered", spec |-> call.spec, target |-> call.target,
                    anchor |-> call.anchor, from |-> call.from]
                   @@ [on \in {"live", "whole"} |-> Evaluated(call.spec, frame[on])]
        /\ UNCHANGED <<earliest, bars>>

Next ==
    \/ \E b \in Shapes : Commit(b)
    \/ /\ Len(bars) \in {0} \union MinBars..MaxBars
       /\ \E spec \in Specs, back \in 0..Reach, held \in 0..Reach, ready \in BOOLEAN :
             Request(spec, Latest - back, Latest - back - held, ready)
    \/ Load

Spec == Init /\ [][Next]_vars

-----------------------------------------------------------------------------
(* Properties.                                                             *)

\* Features whose value depends on where the history begins.
Recursive(f) == f.kind \in {"ema", "atr_wilder", "candle_body_atr"} /\ f.period > 1

\* The updates of a recursive indicator between its seed on the window and
\* the bars it is read on: a base column also updates on the bar itself.
Updates(f) ==
    IF f.kind = "ema" THEN EmaConvergence(f.period) - (IF IsBase(f.tf) THEN 0 ELSE 1)
    ELSE WilderConvergence(f.period) + (IF IsBase(f.tf) THEN 1 ELSE 0)

\* The most the seed can be wrong by.
SeedError(f) ==
    IF f.kind = "ema"
    THEN Max({b[f.source] : b \in ToSet(bars)}) - Min({b[f.source] : b \in ToSet(bars)})
    ELSE Max({b.high : b \in ToSet(bars)}) - Min({b.low : b \in ToSet(bars)})

Converged(f, x, y) ==
    LET n == Updates(f)
        left == IF f.kind = "ema" THEN <<(f.period - 1) ^ n, (f.period + 1) ^ n>>
                ELSE <<(f.period - 1) ^ n, f.period ^ n>>
    IN  x # NaN /\ (f.kind # "candle_body_atr" => AtMost(Apart(x, y), Times(left, SeedError(f), 1)))

\* A live answer is what the whole history says: on every bar its
\* components read, an indicator has the value of the whole history, a
\* recursive one up to what is left of its seed, and on every bar from the
\* anchor to the target each mask has the same value
\* (PlanLiveHistoryStart, LoadLiveFeatureFrame).
LiveAsFull ==
    call.phase = "answered" =>
    LET spec == call.spec
        lead == call.from - earliest
        read == Max({call.from, call.anchor - StrategySpan(spec)})..call.target
    IN  /\ \A label \in DOMAIN spec.features, t \in read :
              LET live == call.live.columns[label][t - call.from + 1]
                  whole == call.whole.columns[label][t - earliest + 1]
              IN  IF lead = 0 \/ ~ Recursive(spec.features[label]) THEN live = whole
                  ELSE Converged(spec.features[label], live, whole)
        /\ \A s \in Sides, part \in 1..5 :
              LET live == call.live.masks[s][part]
                  whole == call.whole.masks[s][part]
              IN  \A key \in DOMAIN live, t \in Max({call.from, call.anchor})..call.target :
                     live[key][t - call.from + 1] = whole[key][t - earliest + 1]

\* No bar of a component's lookback is backed by an indicator that is still
\* missing on the window and would not be on the whole history
\* (openspec/specs/live-calculation-window-planning/spec.md:37).
LookbackBacked ==
    call.phase = "answered" =>
    \A label \in DOMAIN call.spec.features,
       t \in Max({call.from, call.anchor - StrategySpan(call.spec)})..call.target :
       call.live.columns[label][t - call.from + 1] = NaN
          => call.whole.columns[label][t - earliest + 1] = NaN
=============================================================================
