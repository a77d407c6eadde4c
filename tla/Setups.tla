-------------------------------- MODULE Setups --------------------------------
(***************************************************************************)
(* The setups that look back over bars (strategies/ema_pullback/setups.py),*)
(* for one side of the market: the bounce counter, one loop over the bars  *)
(* with its run lengths, its budget and its touch window; the untouched    *)
(* anchor and the stack width of SetupColumns over the same bars.          *)
(* A bar says where it lies seen from the trade's side of the anchor:      *)
(*   "clear"   it does not reach the anchor,                               *)
(*   "dip"     it reaches it and closes on the trade's side,               *)
(*   "cross"   it reaches it and does not close on the trade's side,       *)
(*   "beyond"  it lies wholly on the other side,                           *)
(*   "unknown" the anchor is missing, and every comparison with it fails,  *)
(* whether the three EMAs are stacked, and the width of the stack in ATRs, *)
(* None where fast, slow or ATR is missing or the ATR is not positive.     *)
(***************************************************************************)
EXTENDS SetupColumns

CONSTANTS
  Bars,            \* the bars the market may print
  MaxBounces, TouchLookback, StartConfirm, BreakConfirm,   \* of the bounce counter
  Lookback, ActiveBars,                                    \* of the untouched anchor
  WidthLookback, MinCurrent, MinRecent,                    \* of the stack width
  MaxBars          \* bound: the length of a history

\* The parameter parsers refuse periods that are not positive.
ASSUME SetupAssumption ==
  /\ {MaxBounces, TouchLookback, StartConfirm, BreakConfirm} \subseteq Nat \ {0}
  /\ {Lookback, ActiveBars, WidthLookback} \subseteq Nat \ {0}
  /\ MinCurrent \in Nat \ {0} /\ MinRecent \in Nat \ {0} /\ MaxBars \in Nat /\ None \notin Int
  /\ Bars \subseteq [place : {"clear", "dip", "cross", "beyond", "unknown"},
                     stacked : BOOLEAN, width : Int \cup {None}]

VARIABLES
  bars,     \* the history, from bar 1
  counter,  \* the locals of the bounce counter's loop
  rows      \* the trace it publishes, a row per bar

vars == <<bars, counter, rows>>

Contact(bar) == bar.place \in {"dip", "cross"}

--------------------------------------------------------------------------------
(* The bounce counter: three stretches of the loop's body. *)

Start ==
  [active |-> FALSE, episode |-> 0, trendRun |-> 0, breakRun |-> 0,
   completed |-> 0, pending |-> FALSE, end |-> -1]

\* A touch window that ran out is a completed bounce.
Expired(c, now) ==
  IF c.pending /\ now > c.end
  THEN [c EXCEPT !.completed = @ + 1, !.pending = FALSE, !.end = -1] ELSE c

\* Mutant: an open window outlives the count it belongs to.
EmptiedCountOnly(c) == [c EXCEPT !.completed = 0]

Emptied(c) == [c EXCEPT !.completed = 0, !.pending = FALSE, !.end = -1]

\* Mutant: a break of the trend leaves the run of stacked bars as it was.
TrendedKeepsRun(c, stacked) ==
  IF c.active
  THEN IF stacked THEN [c EXCEPT !.breakRun = 0]
       ELSE IF c.breakRun + 1 < BreakConfirm THEN [c EXCEPT !.breakRun = @ + 1]
       ELSE [Emptied(c) EXCEPT !.active = FALSE, !.breakRun = 0]
  ELSE IF ~stacked THEN [c EXCEPT !.trendRun = 0]
       ELSE IF c.trendRun + 1 < StartConfirm THEN [c EXCEPT !.trendRun = @ + 1]
       ELSE [Emptied(c) EXCEPT !.episode = @ + 1, !.active = TRUE,
                               !.trendRun = @ + 1, !.breakRun = 0]

\* The trend starts and breaks after runs of confirming bars, and either empties the count.
Trended(c, stacked) ==
  IF c.active
  THEN IF stacked THEN [c EXCEPT !.breakRun = 0]
       ELSE IF c.breakRun + 1 < BreakConfirm THEN [c EXCEPT !.breakRun = @ + 1]
       ELSE [Emptied(c) EXCEPT !.active = FALSE, !.trendRun = 0, !.breakRun = 0]
  ELSE IF ~stacked THEN [c EXCEPT !.trendRun = 0]
       ELSE IF c.trendRun + 1 < StartConfirm THEN [c EXCEPT !.trendRun = @ + 1]
       ELSE [Emptied(c) EXCEPT !.episode = @ + 1, !.active = TRUE,
                               !.trendRun = @ + 1, !.breakRun = 0]

\* Mutant: a touch inside an open window opens another.
StartsReopening(c, bar) ==
  c.active /\ bar.place = "dip" /\ c.completed < MaxBounces

\* A bar in contact that closes on the trade's side opens a window.
Starts(c, bar) ==
  c.active /\ Beside(bar) /\ Contact(bar) /\ ~c.pending /\ c.completed < MaxBounces

Opened(c, bar, now) ==
  IF Starts(c, bar) THEN [c EXCEPT !.pending = TRUE, !.end = now + TouchLookback - 1] ELSE c

Allowed(c) ==
  c.active /\ (c.completed < MaxBounces \/ (c.pending /\ c.completed + 1 <= MaxBounces))

Row(c, started) ==
  [active |-> c.active, episode |-> IF c.active THEN c.episode ELSE 0, start |-> started,
   pending |-> c.pending, completed |-> c.completed, allowed |-> Allowed(c)]

NextBar(bar) ==
  LET now == Len(bars) + 1
      before == Trended(Expired(counter, now), bar.stacked)
  IN  /\ Len(bars) < MaxBars
      /\ bars' = Append(bars, bar)
      /\ counter' = Opened(before, bar, now)
      /\ rows' = Append(rows, Row(Opened(before, bar, now), Starts(before, bar)))

Init == bars = <<>> /\ counter = Start /\ rows = <<>>

Next == \E bar \in Bars : NextBar(bar)

Spec == Init /\ [][Next]_vars

--------------------------------------------------------------------------------
(* The setups made of columns over the whole history (SetupColumns.tla). *)

AllBars == DOMAIN bars

UntouchedAnchor == Untouched(bars, Lookback, ActiveBars)

StackWidth == WideStack(bars, WidthLookback, MinCurrent, MinRecent)

--------------------------------------------------------------------------------
(* Properties. *)

Counters ==
  [active : BOOLEAN, episode : Nat, trendRun : Nat, breakRun : Nat,
   completed : 0..MaxBounces, pending : BOOLEAN, end : Int]

Rows ==
  [active : BOOLEAN, episode : Nat, start : BOOLEAN, pending : BOOLEAN,
   completed : 0..MaxBounces, allowed : BOOLEAN]

\* The locals of the loop: runs shorter than their confirmation unless the trend is on,
\* and a window that is open has not run out.
TypeOK ==
  /\ bars \in Seq(Bars) /\ rows \in Seq(Rows) /\ Len(rows) = Len(bars)
  /\ counter \in Counters
  /\ counter.breakRun < BreakConfirm /\ (~counter.active => counter.trendRun < StartConfirm)
  /\ counter.pending => counter.end >= Len(bars) /\ counter.end < Len(bars) + TouchLookback

\* The budget holds at every moment: a window is open only in a trend and only while its
\* bounce still fits the budget, so the effective number of the bounce never exceeds
\* max_bounces and the second half of the condition for setup_allowed never decides it.
BounceBudget ==
  /\ counter.pending => counter.active /\ counter.completed < MaxBounces
  /\ Allowed(counter) <=> counter.active /\ counter.completed < MaxBounces

StackedRun(t) == t >= StartConfirm /\ \A u \in t - StartConfirm + 1..t : bars[u].stacked
BrokenRun(t) == t >= BreakConfirm /\ \A u \in t - BreakConfirm + 1..t : ~bars[u].stacked

\* On every bar the trend is on exactly after a full run of stacked bars that no full run
\* of others has followed, and the published count is what the published starts say:
\* windows of one trend do not overlap, each is counted once when it has run out, none
\* outlives its trend, and no touch goes by while there is budget (trend_active,
\* completed_bounce_count, pending_bounce_start).
BouncesCounted ==
  LET t == Len(bars)
      row == rows[t]
      mine == {s \in AllBars : rows[s].start /\ rows[s].episode = row.episode}
      open(s) == t < s + TouchLookback
  IN  t > 0 =>
      /\ row.active <=> \E s \in 1..t : StackedRun(s) /\ \A u \in s + 1..t : ~BrokenRun(u)
      /\ row.active =>
           /\ row.completed = Cardinality({s \in mine : ~open(s)})
           /\ row.pending <=> \E s \in mine : open(s)
           /\ \A s \in mine : bars[s].place = "dip"
           /\ \A s, u \in mine : s < u => u >= s + TouchLookback
           /\ bars[t].place = "dip" => row.pending \/ row.completed = MaxBounces
      /\ ~row.active => ~row.pending /\ row.completed = 0 /\ ~row.allowed

\* The shifted and rolled columns say what the setups are named for: the untouched
\* anchor is armed on a bar beside the anchor after a full lookback without a touch, or
\* fires within active_bars of the touch that ended one; first touches are further apart
\* than the lookback; and a stack counts as wide only after a complete window of widths
\* (untouched_prior, first_touch, recent_max_width_atr).
WindowSetups ==
  LET quiet(t) == t > Lookback /\ \A u \in t - Lookback..t - 1 : ~Reaches(bars[u])
      first(t) == Reaches(bars[t]) /\ quiet(t)
      wide(t, least) == bars[t].width # None /\ bars[t].width >= least
  IN  \A t \in AllBars :
        /\ UntouchedAnchor[t] <=>
             \/ bars[t].place = "clear" /\ quiet(t)
             \/ \E u \in AllBars : u <= t /\ t < u + ActiveBars /\ first(u)
        /\ \A u \in AllBars : first(t) /\ first(u) /\ u < t => t - u > Lookback
        /\ StackWidth[t] <=>
             /\ t >= WidthLookback /\ wide(t, MinCurrent) /\ bars[t].place # "unknown"
             /\ \A u \in t - WidthLookback + 1..t : bars[u].width # None
             /\ \E u \in t - WidthLookback + 1..t : wide(u, MinRecent)

\* The counter and the rolled columns of a setup are what it is named for.
SetupsAsDefined == BouncesCounted /\ WindowSetups
================================================================================
