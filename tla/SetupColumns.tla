---------------------------- MODULE SetupColumns ----------------------------
(***************************************************************************)
(* The setups made of columns over a whole history of bars                 *)
(* (strategies/ema_pullback/setups.py): the untouched anchor and the stack *)
(* width, by shifting and rolling.  A bar has a place relative to the      *)
(* anchor and a width, as Setups.tla describes them.                       *)
(***************************************************************************)
EXTENDS Integers, Sequences, FiniteSets, FiniteSetsExt

CONSTANT None

Reaches(bar) == bar.place \in {"dip", "cross", "beyond"}
Beside(bar) == bar.place \in {"clear", "dip"}

\* shift(1): the bar before.
Shifted(column) == [t \in DOMAIN column |-> t > 1 /\ column[t - 1]]

\* rolling(n, min_periods).max() of a mask: None before min_periods.
RollingAny(column, n, minPeriods) ==
  [t \in DOMAIN column |->
     IF t < minPeriods THEN None
     ELSE \E u \in DOMAIN column : t - n < u /\ u <= t /\ column[u]]

Touches(bars) == [t \in DOMAIN bars |-> Reaches(bars[t])]

\* A full lookback of bars without a touch before this one.
UntouchedBefore(touch, lookback) ==
  LET seen == RollingAny(Shifted(touch), lookback, lookback)
  IN  [t \in DOMAIN touch |-> t > lookback /\ seen[t] = FALSE]

FirstTouches(touch, lookback) ==
  LET prior == UntouchedBefore(touch, lookback)
  IN  [t \in DOMAIN touch |-> touch[t] /\ prior[t]]

Untouched(bars, lookback, activeBars) ==
  LET touch == Touches(bars)
      prior == UntouchedBefore(touch, lookback)
      active == RollingAny(FirstTouches(touch, lookback), activeBars, 1)
  IN  [t \in DOMAIN bars |-> \/ Beside(bars[t]) /\ prior[t] /\ ~touch[t]
                             \/ active[t]]

\* The widest stack of a full window, None if a width in it is missing.
WidestOf(bars, lookback, t) ==
  LET window == {u \in DOMAIN bars : t - lookback < u /\ u <= t}
  IN  IF t < lookback \/ \E u \in window : bars[u].width = None THEN None
      ELSE Max({bars[u].width : u \in window})

WideStack(bars, lookback, minCurrent, minRecent) ==
  [t \in DOMAIN bars |->
     LET recent == WidestOf(bars, lookback, t)
     IN  /\ bars[t].place # "unknown"
         /\ bars[t].width # None /\ recent # None
         /\ bars[t].width >= minCurrent /\ recent >= minRecent]
=============================================================================
