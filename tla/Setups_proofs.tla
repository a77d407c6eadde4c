---------------------------- MODULE Setups_proofs ----------------------------
(* Proofs about the bounce counter of Setups, for every choice of its       *)
(* periods, every set of bars and every length of a history.                *)
EXTENDS Setups, InductionLemmas, SequenceTheorems

RunsShort(c) == c.breakRun < BreakConfirm /\ (~c.active => c.trendRun < StartConfirm)

\* The step that counts a window when it runs out needs room for it.
RoomForPending(c) == c.pending => c.active /\ c.completed < MaxBounces

CounterOK(c) == c \in Counters /\ RunsShort(c) /\ RoomForPending(c)

\* An open window still covers bar n, and was opened no later than it.
WindowCovers(c, n) == c.pending => c.end >= n /\ c.end < n + TouchLookback

CounterInv ==
  /\ bars \in Seq(Bars) /\ rows \in Seq(Rows) /\ Len(rows) = Len(bars)
  /\ CounterOK(counter) /\ WindowCovers(counter, Len(bars))

LEMMA PeriodFacts ==
  /\ MaxBounces \in Nat /\ MaxBounces > 0 /\ TouchLookback \in Nat /\ TouchLookback > 0
  /\ StartConfirm \in Nat /\ StartConfirm > 0 /\ BreakConfirm \in Nat /\ BreakConfirm > 0
BY SetupAssumption

--------------------------------------------------------------------------------
(* The three stretches of the loop's body, one after the other. *)

\* Writing the count and the window of a counter keeps its other locals.
LEMMA UpdatedWindow ==
  ASSUME NEW c \in Counters, NEW k \in 0..MaxBounces, NEW p \in BOOLEAN, NEW e \in Int
  PROVE  LET d == [c EXCEPT !.completed = k, !.pending = p, !.end = e]
         IN  /\ d \in Counters /\ d.pending = p /\ d.completed = k /\ d.end = e
             /\ d.active = c.active /\ d.trendRun = c.trendRun /\ d.breakRun = c.breakRun
<1> DEFINE x == [c EXCEPT !.completed = k]
           y == [x EXCEPT !.pending = p]
           z == [y EXCEPT !.end = e]
<1>1. x \in Counters
  BY DEF Counters
<1>2. x.completed = k /\ x.active = c.active /\ x.trendRun = c.trendRun /\ x.breakRun = c.breakRun
  BY DEF Counters
<1>3. [c EXCEPT !.completed = k, !.pending = p, !.end = e] = z
  OBVIOUS
<1> HIDE DEF x
<1>4. y \in Counters
  BY <1>1 DEF Counters
<1>5. /\ y.pending = p /\ y.completed = x.completed
      /\ y.active = x.active /\ y.trendRun = x.trendRun /\ y.breakRun = x.breakRun
  BY <1>1 DEF Counters
<1> HIDE DEF y
<1>6. z \in Counters
  BY <1>4 DEF Counters
<1>7. /\ z.end = e /\ z.pending = y.pending /\ z.completed = y.completed
      /\ z.active = y.active /\ z.trendRun = y.trendRun /\ z.breakRun = y.breakRun
  BY <1>4 DEF Counters
<1> HIDE DEF z
<1> QED BY <1>2, <1>3, <1>5, <1>6, <1>7

\* And writing the trend keeps the count and the window.
LEMMA UpdatedTrend ==
  ASSUME NEW c \in Counters, NEW a \in BOOLEAN, NEW r \in Nat, NEW b \in Nat
  PROVE  LET d == [c EXCEPT !.active = a, !.trendRun = r, !.breakRun = b]
         IN  /\ d \in Counters /\ d.active = a /\ d.trendRun = r /\ d.breakRun = b
             /\ d.pending = c.pending /\ d.completed = c.completed /\ d.end = c.end
<1> DEFINE x == [c EXCEPT !.active = a]
           y == [x EXCEPT !.trendRun = r, !.breakRun = b]
<1>1. x \in Counters
  BY DEF Counters
<1>2. x.active = a /\ x.pending = c.pending /\ x.completed = c.completed /\ x.end = c.end
  BY DEF Counters
<1>3. [c EXCEPT !.active = a, !.trendRun = r, !.breakRun = b] = y
  OBVIOUS
<1> HIDE DEF x
<1>4. y \in Counters
  BY <1>1 DEF Counters
<1>5. /\ y.trendRun = r /\ y.breakRun = b /\ y.active = x.active
      /\ y.pending = x.pending /\ y.completed = x.completed /\ y.end = x.end
  BY <1>1 DEF Counters
<1> HIDE DEF y
<1> QED BY <1>2, <1>3, <1>4, <1>5

LEMMA EmptiedFacts ==
  ASSUME NEW c \in Counters
  PROVE  /\ Emptied(c) \in Counters /\ Emptied(c).pending = FALSE
         /\ Emptied(c).trendRun = c.trendRun
<1> DEFINE d == [c EXCEPT !.completed = 0, !.pending = FALSE, !.end = -1]
<1>1. 0 \in 0..MaxBounces /\ -1 \in Int
  BY PeriodFacts
<1>2. d \in Counters /\ d.pending = FALSE /\ d.trendRun = c.trendRun
  BY <1>1, UpdatedWindow DEF Counters
<1>3. Emptied(c) = d
  BY DEF Emptied
<1> HIDE DEF d
<1> QED BY <1>2, <1>3

LEMMA ExpiredKeeps ==
  ASSUME NEW c, NEW n \in Nat, CounterOK(c), WindowCovers(c, n)
  PROVE  CounterOK(Expired(c, n + 1)) /\ WindowCovers(Expired(c, n + 1), n + 1)
<1>1. CASE c.pending /\ n + 1 > c.end
  <2> DEFINE d == [c EXCEPT !.completed = @ + 1, !.pending = FALSE, !.end = -1]
  <2>1. Expired(c, n + 1) = d
    BY <1>1 DEF Expired
  <2>2. c \in Counters /\ c.completed + 1 \in 0..MaxBounces /\ -1 \in Int
    BY <1>1, PeriodFacts DEF CounterOK, Counters, RoomForPending
  <2>3. d \in Counters /\ d.pending = FALSE
    BY <2>2, UpdatedWindow DEF Counters
  <2>4. d.breakRun = c.breakRun /\ d.trendRun = c.trendRun /\ d.active = c.active
    BY <2>2 DEF Counters
  <2> HIDE DEF d
  <2>5. CounterOK(d) /\ WindowCovers(d, n + 1)
    BY <2>3, <2>4 DEF CounterOK, RunsShort, RoomForPending, WindowCovers
  <2> QED BY <2>1, <2>5
<1>2. CASE ~(c.pending /\ n + 1 > c.end)
  <2>1. Expired(c, n + 1) = c
    BY <1>2 DEF Expired
  <2>2. WindowCovers(c, n + 1)
    BY <1>2, PeriodFacts DEF WindowCovers, CounterOK, Counters
  <2> QED BY <2>1, <2>2
<1> QED BY <1>1, <1>2

\* Whatever the bar does to the trend, a window that is still open is the one it was.
LEMMA TrendedKeeps ==
  ASSUME NEW c, NEW stacked \in BOOLEAN, CounterOK(c)
  PROVE  LET d == Trended(c, stacked)
         IN  CounterOK(d) /\ (d.pending => c.pending /\ d.end = c.end)
<1> DEFINE e == Emptied(c)
<1>1. c \in Counters /\ e \in Counters /\ e.pending = FALSE /\ e.trendRun = c.trendRun
  BY EmptiedFacts DEF CounterOK
<1>2. c.trendRun \in Nat /\ c.breakRun \in Nat /\ e.episode \in Nat
  BY <1>1 DEF Counters
<1> HIDE DEF e
<1>3. CASE c.active /\ stacked
  <2>1. Trended(c, stacked) = [c EXCEPT !.breakRun = 0]
    BY <1>3 DEF Trended
  <2> QED BY <2>1, <1>1, <1>3, PeriodFacts DEF CounterOK, Counters, RunsShort, RoomForPending
<1>4. CASE c.active /\ ~stacked /\ c.breakRun + 1 < BreakConfirm
  <2>1. Trended(c, stacked) = [c EXCEPT !.breakRun = @ + 1]
    BY <1>4 DEF Trended
  <2> QED BY <2>1, <1>1, <1>4, PeriodFacts DEF CounterOK, Counters, RunsShort, RoomForPending
<1>5. CASE c.active /\ ~stacked /\ ~(c.breakRun + 1 < BreakConfirm)
  <2> DEFINE d == [e EXCEPT !.active = FALSE, !.trendRun = 0, !.breakRun = 0]
  <2>1. Trended(c, stacked) = d
    BY <1>5 DEF Trended, e
  <2>2. /\ d \in Counters /\ d.active = FALSE /\ d.trendRun = 0 /\ d.breakRun = 0
        /\ d.pending = FALSE
    BY <1>1, UpdatedTrend DEF Counters
  <2> HIDE DEF d
  <2> QED BY <2>1, <2>2, PeriodFacts DEF CounterOK, RunsShort, RoomForPending
<1>6. CASE ~c.active /\ ~stacked
  <2>1. Trended(c, stacked) = [c EXCEPT !.trendRun = 0]
    BY <1>6 DEF Trended
  <2> QED BY <2>1, <1>1, <1>6, PeriodFacts DEF CounterOK, Counters, RunsShort, RoomForPending
<1>7. CASE ~c.active /\ stacked /\ c.trendRun + 1 < StartConfirm
  <2>1. Trended(c, stacked) = [c EXCEPT !.trendRun = @ + 1]
    BY <1>7 DEF Trended
  <2> QED BY <2>1, <1>1, <1>7, PeriodFacts DEF CounterOK, Counters, RunsShort, RoomForPending
<1>8. CASE ~c.active /\ stacked /\ ~(c.trendRun + 1 < StartConfirm)
  <2> DEFINE x == [e EXCEPT !.episode = @ + 1]
             d == [x EXCEPT !.active = TRUE, !.trendRun = c.trendRun + 1, !.breakRun = 0]
  <2>1. [e EXCEPT !.episode = @ + 1, !.active = TRUE, !.trendRun = @ + 1, !.breakRun = 0] = d
    BY <1>1 DEF Counters
  <2>2. Trended(c, stacked) = d
    BY <1>8, <2>1 DEF Trended, e
  <2>3. x \in Counters /\ x.pending = FALSE
    BY <1>1, <1>2 DEF Counters
  <2> HIDE DEF x
  <2> DEFINE run == c.trendRun + 1
  <2>4. run \in Nat
    BY <1>2
  <2> HIDE DEF run
  <2>5. d = [x EXCEPT !.active = TRUE, !.trendRun = run, !.breakRun = 0]
    BY DEF run
  <2> HIDE DEF d
  <2>6. d \in Counters /\ d.active = TRUE /\ d.breakRun = 0 /\ d.pending = FALSE
    BY <2>3, <2>4, <2>5, UpdatedTrend DEF Counters
  <2> QED BY <2>2, <2>6, PeriodFacts DEF CounterOK, RunsShort, RoomForPending
<1> QED BY <1>3, <1>4, <1>5, <1>6, <1>7, <1>8

LEMMA OpenedKeeps ==
  ASSUME NEW c, NEW bar, NEW n \in Nat, CounterOK(c), WindowCovers(c, n)
  PROVE  CounterOK(Opened(c, bar, n)) /\ WindowCovers(Opened(c, bar, n), n)
<1>1. CASE Starts(c, bar)
  <2> DEFINE d == [c EXCEPT !.pending = TRUE, !.end = n + TouchLookback - 1]
  <2>1. Opened(c, bar, n) = d
    BY <1>1 DEF Opened
  <2>2. c \in Counters /\ n + TouchLookback - 1 \in Int
    BY PeriodFacts DEF CounterOK
  <2>3. d = [[c EXCEPT !.pending = TRUE] EXCEPT !.end = n + TouchLookback - 1]
    OBVIOUS
  <2>4. [c EXCEPT !.pending = TRUE] \in Counters
    BY <2>2 DEF Counters
  <2>5. d \in Counters /\ d.end = n + TouchLookback - 1
    BY <2>2, <2>3, <2>4 DEF Counters
  <2>6. /\ d.breakRun = c.breakRun /\ d.trendRun = c.trendRun
        /\ d.active = c.active /\ d.completed = c.completed
    BY DEF CounterOK, Counters
  <2> HIDE DEF d
  <2>7. c.active /\ c.completed < MaxBounces
    BY <1>1 DEF Starts
  <2>8. CounterOK(d)
    BY <2>5, <2>6, <2>7 DEF CounterOK, RunsShort, RoomForPending
  <2>9. WindowCovers(d, n)
    BY <2>5, PeriodFacts DEF WindowCovers
  <2> QED BY <2>1, <2>8, <2>9
<1>2. CASE ~Starts(c, bar)
  BY <1>2 DEF Opened
<1> QED BY <1>1, <1>2

--------------------------------------------------------------------------------
(* The invariant of the loop. *)

LEMMA CounterInvInit == Init => CounterInv
<1> SUFFICES ASSUME Init PROVE CounterInv
  OBVIOUS
<1>1. bars = <<>> /\ rows = <<>> /\ counter = Start
  BY DEF Init
<1>2. CounterOK(Start) /\ WindowCovers(Start, 0)
  BY PeriodFacts DEF Start, CounterOK, Counters, RunsShort, RoomForPending, WindowCovers
<1> QED BY <1>1, <1>2 DEF CounterInv

LEMMA NextBarKeeps ==
  ASSUME CounterInv, NEW bar \in Bars, NextBar(bar)
  PROVE  CounterInv'
<1> DEFINE n == Len(bars)
           expired == Expired(counter, n + 1)
           before == Trended(expired, bar.stacked)
<1>1. n \in Nat /\ bar.stacked \in BOOLEAN
  BY SetupAssumption, LenProperties DEF CounterInv
<1>2. CounterOK(expired) /\ WindowCovers(expired, n + 1)
  BY <1>1, ExpiredKeeps DEF CounterInv
<1>3. CounterOK(before) /\ (before.pending => expired.pending /\ before.end = expired.end)
  BY <1>1, <1>2, TrendedKeeps
<1>4. counter' = Opened(before, bar, n + 1)
  BY DEF NextBar
<1>5. bars' \in Seq(Bars) /\ Len(bars') = n + 1
  BY AppendProperties DEF NextBar, CounterInv
<1>6. rows' = Append(rows, Row(counter', Starts(before, bar)))
  BY <1>4 DEF NextBar
<1> HIDE DEF expired, before
<1>7. WindowCovers(before, n + 1)
  BY <1>2, <1>3 DEF WindowCovers
<1>8. CounterOK(counter') /\ WindowCovers(counter', n + 1)
  BY <1>1, <1>3, <1>4, <1>7, OpenedKeeps
<1>9. Row(counter', Starts(before, bar)) \in Rows
  BY <1>8 DEF Row, Rows, Starts, Allowed, CounterOK, Counters
<1>10. rows' \in Seq(Rows) /\ Len(rows') = n + 1
  <2>1. rows \in Seq(Rows) /\ Len(rows) = n
    BY DEF CounterInv
  <2> QED BY <1>6, <1>9, <2>1, AppendProperties
<1>11. CounterOK(counter)' /\ WindowCovers(counter, Len(bars))'
  BY <1>5, <1>8 DEF CounterOK, RunsShort, RoomForPending, WindowCovers, Counters
<1> QED BY <1>5, <1>10, <1>11 DEF CounterInv

LEMMA CounterInvStep == CounterInv /\ [Next]_vars => CounterInv'
<1> SUFFICES ASSUME CounterInv, [Next]_vars PROVE CounterInv'
  OBVIOUS
<1>1. CASE Next
  BY <1>1, NextBarKeeps DEF Next
<1>2. CASE UNCHANGED vars
  BY <1>2 DEF vars, CounterInv, CounterOK, Counters, Rows, RunsShort, RoomForPending, WindowCovers
<1> QED BY <1>1, <1>2

LEMMA CounterInvariance == Spec => []CounterInv
BY CounterInvInit, CounterInvStep, PTL DEF Spec

--------------------------------------------------------------------------------
(* The properties. *)

\* The run lengths of the loop stay below their confirmations, the count within its
\* budget and the touch window around the bar, for every choice of the periods.
THEOREM TypeCorrect == Spec => []TypeOK
<1>1. CounterInv => TypeOK
  BY DEF CounterInv, TypeOK, CounterOK, RunsShort, WindowCovers
<1> QED BY <1>1, CounterInvariance, PTL

\* A bounce is pending only in a trend and only while it fits the budget, so the
\* condition the code writes for setup_allowed is the plain one.
THEOREM BudgetIsKept == Spec => []BounceBudget
<1>1. CounterInv => BounceBudget
  BY PeriodFacts DEF CounterInv, CounterOK, Counters, RoomForPending, BounceBudget, Allowed
<1> QED BY <1>1, CounterInvariance, PTL

--------------------------------------------------------------------------------
(* The trend of the counter, and the bars that make it. *)

RunUp(bs, t) == t >= StartConfirm /\ \A u \in t - StartConfirm + 1..t : bs[u].stacked
RunDown(bs, t) == t >= BreakConfirm /\ \A u \in t - BreakConfirm + 1..t : ~bs[u].stacked
InTrend(bs, n) == \E s \in 1..n : RunUp(bs, s) /\ \A u \in s + 1..n : ~RunDown(bs, u)

\* The run lengths measure the bars since the last one of the other sort.
TrendOK(c, bs, n) ==
  /\ c.active <=> InTrend(bs, n)
  /\ ~c.active =>
       /\ c.trendRun <= n /\ \A u \in n - c.trendRun + 1..n : bs[u].stacked
       /\ c.trendRun < n => ~bs[n - c.trendRun].stacked
  /\ c.active =>
       /\ c.breakRun < n /\ \A u \in n - c.breakRun + 1..n : ~bs[u].stacked
       /\ bs[n - c.breakRun].stacked

\* What a bar leaves alone while it neither starts nor breaks the trend.
SameWindow(d, c) ==
  d.episode = c.episode /\ d.completed = c.completed /\ d.pending = c.pending /\ d.end = c.end

\* The six ways a bar bears on the trend.
LEMMA TrendedFields ==
  ASSUME NEW c \in Counters, NEW stacked \in BOOLEAN
  PROVE  LET d == Trended(c, stacked)
             breaking == c.breakRun + 1 < BreakConfirm
             starting == c.trendRun + 1 < StartConfirm
         IN  /\ c.active /\ stacked => d.active /\ d.breakRun = 0 /\ SameWindow(d, c)
             /\ c.active /\ ~stacked /\ breaking =>
                  d.active /\ d.breakRun = c.breakRun + 1 /\ SameWindow(d, c)
             /\ c.active /\ ~stacked /\ ~breaking =>
                  /\ ~d.active /\ d.trendRun = 0 /\ d.completed = 0 /\ ~d.pending
                  /\ d.episode = c.episode
             /\ ~c.active /\ ~stacked => ~d.active /\ d.trendRun = 0 /\ SameWindow(d, c)
             /\ ~c.active /\ stacked /\ starting =>
                  ~d.active /\ d.trendRun = c.trendRun + 1 /\ SameWindow(d, c)
             /\ ~c.active /\ stacked /\ ~starting =>
                  /\ d.active /\ d.breakRun = 0 /\ d.completed = 0 /\ ~d.pending
                  /\ d.episode = c.episode + 1
<1>1. CASE c.active /\ stacked
  <2>1. Trended(c, stacked) = [c EXCEPT !.breakRun = 0]
    BY <1>1 DEF Trended
  <2> QED BY <2>1, <1>1 DEF Counters, SameWindow
<1>2. CASE c.active /\ ~stacked /\ c.breakRun + 1 < BreakConfirm
  <2>1. Trended(c, stacked) = [c EXCEPT !.breakRun = @ + 1]
    BY <1>2 DEF Trended
  <2> QED BY <2>1, <1>2 DEF Counters, SameWindow
<1>3. CASE c.active /\ ~stacked /\ ~(c.breakRun + 1 < BreakConfirm)
  <2>1. Trended(c, stacked) = [Emptied(c) EXCEPT !.active = FALSE, !.trendRun = 0, !.breakRun = 0]
    BY <1>3 DEF Trended
  <2> QED BY <2>1, <1>3 DEF Counters, Emptied
<1>4. CASE ~c.active /\ ~stacked
  <2>1. Trended(c, stacked) = [c EXCEPT !.trendRun = 0]
    BY <1>4 DEF Trended
  <2> QED BY <2>1, <1>4 DEF Counters, SameWindow
<1>5. CASE ~c.active /\ stacked /\ c.trendRun + 1 < StartConfirm
  <2>1. Trended(c, stacked) = [c EXCEPT !.trendRun = @ + 1]
    BY <1>5 DEF Trended
  <2> QED BY <2>1, <1>5 DEF Counters, SameWindow
<1>6. CASE ~c.active /\ stacked /\ ~(c.trendRun + 1 < StartConfirm)
  <2>1. Trended(c, stacked) = [Emptied(c) EXCEPT !.episode = @ + 1, !.active = TRUE,
                                                 !.trendRun = @ + 1, !.breakRun = 0]
    BY <1>6 DEF Trended
  <2> QED BY <2>1, <1>6 DEF Counters, Emptied
<1> QED BY <1>1, <1>2, <1>3, <1>4, <1>5, <1>6

\* A bar is in the trend if it completes a run, or the bar before was and it breaks none.
LEMMA TrendExtends ==
  ASSUME NEW bs \in Seq(Bars), NEW bar \in Bars
  PROVE  LET n == Len(bs)
             bs2 == Append(bs, bar)
         IN  InTrend(bs2, n + 1) <=>
               RunUp(bs2, n + 1) \/ (InTrend(bs, n) /\ ~RunDown(bs2, n + 1))
<1> DEFINE n == Len(bs)
           bs2 == Append(bs, bar)
<1>1. n \in Nat /\ \A u \in 1..n : bs2[u] = bs[u]
  BY AppendProperties
<1> HIDE DEF n, bs2
<1>2. \A t \in 1..n : (RunUp(bs2, t) <=> RunUp(bs, t)) /\ (RunDown(bs2, t) <=> RunDown(bs, t))
  <2> TAKE t \in 1..n
  <2>1. t >= StartConfirm => \A u \in t - StartConfirm + 1..t : u \in 1..n
    BY <1>1, PeriodFacts
  <2>2. t >= BreakConfirm => \A u \in t - BreakConfirm + 1..t : u \in 1..n
    BY <1>1, PeriodFacts
  <2> QED BY <1>1, <2>1, <2>2 DEF RunUp, RunDown
<1>3. ASSUME InTrend(bs2, n + 1), ~RunUp(bs2, n + 1)
      PROVE  InTrend(bs, n) /\ ~RunDown(bs2, n + 1)
  <2>1. PICK s \in 1..n + 1 : RunUp(bs2, s) /\ \A u \in s + 1..n + 1 : ~RunDown(bs2, u)
    BY <1>3 DEF InTrend
  <2>2. s \in 1..n /\ n + 1 \in s + 1..n + 1 /\ \A u \in s + 1..n : u \in s + 1..n + 1 /\ u \in 1..n
    <3>1. s # n + 1
      BY <1>3, <2>1
    <3> QED BY <1>1, <3>1
  <2> QED BY <1>2, <2>1, <2>2 DEF InTrend
<1>4. RunUp(bs2, n + 1) => InTrend(bs2, n + 1)
  <2>1. n + 1 \in 1..n + 1 /\ (n + 1) + 1..n + 1 = {}
    BY <1>1
  <2> QED BY <2>1 DEF InTrend
<1>5. ASSUME InTrend(bs, n), ~RunDown(bs2, n + 1)
      PROVE  InTrend(bs2, n + 1)
  <2>1. PICK s \in 1..n : RunUp(bs, s) /\ \A u \in s + 1..n : ~RunDown(bs, u)
    BY <1>5 DEF InTrend
  <2>2. s \in 1..n + 1 /\ \A u \in s + 1..n + 1 : u = n + 1 \/ (u \in s + 1..n /\ u \in 1..n)
    BY <1>1
  <2>3. RunUp(bs2, s)
    BY <1>2, <2>1
  <2>4. \A u \in s + 1..n + 1 : ~RunDown(bs2, u)
    BY <1>2, <1>5, <2>1, <2>2
  <2> QED BY <2>2, <2>3, <2>4 DEF InTrend
<1> QED BY <1>3, <1>4, <1>5 DEF n, bs2

LEMMA TrendStep ==
  ASSUME NEW bs \in Seq(Bars), NEW bar \in Bars, NEW c, CounterOK(c), TrendOK(c, bs, Len(bs))
  PROVE  TrendOK(Trended(c, bar.stacked), Append(bs, bar), Len(bs) + 1)
<1> DEFINE n == Len(bs)
           bs2 == Append(bs, bar)
           d == Trended(c, bar.stacked)
<1>1. n \in Nat /\ bs2[n + 1] = bar /\ \A u \in 1..n : bs2[u] = bs[u]
  BY AppendProperties
<1>2. c \in Counters /\ c.trendRun \in Nat /\ c.breakRun \in Nat /\ bar.stacked \in BOOLEAN
      /\ c.breakRun < BreakConfirm /\ (~c.active => c.trendRun < StartConfirm)
  BY SetupAssumption DEF CounterOK, Counters, RunsShort
<1>3. InTrend(bs2, n + 1) <=> RunUp(bs2, n + 1) \/ (InTrend(bs, n) /\ ~RunDown(bs2, n + 1))
  BY TrendExtends
<1>4. n + 1 \in (n + 1) - StartConfirm + 1..n + 1 /\ n + 1 \in (n + 1) - BreakConfirm + 1..n + 1
  BY <1>1, PeriodFacts
<1>5. /\ bar.stacked => ~RunDown(bs2, n + 1)
      /\ ~bar.stacked => ~RunUp(bs2, n + 1)
  BY <1>1, <1>4 DEF RunUp, RunDown
<1>6. (n + 1) - 0 + 1..n + 1 = {} /\ (n + 1) - 0 = n + 1 /\ 0 < n + 1
  BY <1>1
<1> HIDE DEF n, bs2, d
<1>7. /\ c.active <=> InTrend(bs, n)
      /\ ~c.active => c.trendRun <= n /\ (\A u \in n - c.trendRun + 1..n : bs[u].stacked)
                      /\ (c.trendRun < n => ~bs[n - c.trendRun].stacked)
      /\ c.active => c.breakRun < n /\ (\A u \in n - c.breakRun + 1..n : ~bs[u].stacked)
                     /\ bs[n - c.breakRun].stacked
  BY DEF TrendOK, n
<1>8. CASE c.active /\ bar.stacked
  <2>1. d.active /\ d.breakRun = 0
    BY <1>2, <1>8, TrendedFields DEF d
  <2> QED BY <1>1, <1>3, <1>5, <1>6, <1>7, <1>8, <2>1 DEF TrendOK, n, bs2, d
<1>9. CASE c.active /\ ~bar.stacked /\ c.breakRun + 1 < BreakConfirm
  <2>1. d.active /\ d.breakRun = c.breakRun + 1
    BY <1>2, <1>9, TrendedFields DEF d
  <2>2. n - c.breakRun \in 1..n /\ n - c.breakRun \in (n + 1) - BreakConfirm + 1..n + 1
    BY <1>1, <1>2, <1>7, <1>9, PeriodFacts
  <2>3. ~RunDown(bs2, n + 1)
    BY <1>1, <1>7, <1>9, <2>2 DEF RunDown
  <2>4. d.breakRun < n + 1 /\ (n + 1) - d.breakRun = n - c.breakRun
    <3>1. \A b \in Nat : b < n => b + 1 < n + 1 /\ (n + 1) - (b + 1) = n - b
      BY <1>1
    <3> QED BY <1>2, <1>7, <1>9, <2>1, <3>1
  <2>5. \A u \in (n - c.breakRun) + 1..n + 1 : ~bs2[u].stacked
    <3>1. \A u \in (n - c.breakRun) + 1..n + 1 : u = n + 1 \/ (u \in 1..n /\ u \in n - c.breakRun + 1..n)
      BY <1>1, <1>2, <1>7, <1>9
    <3> QED BY <1>1, <1>7, <1>9, <3>1
  <2> QED BY <1>1, <1>3, <1>7, <1>9, <2>1, <2>2, <2>3, <2>4, <2>5 DEF TrendOK, n, bs2, d
<1>10. CASE c.active /\ ~bar.stacked /\ ~(c.breakRun + 1 < BreakConfirm)
  <2>1. ~d.active /\ d.trendRun = 0
    BY <1>2, <1>10, TrendedFields DEF d
  <2>2. BreakConfirm = c.breakRun + 1 /\ n + 1 >= BreakConfirm
    BY <1>1, <1>2, <1>7, <1>10, PeriodFacts
  <2>3. \A u \in (n + 1) - BreakConfirm + 1..n + 1 :
            u = n + 1 \/ (u \in 1..n /\ u \in n - c.breakRun + 1..n)
    BY <1>1, <1>2, <1>7, <1>10, <2>2
  <2>4. RunDown(bs2, n + 1)
    BY <1>1, <1>7, <1>10, <2>2, <2>3 DEF RunDown
  <2> QED BY <1>1, <1>3, <1>5, <1>6, <1>10, <2>1, <2>4 DEF TrendOK, n, bs2, d
<1>11. CASE ~c.active /\ ~bar.stacked
  <2>1. ~d.active /\ d.trendRun = 0
    BY <1>2, <1>11, TrendedFields DEF d
  <2> QED BY <1>1, <1>3, <1>5, <1>6, <1>7, <1>11, <2>1 DEF TrendOK, n, bs2, d
<1>12. CASE ~c.active /\ bar.stacked /\ c.trendRun + 1 < StartConfirm
  <2>1. ~d.active /\ d.trendRun = c.trendRun + 1
    BY <1>2, <1>12, TrendedFields DEF d
  <2>2. n + 1 >= StartConfirm =>
          /\ c.trendRun < n /\ n - c.trendRun \in 1..n
          /\ n - c.trendRun \in (n + 1) - StartConfirm + 1..n + 1
    BY <1>1, <1>2, <1>12, PeriodFacts
  <2>3. ~RunUp(bs2, n + 1)
    BY <1>1, <1>7, <1>12, <2>2 DEF RunUp
  <2>4. /\ d.trendRun <= n + 1 /\ (n + 1) - d.trendRun = n - c.trendRun
        /\ d.trendRun < n + 1 => c.trendRun < n /\ n - c.trendRun \in 1..n
    <3>1. \A b \in Nat : b <= n =>
              /\ b + 1 <= n + 1 /\ (n + 1) - (b + 1) = n - b
              /\ b + 1 < n + 1 => b < n /\ n - b \in 1..n
      BY <1>1
    <3> QED BY <1>2, <1>7, <1>12, <2>1, <3>1
  <2>5. \A u \in (n - c.trendRun) + 1..n + 1 : bs2[u].stacked
    <3>1. \A u \in (n - c.trendRun) + 1..n + 1 : u = n + 1 \/ (u \in 1..n /\ u \in n - c.trendRun + 1..n)
      BY <1>1, <1>2, <1>7, <1>12
    <3> QED BY <1>1, <1>7, <1>12, <3>1
  <2> QED BY <1>1, <1>3, <1>7, <1>12, <2>1, <2>3, <2>4, <2>5 DEF TrendOK, n, bs2, d
<1>13. CASE ~c.active /\ bar.stacked /\ ~(c.trendRun + 1 < StartConfirm)
  <2>1. d.active /\ d.breakRun = 0
    BY <1>2, <1>13, TrendedFields DEF d
  <2>2. StartConfirm = c.trendRun + 1 /\ n + 1 >= StartConfirm
    BY <1>1, <1>2, <1>7, <1>13, PeriodFacts
  <2>3. \A u \in (n + 1) - StartConfirm + 1..n + 1 :
            u = n + 1 \/ (u \in 1..n /\ u \in n - c.trendRun + 1..n)
    BY <1>1, <1>2, <1>7, <1>13, <2>2
  <2>4. RunUp(bs2, n + 1)
    BY <1>1, <1>7, <1>13, <2>2, <2>3 DEF RunUp
  <2> QED BY <1>1, <1>3, <1>6, <1>13, <2>1, <2>4 DEF TrendOK, n, bs2, d
<1> QED BY <1>8, <1>9, <1>10, <1>11, <1>12, <1>13 DEF n, bs2, d

--------------------------------------------------------------------------------
(* The windows of a trend, and the rows that publish their starts. *)

StartsOf(rs, e) == {s \in 1..Len(rs) : rs[s].start /\ rs[s].episode = e}

\* The starts of the windows of the trend that is on.
Mine(c, rs) == IF c.active THEN StartsOf(rs, c.episode) ELSE {}

Ended(M, now) == {s \in M : s + TouchLookback <= now}

\* The windows that started at M, of which the counter keeps the number of those that
\* have ended and the one that has not.
Windows(c, M, now) ==
  /\ M \subseteq 1..now
  /\ c.completed = Cardinality(Ended(M, now))
  /\ c.pending => c.end - TouchLookback + 1 \in M /\ now <= c.end
  /\ ~c.pending => \A s \in M : s + TouchLookback <= now
  /\ \A s, u \in M : s < u => s + TouchLookback <= u

LEMMA ExpiredFields ==
  ASSUME NEW c \in Counters, NEW now \in Nat
  PROVE  LET d == Expired(c, now)
             out == c.pending /\ now > c.end
         IN  /\ d.active = c.active /\ d.episode = c.episode
             /\ d.trendRun = c.trendRun /\ d.breakRun = c.breakRun
             /\ out => ~d.pending /\ d.completed = c.completed + 1
             /\ ~out => d = c
BY DEF Expired, Counters

LEMMA OpenedFields ==
  ASSUME NEW c \in Counters, NEW bar, NEW now \in Nat
  PROVE  LET d == Opened(c, bar, now)
         IN  /\ d.active = c.active /\ d.episode = c.episode /\ d.completed = c.completed
             /\ d.trendRun = c.trendRun /\ d.breakRun = c.breakRun
             /\ Starts(c, bar) => d.pending /\ d.end = now + TouchLookback - 1
             /\ ~Starts(c, bar) => d = c
BY DEF Opened, Counters

LEMMA EndedFinite ==
  ASSUME NEW now \in Nat, NEW M \in SUBSET (1..now), NEW k
  PROVE  IsFiniteSet(Ended(M, k)) /\ Cardinality(Ended(M, k)) \in Nat
<1>1. IsFiniteSet(1..now)
  BY FS_Interval
<1>2. Ended(M, k) \subseteq 1..now
  BY DEF Ended
<1> QED BY <1>1, <1>2, FS_Subset, FS_CardinalityType

LEMMA NoWindows ==
  ASSUME NEW c, NEW now \in Nat, c.completed = 0, ~c.pending
  PROVE  Windows(c, {}, now)
<1>1. Ended({}, now) = {}
  BY DEF Ended
<1> QED BY <1>1, FS_EmptySet DEF Windows

\* A bar later the open window, if it has run out, is one more that has ended.
LEMMA ExpiredWindows ==
  ASSUME NEW c \in Counters, NEW n \in Nat, NEW M, Windows(c, M, n)
  PROVE  Windows(Expired(c, n + 1), M, n + 1)
<1> DEFINE d == Expired(c, n + 1)
           s0 == c.end - TouchLookback + 1
<1>1. /\ M \subseteq 1..n /\ M \subseteq 1..n + 1 /\ c.completed = Cardinality(Ended(M, n))
      /\ c.pending => s0 \in M /\ n <= c.end
      /\ ~c.pending => \A s \in M : s + TouchLookback <= n
      /\ \A s, u \in M : s < u => s + TouchLookback <= u
  BY DEF Windows
<1>2. c.end \in Int /\ s0 \in Int /\ s0 + TouchLookback = c.end + 1
  BY PeriodFacts DEF Counters
<1> HIDE DEF s0
<1>3. c.pending => \A s \in M : s + TouchLookback <= n \/ s = s0
  <2> SUFFICES ASSUME c.pending, NEW s \in M, s # s0 PROVE s + TouchLookback <= n
    OBVIOUS
  <2>1. s0 \in M /\ s \in 1..n /\ s0 \in 1..n
    BY <1>1
  <2>2. CASE s < s0
    BY <1>1, <2>1, <2>2, PeriodFacts
  <2>3. CASE s0 < s
    <3>1. s0 + TouchLookback <= s
      BY <1>1, <2>1, <2>3
    <3> QED BY <1>1, <1>2, <2>1, <3>1
  <2> QED BY <2>1, <2>2, <2>3
<1>4. \A s \in M : s \in Nat /\ (s + TouchLookback <= n => s + TouchLookback <= n + 1)
  BY <1>1, PeriodFacts
<1>5. CASE c.pending /\ n + 1 > c.end
  <2>1. ~d.pending /\ d.completed = c.completed + 1
    BY <1>5, ExpiredFields
  <2>2. s0 + TouchLookback <= n + 1 /\ ~(s0 + TouchLookback <= n)
    BY <1>1, <1>2, <1>5
  <2>3. Ended(M, n + 1) = Ended(M, n) \cup {s0} /\ s0 \notin Ended(M, n)
    BY <1>1, <1>3, <1>4, <1>5, <2>2 DEF Ended
  <2>4. IsFiniteSet(Ended(M, n))
    BY <1>1, EndedFinite
  <2>5. Cardinality(Ended(M, n + 1)) = Cardinality(Ended(M, n)) + 1
    BY <2>3, <2>4, FS_AddElement
  <2>6. \A s \in M : s + TouchLookback <= n + 1
    BY <1>3, <1>4, <1>5, <2>2
  <2> HIDE DEF d
  <2> QED BY <1>1, <2>1, <2>5, <2>6 DEF Windows, d
<1>6. CASE ~(c.pending /\ n + 1 > c.end)
  <2>1. d = c
    BY <1>6, ExpiredFields
  <2>2. Ended(M, n + 1) = Ended(M, n)
    <3>1. CASE c.pending
      <4>1. ~(s0 + TouchLookback <= n + 1)
        BY <1>2, <1>6, <3>1
      <4> QED BY <1>3, <1>4, <3>1, <4>1 DEF Ended
    <3>2. CASE ~c.pending
      BY <1>1, <1>4, <3>2 DEF Ended
    <3> QED BY <3>1, <3>2
  <2>3. c.pending => n + 1 <= c.end
    BY <1>2, <1>6
  <2> HIDE DEF d
  <2> QED BY <1>1, <1>4, <2>1, <2>2, <2>3 DEF Windows, d, s0
<1> QED BY <1>5, <1>6

\* Whatever the bar does to the trend, the count is about the trend that is on.
LEMMA TrendedWindows ==
  ASSUME NEW c \in Counters, NEW stacked \in BOOLEAN, NEW rs \in Seq(Rows), NEW now \in Nat,
         Windows(c, Mine(c, rs), now), \A s \in 1..Len(rs) : rs[s].episode <= c.episode
  PROVE  LET d == Trended(c, stacked)
         IN  /\ Windows(d, Mine(d, rs), now)
             /\ \A s \in 1..Len(rs) : rs[s].episode <= d.episode
<1> DEFINE d == Trended(c, stacked)
<1>1. c.episode \in Nat /\ \A s \in 1..Len(rs) : rs[s].episode \in Nat
  <2>1. \A s \in 1..Len(rs) : rs[s] \in Rows
    OBVIOUS
  <2> QED BY <2>1 DEF Counters, Rows
<1>2. /\ d.active /\ ~c.active => d.completed = 0 /\ ~d.pending /\ d.episode = c.episode + 1
      /\ ~d.active /\ c.active => d.completed = 0 /\ ~d.pending /\ d.episode = c.episode
      /\ (d.active /\ c.active) \/ (~d.active /\ ~c.active) => SameWindow(d, c)
  BY TrendedFields
<1> HIDE DEF d
<1>3. CASE d.active /\ ~c.active
  <2>1. Mine(d, rs) = {}
    BY <1>1, <1>2, <1>3 DEF Mine, StartsOf
  <2> QED BY <1>1, <1>2, <1>3, <2>1, NoWindows DEF d
<1>4. CASE ~d.active /\ c.active
  <2>1. Mine(d, rs) = {}
    BY <1>4 DEF Mine
  <2> QED BY <1>1, <1>2, <1>4, <2>1, NoWindows DEF d
<1>5. CASE (d.active /\ c.active) \/ (~d.active /\ ~c.active)
  <2>1. Mine(d, rs) = Mine(c, rs) /\ SameWindow(d, c)
    BY <1>2, <1>5 DEF Mine, SameWindow
  <2> QED BY <2>1 DEF Windows, SameWindow, d
<1> QED BY <1>3, <1>4, <1>5

\* A window that opens on the bar is one more, and has not ended.
LEMMA OpenedWindows ==
  ASSUME NEW c \in Counters, NEW bar, NEW now \in Nat \ {0}, NEW M \in SUBSET (1..now - 1),
         Windows(c, M, now)
  PROVE  Windows(Opened(c, bar, now), IF Starts(c, bar) THEN M \cup {now} ELSE M, now)
<1> DEFINE d == Opened(c, bar, now)
<1>1. CASE Starts(c, bar)
  <2>1. d.pending /\ d.end = now + TouchLookback - 1 /\ d.completed = c.completed /\ ~c.pending
    BY <1>1, OpenedFields DEF Starts
  <2>2. d.end - TouchLookback + 1 = now /\ now <= d.end /\ ~(now + TouchLookback <= now)
    BY <2>1, PeriodFacts
  <2>3. Ended(M \cup {now}, now) = Ended(M, now)
    BY <2>2 DEF Ended
  <2>4. \A s \in M : s + TouchLookback <= now /\ s \in Nat /\ s < now
    BY <2>1 DEF Windows
  <2>5. \A s, u \in M \cup {now} : s < u => s + TouchLookback <= u
    BY <2>4 DEF Windows
  <2> HIDE DEF d
  <2> QED BY <1>1, <2>1, <2>2, <2>3, <2>5 DEF Windows, d
<1>2. CASE ~Starts(c, bar)
  <2>1. d = c
    BY <1>2, OpenedFields
  <2> QED BY <1>2, <2>1
<1> QED BY <1>1, <1>2

LEMMA MineExtends ==
  ASSUME NEW c, NEW rs \in Seq(Rows), NEW row \in Rows,
         row.episode = (IF c.active THEN c.episode ELSE 0), row.start => c.active
  PROVE  Mine(c, Append(rs, row)) =
           IF row.start THEN Mine(c, rs) \cup {Len(rs) + 1} ELSE Mine(c, rs)
<1> DEFINE n == Len(rs)
           rs2 == Append(rs, row)
<1>1. n \in Nat /\ Len(rs2) = n + 1 /\ rs2[n + 1] = row /\ \A s \in 1..n : rs2[s] = rs[s]
  BY AppendProperties
<1>2. 1..n + 1 = 1..n \cup {n + 1}
  BY <1>1
<1> HIDE DEF rs2
<1>3. CASE c.active
  BY <1>1, <1>2, <1>3 DEF Mine, StartsOf, rs2
<1>4. CASE ~c.active
  BY <1>4 DEF Mine
<1> QED BY <1>3, <1>4

--------------------------------------------------------------------------------
(* The published rows say what the bars were. *)

TraceOK(bs, c, rs) ==
  /\ TrendOK(c, bs, Len(bs))
  /\ Windows(c, Mine(c, rs), Len(bs))
  /\ \A s \in 1..Len(rs) : rs[s].episode <= c.episode
  /\ \A s \in 1..Len(rs) : rs[s].start => bs[s].place = "dip"
  /\ Len(bs) > 0 =>
       /\ rs[Len(bs)] = Row(c, rs[Len(bs)].start)
       /\ c.active /\ bs[Len(bs)].place = "dip" => c.pending \/ c.completed = MaxBounces

TraceInv == CounterInv /\ TraceOK(bars, counter, rows)

LEMMA TraceInvInit == Init => TraceInv
<1> SUFFICES ASSUME Init PROVE TraceOK(bars, counter, rows)
  BY CounterInvInit DEF TraceInv
<1>1. bars = <<>> /\ rows = <<>> /\ counter = Start /\ Len(bars) = 0 /\ Len(rows) = 0 /\ 1..0 = {}
      /\ (0 - 0) + 1..0 = {}
  BY DEF Init
<1>2. /\ Start.active = FALSE /\ Start.completed = 0 /\ Start.pending = FALSE
      /\ Start.trendRun = 0 /\ Start.episode = 0
  BY DEF Start
<1>3. TrendOK(Start, bars, 0)
  BY <1>1, <1>2 DEF TrendOK, InTrend
<1>4. Windows(Start, {}, 0) /\ Mine(Start, rows) = {}
  BY <1>2, NoWindows DEF Mine
<1> QED BY <1>1, <1>3, <1>4 DEF TraceOK

\* What the trend is depends on the trend's own locals only.
LEMMA TrendOnly ==
  ASSUME NEW c, NEW d, NEW bs, NEW n, TrendOK(c, bs, n),
         d.active = c.active, d.trendRun = c.trendRun, d.breakRun = c.breakRun
  PROVE  TrendOK(d, bs, n)
BY DEF TrendOK

LEMMA NextBarTraces ==
  ASSUME TraceInv, NEW bar \in Bars, NextBar(bar)
  PROVE  TraceOK(bars', counter', rows')
<1> DEFINE n == Len(bars)
           c1 == Expired(counter, n + 1)
           c2 == Trended(c1, bar.stacked)
           c3 == Opened(c2, bar, n + 1)
           row == Row(c3, Starts(c2, bar))
<1>1. /\ n \in Nat /\ bar.stacked \in BOOLEAN /\ bars \in Seq(Bars) /\ rows \in Seq(Rows)
      /\ Len(rows) = n /\ CounterOK(counter) /\ WindowCovers(counter, n)
  BY SetupAssumption, LenProperties DEF TraceInv, CounterInv
<1>2. /\ bars' = Append(bars, bar) /\ counter' = c3 /\ rows' = Append(rows, row)
  BY DEF NextBar
<1>3. /\ TrendOK(counter, bars, n) /\ Windows(counter, Mine(counter, rows), n)
      /\ \A s \in 1..n : rows[s].episode <= counter.episode
      /\ \A s \in 1..n : rows[s].start => bars[s].place = "dip"
  BY <1>1 DEF TraceInv, TraceOK
<1>4. CounterOK(c1) /\ CounterOK(c2) /\ c1 \in Counters /\ c2 \in Counters /\ counter \in Counters
  BY <1>1, ExpiredKeeps, TrendedKeeps DEF CounterOK
<1>5. CounterOK(c3) /\ c3 \in Counters
  <2>1. WindowCovers(c1, n + 1)
    BY <1>1, ExpiredKeeps
  <2>2. WindowCovers(c2, n + 1)
    BY <1>1, <1>4, <2>1, TrendedKeeps DEF WindowCovers
  <2> QED BY <1>1, <1>4, <2>2, OpenedKeeps DEF CounterOK
<1>6. row \in Rows /\ row.start = Starts(c2, bar) /\ row.active = c3.active
      /\ row.episode = IF c3.active THEN c3.episode ELSE 0
  BY <1>5 DEF Row, Rows, Starts, Allowed, Counters
<1>7. TrendOK(c3, bars', n + 1)
  <2>1. TrendOK(c1, bars, n)
    <3>1. c1.active = counter.active /\ c1.trendRun = counter.trendRun /\ c1.breakRun = counter.breakRun
      BY <1>1, <1>4, ExpiredFields
    <3> QED BY <1>3, <3>1, TrendOnly
  <2>2. TrendOK(c2, bars', n + 1)
    BY <1>1, <1>2, <1>4, <2>1, TrendStep
  <2>3. c3.active = c2.active /\ c3.trendRun = c2.trendRun /\ c3.breakRun = c2.breakRun
    BY <1>1, <1>4, OpenedFields
  <2> QED BY <2>2, <2>3, TrendOnly
<1>8. /\ Windows(c2, Mine(c2, rows), n + 1)
      /\ \A s \in 1..n : rows[s].episode <= c2.episode
  <2>1. c1.active = counter.active /\ c1.episode = counter.episode
    BY <1>1, <1>4, ExpiredFields
  <2>2. Windows(c1, Mine(counter, rows), n + 1)
    BY <1>1, <1>3, <1>4, ExpiredWindows
  <2>3. Mine(c1, rows) = Mine(counter, rows)
    BY <2>1 DEF Mine
  <2> HIDE DEF c1
  <2> QED BY <1>1, <1>3, <1>4, <2>1, <2>2, <2>3, TrendedWindows
<1>9. Windows(c3, Mine(c3, rows'), n + 1)
  <2>1. Mine(c2, rows) \in SUBSET (1..(n + 1) - 1) /\ n + 1 \in Nat \ {0}
    BY <1>1 DEF Mine, StartsOf
  <2>2. Windows(c3, IF Starts(c2, bar) THEN Mine(c2, rows) \cup {n + 1} ELSE Mine(c2, rows), n + 1)
    BY <1>4, <1>8, <2>1, OpenedWindows
  <2>3. c3.active = c2.active /\ c3.episode = c2.episode
    BY <1>1, <1>4, OpenedFields
  <2>4. Mine(c3, rows) = Mine(c2, rows) /\ (row.start => c3.active)
    BY <1>6, <2>3 DEF Mine, Starts
  <2>5. Mine(c3, rows') = IF row.start THEN Mine(c3, rows) \cup {n + 1} ELSE Mine(c3, rows)
    BY <1>1, <1>2, <1>6, <2>4, MineExtends
  <2> QED BY <1>6, <2>2, <2>4, <2>5
<1>10. /\ Len(bars') = n + 1 /\ bars'[n + 1] = bar /\ Len(rows') = n + 1 /\ rows'[n + 1] = row
       /\ \A s \in 1..n : bars'[s] = bars[s] /\ rows'[s] = rows[s]
       /\ \A s \in 1..n + 1 : s \in 1..n \/ s = n + 1
  BY <1>1, <1>2, AppendProperties
<1>11. c3.episode = c2.episode /\ c3.episode \in Nat
  <2>1. c3.episode = c2.episode
    BY <1>1, <1>4, OpenedFields
  <2> HIDE DEF c3
  <2>2. c3.episode \in Nat
    BY <1>5 DEF Counters
  <2> QED BY <2>1, <2>2
<1>12. row.episode <= c3.episode
  BY <1>6, <1>11
<1>13. Starts(c2, bar) => bar.place = "dip"
  BY DEF Starts, Beside, Contact
<1>14. c3.active /\ bar.place = "dip" => c3.pending \/ c3.completed = MaxBounces
  <2>1. /\ c3.active = c2.active /\ c3.completed = c2.completed
        /\ Starts(c2, bar) => c3.pending
        /\ ~Starts(c2, bar) => c3.pending = c2.pending
    BY <1>1, <1>4, OpenedFields
  <2>2. bar.place = "dip" /\ c2.active => Starts(c2, bar) \/ c2.pending \/ ~(c2.completed < MaxBounces)
    BY DEF Starts, Beside, Contact
  <2>3. c2.completed \in 0..MaxBounces
    BY <1>4 DEF Counters
  <2>4. ~(c2.completed < MaxBounces) => c2.completed = MaxBounces
    BY <2>3, PeriodFacts
  <2> QED BY <2>1, <2>2, <2>4
<1>15. row = Row(c3, row.start)
  BY <1>6
<1> HIDE DEF c3, row
<1>16. \A s \in 1..n + 1 : rows'[s].episode <= c3.episode
  BY <1>8, <1>10, <1>11, <1>12
<1>17. \A s \in 1..n + 1 : rows'[s].start => bars'[s].place = "dip"
  BY <1>3, <1>6, <1>10, <1>13
<1> QED BY <1>2, <1>7, <1>9, <1>10, <1>14, <1>15, <1>16, <1>17 DEF TraceOK

LEMMA TraceInvStep == TraceInv /\ [Next]_vars => TraceInv'
<1> SUFFICES ASSUME TraceInv, [Next]_vars PROVE TraceInv'
  OBVIOUS
<1>1. CounterInv'
  BY CounterInvStep DEF TraceInv
<1>2. CASE Next
  BY <1>1, <1>2, NextBarTraces DEF Next, TraceInv
<1>3. CASE UNCHANGED vars
  BY <1>1, <1>3 DEF vars, TraceInv
<1> QED BY <1>2, <1>3

LEMMA TracesCount == TraceInv => BouncesCounted
<1> SUFFICES ASSUME TraceInv, Len(bars) > 0 PROVE BouncesCounted
  BY DEF BouncesCounted
<1> DEFINE t == Len(bars)
           row == rows[t]
           M == Mine(counter, rows)
           mine == {s \in AllBars : rows[s].start /\ rows[s].episode = row.episode}
           open(s) == t < s + TouchLookback
<1>1. /\ t \in Nat /\ AllBars = 1..t /\ Len(rows) = t /\ counter \in Counters
      /\ TrendOK(counter, bars, t) /\ Windows(counter, M, t)
      /\ \A s \in 1..t : rows[s].start => bars[s].place = "dip"
      /\ row = Row(counter, row.start)
      /\ counter.active /\ bars[t].place = "dip" => counter.pending \/ counter.completed = MaxBounces
  BY LenProperties DEF TraceInv, TraceOK, CounterInv, CounterOK, AllBars
<1>2. /\ row.active = counter.active /\ row.pending = counter.pending
      /\ row.completed = counter.completed /\ row.allowed = Allowed(counter)
      /\ counter.active => row.episode = counter.episode
  <2>1. \A x : Row(counter, x).active = counter.active /\ Row(counter, x).pending = counter.pending
               /\ Row(counter, x).completed = counter.completed
               /\ Row(counter, x).allowed = Allowed(counter)
               /\ (counter.active => Row(counter, x).episode = counter.episode)
    BY DEF Row
  <2> HIDE DEF row
  <2> QED BY <1>1, <2>1
<1> HIDE DEF t, row
<1>3. row.active <=> \E s \in 1..t : StackedRun(s) /\ \A u \in s + 1..t : ~BrokenRun(u)
  BY <1>1, <1>2 DEF TrendOK, InTrend, RunUp, RunDown, StackedRun, BrokenRun
<1>4. /\ M \subseteq 1..t /\ counter.completed = Cardinality(Ended(M, t))
      /\ counter.pending => counter.end - TouchLookback + 1 \in M /\ t <= counter.end
      /\ ~counter.pending => \A s \in M : s + TouchLookback <= t
      /\ \A s, u \in M : s < u => s + TouchLookback <= u
  BY <1>1 DEF Windows
<1>5. row.active => mine = M
  BY <1>1, <1>2 DEF Mine, StartsOf
<1>6. \A s \in M : s \in Nat /\ (open(s) <=> ~(s + TouchLookback <= t))
  BY <1>1, <1>4, PeriodFacts
<1>7. \A s, u \in M : s < u => u >= s + TouchLookback
  BY <1>4, <1>6, PeriodFacts
<1>8. counter.pending <=> \E s \in M : open(s)
  <2>1. counter.pending => open(counter.end - TouchLookback + 1)
    BY <1>1, <1>4, PeriodFacts DEF Counters
  <2> QED BY <1>4, <1>6, <2>1
<1>9. {s \in M : ~open(s)} = Ended(M, t)
  BY <1>6 DEF Ended
<1>10. \A s \in M : bars[s].place = "dip"
  BY <1>1 DEF Mine, StartsOf
<1>11. counter.active \/ (M = {} /\ Ended(M, t) = {})
  BY DEF Mine, Ended
<1>12. ~row.active => ~row.pending /\ row.completed = 0 /\ ~row.allowed
  BY <1>2, <1>4, <1>11, FS_EmptySet DEF Allowed
<1> HIDE DEF M, open
<1>13. row.active =>
          /\ row.completed = Cardinality({s \in mine : ~open(s)})
          /\ row.pending <=> \E s \in mine : open(s)
          /\ \A s \in mine : bars[s].place = "dip"
          /\ \A s, u \in mine : s < u => u >= s + TouchLookback
          /\ bars[t].place = "dip" => row.pending \/ row.completed = MaxBounces
  <2> HIDE DEF mine
  <2> QED BY <1>1, <1>2, <1>4, <1>5, <1>7, <1>8, <1>9, <1>10
<1> QED BY <1>3, <1>12, <1>13 DEF BouncesCounted, t, row, open

--------------------------------------------------------------------------------
(* The shifted and rolled columns. *)

Quiet(bs, t) == t > Lookback /\ \A u \in t - Lookback..t - 1 : ~Reaches(bs[u])
First(bs, t) == Reaches(bs[t]) /\ Quiet(bs, t)

LEMMA WindowFacts ==
  /\ Lookback \in Nat /\ Lookback > 0 /\ ActiveBars \in Nat /\ ActiveBars > 0
  /\ WidthLookback \in Nat /\ WidthLookback > 0 /\ MinCurrent \in Int /\ MinRecent \in Int
  /\ None \notin Int
BY SetupAssumption

\* The shifted and rolled touches of bar t are those of the full lookback before it.
LEMMA PriorIsQuiet ==
  ASSUME NEW bs \in Seq(Bars), NEW t \in 1..Len(bs)
  PROVE  UntouchedBefore(Touches(bs), Lookback)[t] <=> Quiet(bs, t)
<1> DEFINE n == Len(bs)
           touch == Touches(bs)
           shifted == Shifted(touch)
           seen == RollingAny(shifted, Lookback, Lookback)
<1>1. n \in Nat /\ DOMAIN bs = 1..n /\ t \in 1..n
  OBVIOUS
<1>2. DOMAIN touch = 1..n /\ \A u \in 1..n : touch[u] = Reaches(bs[u])
  BY <1>1 DEF Touches
<1> HIDE DEF touch
<1>3. DOMAIN shifted = 1..n /\ \A u \in 1..n : shifted[u] = (u > 1 /\ touch[u - 1])
  BY <1>2 DEF Shifted
<1>4. UntouchedBefore(touch, Lookback)[t] <=> t > Lookback /\ seen[t] = FALSE
  BY <1>1, <1>2 DEF UntouchedBefore
<1> HIDE DEF shifted
<1>5. t > Lookback =>
        seen[t] = (\E u \in 1..n : t - Lookback < u /\ u <= t /\ shifted[u])
  <2>1. seen[t] = IF t < Lookback THEN None
                  ELSE \E u \in DOMAIN shifted : t - Lookback < u /\ u <= t /\ shifted[u]
    BY <1>1, <1>3 DEF RollingAny
  <2>2. t > Lookback => ~(t < Lookback)
    BY <1>1, WindowFacts
  <2> HIDE DEF seen
  <2> QED BY <1>3, <2>1, <2>2
<1>6. t > Lookback =>
        ((\E u \in 1..n : t - Lookback < u /\ u <= t /\ shifted[u]) <=>
         (\E u \in t - Lookback..t - 1 : Reaches(bs[u])))
  <2> SUFFICES ASSUME t > Lookback
               PROVE  (\E u \in 1..n : t - Lookback < u /\ u <= t /\ shifted[u]) <=>
                      (\E u \in t - Lookback..t - 1 : Reaches(bs[u]))
    OBVIOUS
  <2>1. ASSUME NEW u \in 1..n, t - Lookback < u, u <= t, shifted[u]
        PROVE  \E v \in t - Lookback..t - 1 : Reaches(bs[v])
    <3>1. u > 1 /\ touch[u - 1]
      BY <1>3, <2>1
    <3>2. u - 1 \in t - Lookback..t - 1 /\ u - 1 \in 1..n
      BY <1>1, <2>1, <3>1, WindowFacts
    <3>3. Reaches(bs[u - 1])
      BY <1>2, <3>1, <3>2
    <3> QED BY <3>2, <3>3
  <2>2. ASSUME NEW v \in t - Lookback..t - 1, Reaches(bs[v])
        PROVE  \E u \in 1..n : t - Lookback < u /\ u <= t /\ shifted[u]
    <3>1. v + 1 \in 1..n /\ v \in 1..n /\ t - Lookback < v + 1 /\ v + 1 <= t /\ v + 1 > 1
          /\ (v + 1) - 1 = v
      BY <1>1, WindowFacts
    <3>2. shifted[v + 1]
      BY <1>2, <1>3, <2>2, <3>1
    <3> QED BY <3>1, <3>2
  <2> QED BY <2>1, <2>2
<1> HIDE DEF seen
<1> QED BY <1>4, <1>5, <1>6 DEF Quiet, touch

LEMMA UntouchedIs ==
  ASSUME NEW bs \in Seq(Bars), NEW t \in 1..Len(bs)
  PROVE  Untouched(bs, Lookback, ActiveBars)[t] <=>
           \/ bs[t].place = "clear" /\ Quiet(bs, t)
           \/ \E u \in 1..Len(bs) : u <= t /\ t < u + ActiveBars /\ First(bs, u)
<1> DEFINE n == Len(bs)
           touch == Touches(bs)
           prior == UntouchedBefore(touch, Lookback)
           firsts == FirstTouches(touch, Lookback)
           active == RollingAny(firsts, ActiveBars, 1)
<1>1. n \in Nat /\ DOMAIN bs = 1..n /\ t \in 1..n
  OBVIOUS
<1>2. DOMAIN touch = 1..n /\ \A u \in 1..n : touch[u] = Reaches(bs[u])
  BY <1>1 DEF Touches
<1>3. \A u \in 1..n : prior[u] <=> Quiet(bs, u)
  BY PriorIsQuiet
<1>4. DOMAIN firsts = 1..n /\ \A u \in 1..n : firsts[u] <=> First(bs, u)
  <2>1. firsts = [u \in 1..n |-> touch[u] /\ prior[u]]
    BY <1>2 DEF FirstTouches
  <2> HIDE DEF prior, touch, firsts
  <2> QED BY <1>2, <1>3, <2>1 DEF First
<1>5. Untouched(bs, Lookback, ActiveBars)[t] <=>
        (Beside(bs[t]) /\ prior[t] /\ ~touch[t]) \/ active[t]
  BY <1>1 DEF Untouched
<1> HIDE DEF prior, touch, firsts
<1>6. active[t] <=> \E u \in 1..n : t - ActiveBars < u /\ u <= t /\ firsts[u]
  BY <1>1, <1>4 DEF RollingAny
<1>7. \A u \in 1..n : t - ActiveBars < u <=> t < u + ActiveBars
  BY <1>1, WindowFacts
<1>8. Beside(bs[t]) /\ ~Reaches(bs[t]) <=> bs[t].place = "clear"
  BY DEF Beside, Reaches
<1> HIDE DEF active
<1> QED BY <1>1, <1>2, <1>3, <1>4, <1>5, <1>6, <1>7, <1>8

\* The widest of a complete window is at least m exactly if one of its bars is.
LEMMA WideStackIs ==
  ASSUME NEW bs \in Seq(Bars), NEW t \in 1..Len(bs)
  PROVE  WideStack(bs, WidthLookback, MinCurrent, MinRecent)[t] <=>
           /\ t >= WidthLookback /\ bs[t].width # None /\ bs[t].width >= MinCurrent
           /\ bs[t].place # "unknown"
           /\ \A u \in t - WidthLookback + 1..t : bs[u].width # None
           /\ \E u \in t - WidthLookback + 1..t : bs[u].width # None /\ bs[u].width >= MinRecent
<1> DEFINE n == Len(bs)
           window == {u \in DOMAIN bs : t - WidthLookback < u /\ u <= t}
           widths == {bs[u].width : u \in window}
           recent == WidestOf(bs, WidthLookback, t)
<1>1. n \in Nat /\ DOMAIN bs = 1..n /\ t \in 1..n
      /\ \A u \in 1..n : bs[u].width \in Int \cup {None}
  <2>1. \A u \in 1..n : bs[u] \in Bars
    OBVIOUS
  <2> QED BY <2>1, SetupAssumption
<1>2. t >= WidthLookback => window = t - WidthLookback + 1..t /\ t \in window
  BY <1>1, WindowFacts
<1>3. window \subseteq 1..n
  BY <1>1
<1>4. WideStack(bs, WidthLookback, MinCurrent, MinRecent)[t] <=>
        /\ bs[t].place # "unknown" /\ bs[t].width # None /\ recent # None
        /\ bs[t].width >= MinCurrent /\ recent >= MinRecent
  BY <1>1 DEF WideStack
<1>5. recent = IF t < WidthLookback \/ \E u \in window : bs[u].width = None THEN None ELSE Max(widths)
  BY DEF WidestOf
<1> HIDE DEF recent
<1>6. CASE t < WidthLookback \/ \E u \in window : bs[u].width = None
  BY <1>1, <1>2, <1>4, <1>5, <1>6, WindowFacts
<1>7. CASE t >= WidthLookback /\ \A u \in window : bs[u].width # None
  <2>1. widths \in SUBSET Int /\ widths # {}
    BY <1>1, <1>2, <1>3, <1>7
  <2>2. IsFiniteSet(widths)
    <3>1. IsFiniteSet(1..n)
      BY <1>1, FS_Interval
    <3>2. IsFiniteSet(window)
      BY <1>3, <3>1, FS_Subset
    <3> DEFINE width == [u \in window |-> bs[u].width]
    <3>3. IsFiniteSet({width[u] : u \in window})
      <4> HIDE DEF window, width
      <4> QED BY <3>2, FiniteValues
    <3>4. widths = {width[u] : u \in window}
      OBVIOUS
    <3> QED BY <3>3, <3>4
  <2>3. Max(widths) \in widths /\ \A x \in widths : Max(widths) >= x
    <3> HIDE DEF widths
    <3>1. \E m \in widths : \A x \in widths : m >= x
      BY <2>1, <2>2, GreatestNumber
    <3> QED BY <3>1 DEF Max
  <2>4. recent = Max(widths) /\ recent \in Int
    <3> HIDE DEF widths, window
    <3>1. ~(t < WidthLookback)
      BY <1>1, <1>7, WindowFacts
    <3>2. recent = Max(widths)
      BY <1>5, <1>7, <3>1
    <3> QED BY <2>1, <2>3, <3>2
  <2>5. recent >= MinRecent <=> \E x \in widths : x >= MinRecent
    <3> HIDE DEF widths
    <3>1. \A x \in widths : x \in Int
      BY <2>1
    <3> QED BY <2>3, <2>4, <3>1, WindowFacts
  <2>6. recent # None
    BY <2>4, WindowFacts
  <2>7. (\E x \in widths : x >= MinRecent) <=> \E u \in window : bs[u].width >= MinRecent
    OBVIOUS
  <2> HIDE DEF widths
  <2> QED BY <1>2, <1>4, <1>7, <2>5, <2>6, <2>7
<1> QED BY <1>1, <1>6, <1>7, WindowFacts

LEMMA ColumnsAsNamed == bars \in Seq(Bars) => WindowSetups
<1> SUFFICES ASSUME bars \in Seq(Bars), NEW t \in AllBars
             PROVE  /\ UntouchedAnchor[t] <=>
                         \/ bars[t].place = "clear" /\ Quiet(bars, t)
                         \/ \E u \in AllBars : u <= t /\ t < u + ActiveBars /\ First(bars, u)
                    /\ \A u \in AllBars : First(bars, t) /\ First(bars, u) /\ u < t => t - u > Lookback
                    /\ StackWidth[t] <=>
                         /\ t >= WidthLookback /\ bars[t].width # None /\ bars[t].width >= MinCurrent
                         /\ bars[t].place # "unknown"
                         /\ \A u \in t - WidthLookback + 1..t : bars[u].width # None
                         /\ \E u \in t - WidthLookback + 1..t :
                               bars[u].width # None /\ bars[u].width >= MinRecent
  BY Zenon DEF WindowSetups, First, Quiet
<1>1. AllBars = 1..Len(bars) /\ Len(bars) \in Nat
  BY DEF AllBars
<1>2. \A u \in AllBars : First(bars, t) /\ First(bars, u) /\ u < t => t - u > Lookback
  <2> SUFFICES ASSUME NEW u \in AllBars, First(bars, t), First(bars, u), u < t, ~(t - u > Lookback)
               PROVE  FALSE
    OBVIOUS
  <2>1. u \in t - Lookback..t - 1
    BY <1>1, WindowFacts
  <2> QED BY <2>1 DEF First, Quiet
<1> QED BY <1>1, <1>2, UntouchedIs, WideStackIs DEF UntouchedAnchor, StackWidth

\* On every bar of every history the trend, the count of bounces and the columns of
\* the look-back setups are what the setups are named for, for every choice of periods
\* (BounceCounter, UntouchedAnchor, StackWidth of setups.py).
THEOREM SetupsAreAsDefined == Spec => []SetupsAsDefined
<1>1. TraceInv => SetupsAsDefined
  BY TracesCount, ColumnsAsNamed DEF SetupsAsDefined, TraceInv, CounterInv
<1> QED BY <1>1, TraceInvInit, TraceInvStep, PTL DEF Spec
================================================================================
