-------------------------- MODULE PredicateHistory --------------------------
(***************************************************************************)
(* A frame growing bar by bar, with an episode on one side of it, and what *)
(* must hold of the operands and predicates evaluated over it.  The        *)
(* episode is what stack_episode.py hands over: a wave runs from the       *)
(* lowest low since the last touch to the highest high after it.           *)
(***************************************************************************)
EXTENDS PredicateNodes

CONSTANTS
    Offsets,        \* grid offsets of the first bar
    Beginnings,       \* the bars before the first that varies
    Shapes,         \* the bars a history is made of
    MaxBars,        \* bound: the bars after the prefix
    AllOperands, AllPredicates,
    OfCandles,      \* operands: candles measured in their ATR
    AllSegments,    \* raw segments, accepted or not
    Mirrored        \* operands that are directional by construction

VARIABLES
    world,
    side,           \* the side of the episodes
    waveFrom,       \* where the forming wave begins; 0 without an episode
    left            \* the bars still to come

vars == <<world, side, waveFrom, left>>

NoEpisode(n) ==
    [number |-> [t \in 1..n |-> NaN], id |-> [t \in 1..n |-> NaN], first |-> <<>>, rows |-> <<>>]

Init ==
    /\ side \in Sides /\ waveFrom = 0 /\ left = MaxBars
    /\ \E offset \in Offsets, bars \in Beginnings :
          world = [n |-> Len(bars), offset |-> offset, bars |-> bars,
                   ep |-> [s \in Sides |-> NoEpisode(Len(bars))]]

-----------------------------------------------------------------------------
\* Mutant: the peak is the highest high of the wave, before its origin too.
TouchedRowAnyPeak(bars, t) ==
    LET up(u) == IF side = "long" THEN bars[u].high ELSE -bars[u].low
        down(u) == IF side = "long" THEN bars[u].low ELSE -bars[u].high
        origin == CHOOSE u \in waveFrom..t : \A v \in waveFrom..t : down(u) < down(v) \/ (down(u) = down(v) /\ u <= v)
        peak == CHOOSE u \in waveFrom..t : \A v \in waveFrom..t : up(u) > up(v) \/ (up(u) = up(v) /\ u <= v)
    IN  [origin |-> origin, peak |-> peak, touch |-> t, originPrice |-> down(origin), peakPrice |-> up(peak)]

\* The finished wave of a touch on the last of bars, our side up.
TouchedRow(bars, t) ==
    LET up(u) == IF side = "long" THEN bars[u].high ELSE -bars[u].low
        down(u) == IF side = "long" THEN bars[u].low ELSE -bars[u].high
        origin == CHOOSE u \in waveFrom..t : \A v \in waveFrom..t : down(u) < down(v) \/ (down(u) = down(v) /\ u <= v)
        peak == CHOOSE u \in origin..t : \A v \in origin..t : up(u) > up(v) \/ (up(u) = up(v) /\ u <= v)
    IN  [origin |-> origin, peak |-> peak, touch |-> t,
         originPrice |-> IF side = "long" THEN bars[origin].low ELSE bars[origin].high,
         peakPrice |-> IF side = "long" THEN bars[peak].high ELSE bars[peak].low]

Grown(bar, E, other) ==
    [world EXCEPT !.n = @ + 1, !.bars = Append(@, bar),
                  !.ep = [s \in Sides |-> IF s = side THEN E ELSE other]]

Silent(E) == [E EXCEPT !.number = Append(@, NaN), !.id = Append(@, NaN)]
Other == IF side = "long" THEN world.ep["short"] ELSE world.ep["long"]

NextBar ==
    /\ left > 0 /\ left' = left - 1
    /\ \E bar \in Shapes :
         LET t == world.n + 1
             E == world.ep[side]
             last == Len(E.first)
         IN  \/ \* no episode
                /\ waveFrom = 0 /\ waveFrom' = 0
                /\ world' = Grown(bar, Silent(E), Silent(Other))
             \/ \* one begins
                /\ waveFrom = 0 /\ waveFrom' = t
                /\ world' = Grown(bar, [E EXCEPT !.number = Append(@, 0), !.id = Append(@, last + 1),
                                                 !.first = Append(@, Len(E.rows) + 1)], Silent(Other))
             \/ \* it goes on
                /\ waveFrom > 0 /\ UNCHANGED waveFrom
                /\ world' = Grown(bar, [E EXCEPT !.number = Append(@, @[t - 1]), !.id = Append(@, last)],
                                  Silent(Other))
             \/ \* the anchor is touched
                /\ waveFrom > 0 /\ waveFrom' = t
                /\ world' = Grown(bar, [E EXCEPT !.number = Append(@, @[t - 1] + 1), !.id = Append(@, last),
                                                 !.rows = Append(@, TouchedRow(Append(world.bars, bar), t))],
                                  Silent(Other))
             \/ \* it ends
                /\ waveFrom > 0 /\ waveFrom' = 0
                /\ world' = Grown(bar, Silent(E), Silent(Other))
    /\ UNCHANGED side

Next == NextBar
Spec == Init /\ [][Next]_vars

-----------------------------------------------------------------------------
Times(x, seq) == Cardinality({i \in 1..Len(seq) : seq[i] = x})

\* Every wave of the table lies in the history, ends at its touch and begins
\* where the one before ended or later.
TypeOK ==
    LET E == world.ep[side]
    IN  /\ Len(world.bars) = world.n /\ Len(E.number) = world.n
        /\ \A r \in 1..Len(E.rows) :
              /\ E.rows[r].origin <= E.rows[r].peak /\ E.rows[r].peak <= E.rows[r].touch
              /\ E.rows[r].touch <= world.n
              /\ r > 1 => E.rows[r - 1].touch <= E.rows[r].origin

\* The memo nodes of the predicates and of the operands that have one.
Named == {o \in AllOperands \union OfCandles : o.k # "price"}
MaskNodes == [p \in AllPredicates, s \in Sides |-> LocalNode(p, s)]
OperandNodes == [o \in Named, s \in Sides |-> NodeOf(o, s)]

\* Two predicates, or two operands, with one memo node have one column,
\* whatever their sides: the node that the batch memo shares names all that
\* the computation depends on (resolve_predicate, _resolve_operand).
SharedNodeSameColumn ==
    world.n > 0 =>
    LET masks == {<<MaskNodes[p, s], MaskAt(p, s, world, world.n)>> : p \in AllPredicates, s \in Sides}
        values == {<<OperandNodes[o, s], ValueAt(o, s, world, world.n)>> : o \in Named, s \in Sides}
    IN  /\ Cardinality(masks) = Cardinality(Range(MaskNodes))
        /\ Cardinality(values) = Cardinality(Range(OperandNodes))

\* The evaluation asks the context for exactly the nodes, as often, as the
\* pre-pass predicted for it; otherwise results stay or go too early.
AskedAsPredicted ==
    left = MaxBars =>
        \A p \in {q \in AllPredicates : PredicateAccepted(q)}, s \in Sides :
           \A x \in ToSet(Nested(p, s)) \union ToSet(Asks(p, s)) :
              Times(x, Nested(p, s)) = Times(x, Asks(p, s))

\* No later bar changes a value or a mask of an earlier one; for candles
\* measured in their ATR see CandleSettled.
PastUnchanged ==
    [][/\ \A o \in AllOperands, s \in Sides, t \in 1..world.n :
             ValueAt(o, s, world', t) = ValueAt(o, s, world, t)
       /\ \A p \in {q \in AllPredicates : ~ (q.k = "condition" /\ q.long.k = "range" /\ q.long.operand \in OfCandles)},
          s \in Sides, t \in 1..world.n :
             MaskAt(p, s, world', t) = MaskAt(p, s, world, t)]_vars

\* A candle measured in its ATR reads only bars up to t: the bar after the
\* last one changes nothing (pre-entry-predicates-v1).
CandleSettled ==
    [][\A o \in OfCandles, s \in Sides, t \in 1..world.n :
          ValueAt(o, s, world', t) = ValueAt(o, s, world, t)]_vars

\* The market seen from the other side.
MirrorBar(b) ==
    [b EXCEPT !.open = -b.open, !.close = -b.close, !.high = -b.low, !.low = -b.high,
              !.anchor = -b.anchor, !.y = -b.y, !.x = IF b.x = NaN THEN NaN ELSE -b.x]
MirrorRows(rows) ==
    [r \in 1..Len(rows) |-> [rows[r] EXCEPT !.originPrice = -rows[r].originPrice,
                                           !.peakPrice = -rows[r].peakPrice]]
MirrorWorld ==
    LET flip(E) == [E EXCEPT !.rows = MirrorRows(E.rows)]
    IN  [world EXCEPT !.bars = [t \in 1..world.n |-> MirrorBar(world.bars[t])],
                      !.ep = "long" :> flip(world.ep["short"]) @@ "short" :> flip(world.ep["long"])]

\* A directional operand reads a market long as it reads the mirrored market
\* short: no comparison or sign of the two sides is crossed.
SidesMirror ==
    world.n > 0 =>
        \A o \in Mirrored, s \in Sides :
           ValueAt(o, s, world, world.n)
               = ValueAt(o, IF s = "long" THEN "short" ELSE "long", MirrorWorld, world.n)

\* What the incremental loops and the sparse table carry from bar to bar is
\* what a fresh look at the whole leg, bucket or window gives.
RunningIsFresh ==
    LET t == world.n
        E == world.ep[side]
        high == Column(world, "high")
        first == FirstBar(world, Bucket(world, t))
    IN  t > 0 =>
        /\ \A a \in 1..t : /\ WindowExtreme(high, a, t, TRUE) = Most(high, a, t)
                           /\ WindowExtreme(high, a, t, FALSE) = Fewest(high, a, t)
        /\ HasWave(E, t) =>
              /\ PullbackExtreme(E, high, side, t)
                    = IF side = "long" THEN Fewest(high, Touch(E, t).peak, t)
                      ELSE Most(high, Touch(E, t).peak, t)
              /\ Touch(E, t).peak < t =>
                    LegTopMean(E, high, "pullback", <<1, 2>>, t)
                        = TopMean(Ordered(high, Touch(E, t).peak + 1, t), <<1, 2>>)
              /\ (Atr(world, t) # NaN /\ Atr(world, t) > 0) =>
                    FormingRange(world, E, t)
                        = Quot(Most(high, first, t) - Fewest(Column(world, "low"), first, t),
                               Atr(world, t))

\* A segment's value written from its aggregate alone, bar by bar.
Meaning(g, x, s, e) ==
    LET span == IF g.span = None THEN 1 ELSE g.span
        step(u) == x[u] - x[u - span]
        from == IF g.value = "level" THEN s ELSE s + span - 1
        term == [u \in from..e |->
                   CASE g.value = "level" -> x[u]
                     [] g.value = "from_start" -> x[u] - x[s]
                     [] OTHER -> step(u)]
        moves == [u \in from..e |-> Abs(term[u])]
        largest == CHOOSE S \in SUBSET (from..e) :
                      /\ Cardinality(S) = Lesser(g.top, e - from + 1)
                      /\ \A u \in S, v \in (from..e) \ S : moves[u] >= moves[v]
        top == MapThenSumSet(LAMBDA u : moves[u], largest)
        n == e - from + 1
    IN  CASE g.aggregate = "max" -> Most(term, from, e)
          [] g.aggregate = "min" -> Fewest(term, from, e)
          [] g.aggregate = "sum" -> Total(term, from, e)
          [] g.aggregate = "mean_per_bar" -> Quot(Total(term, from, e), n)
          [] g.aggregate = "abs_sum" -> Total(moves, from, e)
          [] g.aggregate = "top_abs_sum" -> top
          [] g.aggregate = "top_abs_share" ->
                Quot(top * n - g.top * Total(moves, from, e), Total(moves, from, e) * (n - g.top))

\* Every segment the parser accepts is evaluated as what its fields say, over
\* bars of the wave it names and no more of them than last_n.
SegmentsMean ==
    LET t == world.n
        E == world.ep[side]
    IN  t > 0 =>
        \A g \in {h \in AllSegments : SegmentAccepted(h)} :
           LET x == SegmentSeries(g, side, world)
               value == Segment(E, g, x, t)
               s == SegmentFirst(E, g, t)
               e == SegmentEnd(E, g, t)
           IN  value # NaN =>
                  /\ IF g.touch = "previous"
                     THEN PreviousTouch(E, t).origin <= s /\ e <= Touch(E, t).origin
                     ELSE Touch(E, t).origin <= s /\ e <= t
                  /\ g.last # None => e - s + 1 <= g.last
                  /\ value = (IF g.negate THEN -Meaning(g, x, s, e) ELSE Meaning(g, x, s, e))

\* The values over legs, windows and segments are what their names say,
\* however they are carried from bar to bar.
OperandsAsDefined == RunningIsFresh /\ SegmentsMean
=============================================================================
