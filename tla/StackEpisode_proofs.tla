------------------------- MODULE StackEpisode_proofs -------------------------
(* Proofs about StackEpisode, for every window, break length and history:     *)
(* the facts about types and control on which the others stand; type          *)
(* correctness; that a longer history changes no past value; that the         *)
(* extremes and marks of zones and false breaks are those of the bars traded, *)
(* RangesAsTraded; and that episodes, touches and waves, read on any bar, are *)
(* those of the definition over the whole history, EpisodesAsDefined.         *)
EXTENDS StackEpisode, SequenceTheorems, TLAPS

Candles ==
  {c \in [low : Int, high : Int, close : Int, anchor : Int, order : BOOLEAN] :
      c.low <= c.close /\ c.close <= c.high}

\* The bars as the machine sees them, mirrored on the short side.
hist == [k \in 1..Len(bars) |-> Bar(k)]

Marks == Nat \union {None}
Prices == Int \union {None}
Outcomes == {None, "comeback", "stack_break"}
Spans == [contact : Nat, low : Int, high : Int, run : Nat, runLow : Int, runHigh : Int]
Formings == [origin : Nat, low : Int, peak : Nat, high : Int, down : Int]
Episodes == [start : Nat, end : Marks, censored : BOOLEAN, wave : Formings \union {None}]
Rows ==
  [episode : Nat, number : Nat, start : Nat, end : Nat, high : Int, low : Int,
   final : BOOLEAN, knownAt : Marks,
   broken : BOOLEAN, fbStart : Marks, fbEnd : Marks, fbHigh : Prices, fbLow : Prices,
   outcome : Outcomes, fbFinal : BOOLEAN, fbKnownAt : Marks,
   origin : Nat, upLow : Int, peak : Nat, upHigh : Int,
   price : Int, downHigh : Int, downLow : Int]

BarsOK == side \in Sides /\ bars \in Seq(Candles)

\* One bar, as the side sees it.
Step(b) ==
  /\ Len(bars) < MaxBars
  /\ bars' = Append(bars, Mirror(b)) /\ side' = side
  /\ Project(b) /\ seen' = Append(seen, Snapshot)

LEMMA LengthsAreNat ==
  /\ Window \in Nat /\ Window > 0 /\ BreakBars \in Nat /\ BreakBars > 0
  /\ CensorBefore \in Nat /\ MaxBars \in Nat
<1>1. Window \in Nat \ {0} /\ BreakBars \in Nat \ {0} /\ CensorBefore \in Nat /\ MaxBars \in Nat
  BY ParameterAssumption
<1> QED BY <1>1

LEMMA NoneIsApart ==
  /\ None \notin Int /\ None \notin Nat
  /\ None # "comeback" /\ None # "stack_break"
<1>1. None \notin Int
  BY ParameterAssumption
<1>2. None # "comeback" /\ None # "stack_break"
  BY ParameterAssumption
<1>3. None \notin Nat
  BY <1>1
<1> QED BY <1>1, <1>2, <1>3, Zenon

--------------------------------------------------------------------------------
(* The history. *)

\* Mirrored prices of a candle are a candle again, and mirroring undoes itself.
LEMMA MirrorCandle ==
  ASSUME NEW c \in Candles
  PROVE  Mirror(c) \in Candles /\ Mirror(Mirror(c)) = c
<1>1. CASE side = "long"
  BY <1>1 DEF Mirror
<1>2. CASE side # "long"
  <2> DEFINE d == [low |-> -c.high, high |-> -c.low, close |-> -c.close,
                   anchor |-> -c.anchor, order |-> c.order]
  <2>1. Mirror(c) = d
    BY <1>2 DEF Mirror, Candles
  <2>2. d \in Candles
    BY DEF Candles
  <2>3. Mirror(d) = [low |-> -d.high, high |-> -d.low, close |-> -d.close,
                     anchor |-> -d.anchor, order |-> d.order]
    BY <1>2 DEF Mirror
  <2>4. c = [low |-> c.low, high |-> c.high, close |-> c.close,
             anchor |-> c.anchor, order |-> c.order]
    BY DEF Candles
  <2>5. c.low \in Int /\ c.high \in Int /\ c.close \in Int /\ c.anchor \in Int
    BY DEF Candles
  <2>6. Mirror(d) = c
    BY <2>3, <2>4, <2>5
  <2> QED BY <2>1, <2>2, <2>6
<1> QED BY <1>1, <1>2

\* The bar a history is given is, on either side, the bar the machine sees.
LEMMA NextIsStep ==
  ASSUME Next
  PROVE  \E b \in Candles : Step(b)
<1>1. PICK b \in IF bars = <<>> THEN FirstBars ELSE Bars : NextBar(Mirror(b))
  BY DEF Next
<1>2. b \in Candles
  BY BarAssumption DEF Candles
<1>3. Mirror(Mirror(b)) = b
  BY <1>2, MirrorCandle
<1>4. Step(b)
  BY <1>1, <1>3 DEF NextBar, Step
<1> QED BY <1>2, <1>4

LEMMA HistoryOK ==
  ASSUME BarsOK
  PROVE  /\ hist \in Seq(Candles) /\ Len(hist) = Len(bars) /\ Len(bars) \in Nat
         /\ DOMAIN hist = 1..Len(bars)
         /\ \A k \in 1..Len(bars) : hist[k] = Bar(k)
<1>1. Len(bars) \in Nat
  BY DEF BarsOK
<1>2. ASSUME NEW k \in 1..Len(bars) PROVE Bar(k) \in Candles
  <2>1. bars[k] \in Candles
    BY DEF BarsOK
  <2> QED BY <2>1, MirrorCandle DEF Bar
<1>3. hist \in [1..Len(bars) -> Candles]
  BY <1>2 DEF hist
<1>4. hist \in Seq(Candles)
  BY <1>1, <1>3, SeqDef
<1> QED BY <1>1, <1>3, <1>4 DEF hist

LEMMA HistoryGrows ==
  ASSUME BarsOK, NEW b \in Candles, Step(b)
  PROVE  /\ BarsOK' /\ hist' = Append(hist, b)
         /\ Len(bars') = Len(bars) + 1
         /\ \A k \in 1..Len(bars) : Bar(k)' = Bar(k)
<1> USE DEF BarsOK
<1>1. bars' = Append(bars, Mirror(b)) /\ side' = side
  BY DEF Step
<1>2. Mirror(b) \in Candles /\ Mirror(Mirror(b)) = b
  BY MirrorCandle
<1>3. BarsOK' /\ Len(bars') = Len(bars) + 1 /\ Len(bars) \in Nat
  BY <1>1, <1>2
<1>4. ASSUME NEW k \in 1..Len(bars) PROVE Bar(k)' = Bar(k)
  <2>1. bars'[k] = bars[k]
    BY <1>1, <1>2
  <2> QED BY <1>1, <2>1 DEF Bar, Mirror
<1>5. bars'[Len(bars) + 1] = Mirror(b)
  BY <1>1, <1>2
<1>6. ASSUME NEW k \in 1..Len(bars) + 1, k = Len(bars) + 1
      PROVE  Bar(k)' = b
  <2>1. Bar(k)' = Mirror(Mirror(b))
    BY <1>1, <1>5, <1>6 DEF Bar, Mirror
  <2> QED BY <2>1, <1>2
<1>7. hist \in Seq(Candles) /\ Len(hist) = Len(bars) /\ \A k \in 1..Len(bars) : hist[k] = Bar(k)
  BY HistoryOK
<1>8. hist' = [k \in 1..Len(bars) + 1 |-> Bar(k)']
  BY <1>3 DEF hist
<1> DEFINE g == Append(hist, b)
<1>9. /\ g \in Seq(Candles) /\ Len(g) = Len(bars) + 1
      /\ \A k \in 1..Len(bars) : g[k] = hist[k]
      /\ g[Len(bars) + 1] = b
  BY <1>3, <1>7, AppendProperties
<1>10. g = [k \in 1..Len(bars) + 1 |-> g[k]]
  <2>1. g \in [1..Len(bars) + 1 -> Candles]
    BY <1>9, LenProperties
  <2> QED BY <2>1
<1> HIDE DEF g
<1>11. ASSUME NEW k \in 1..Len(bars) + 1
       PROVE  Bar(k)' = g[k]
  <2>1. CASE k = Len(bars) + 1
    BY <2>1, <1>6, <1>9
  <2>2. CASE k \in 1..Len(bars)
    BY <2>2, <1>4, <1>7, <1>9
  <2> QED BY <1>3, <2>1, <2>2
<1>12. hist' = g
  BY <1>8, <1>10, <1>11, Zenon
<1> QED BY <1>3, <1>4, <1>12 DEF g

--------------------------------------------------------------------------------
(* The rewritings of a row of the touch table, field by field. *)

\* What no rewriting of a row touches: whose touch it is, and its wave.
SameTouch(row, new) ==
  /\ new.episode = row.episode /\ new.number = row.number /\ new.start = row.start
  /\ new.origin = row.origin /\ new.upLow = row.upLow
  /\ new.peak = row.peak /\ new.upHigh = row.upHigh
  /\ new.price = row.price /\ new.downHigh = row.downHigh /\ new.downLow = row.downLow

SameZone(row, new) == new.end = row.end /\ new.high = row.high /\ new.low = row.low

SameFalseBreak(row, new) ==
  /\ new.broken = row.broken /\ new.fbStart = row.fbStart /\ new.fbEnd = row.fbEnd
  /\ new.fbHigh = row.fbHigh /\ new.fbLow = row.fbLow /\ new.outcome = row.outcome
  /\ new.fbFinal = row.fbFinal /\ new.fbKnownAt = row.fbKnownAt

\* A zone becomes final on bar k.
Settled(row, k) == [row EXCEPT !.final = TRUE, !.knownAt = k]

\* A zone's last contact so far is bar k.
Reached(row, k, low, high) == [row EXCEPT !.end = k, !.low = low, !.high = high]

\* Bar k reveals that a zone is broken, by a run below the anchor.
Revealed(row, k, run, low, high) ==
  [row EXCEPT !.final = TRUE, !.knownAt = k, !.broken = TRUE,
              !.fbStart = k - run + 1, !.fbEnd = k, !.fbLow = low, !.fbHigh = high]

\* A false break goes on to bar k, and may end on it.
Prolonged(row, k, low, high) == [row EXCEPT !.fbEnd = k, !.fbLow = low, !.fbHigh = high]
Resolved(row, k, outcome) ==
  [row EXCEPT !.outcome = outcome, !.fbFinal = TRUE, !.fbKnownAt = k]

LEMMA SettledRow ==
  ASSUME NEW row \in Rows, NEW k \in Nat
  PROVE  LET new == Settled(row, k)
         IN  /\ new \in Rows /\ new.final /\ new.knownAt = k
             /\ SameTouch(row, new) /\ SameZone(row, new) /\ SameFalseBreak(row, new)
BY DEF Rows, Marks, Settled, SameTouch, SameZone, SameFalseBreak

LEMMA ReachedRow ==
  ASSUME NEW row \in Rows, NEW k \in Nat, NEW low \in Int, NEW high \in Int
  PROVE  LET new == Reached(row, k, low, high)
         IN  /\ new \in Rows /\ new.end = k /\ new.low = low /\ new.high = high
             /\ new.final = row.final /\ new.knownAt = row.knownAt
             /\ SameTouch(row, new) /\ SameFalseBreak(row, new)
BY DEF Rows, Reached, SameTouch, SameFalseBreak

LEMMA RevealedRow ==
  ASSUME NEW row \in Rows, NEW k \in Nat, NEW run \in 1..k, NEW low \in Int, NEW high \in Int
  PROVE  LET new == Revealed(row, k, run, low, high)
         IN  /\ new \in Rows /\ new.final /\ new.knownAt = k /\ new.broken
             /\ new.fbStart = k - run + 1 /\ new.fbEnd = k
             /\ new.fbLow = low /\ new.fbHigh = high
             /\ new.outcome = row.outcome /\ new.fbFinal = row.fbFinal
             /\ new.fbKnownAt = row.fbKnownAt
             /\ SameTouch(row, new) /\ SameZone(row, new)
<1> DEFINE x == Settled(row, k)
           y == [x EXCEPT !.broken = TRUE, !.fbStart = k - run + 1]
           z == [y EXCEPT !.fbEnd = k, !.fbLow = low, !.fbHigh = high]
<1>1. x \in Rows /\ x.final /\ x.knownAt = k
      /\ SameTouch(row, x) /\ SameZone(row, x) /\ SameFalseBreak(row, x)
  BY SettledRow
<1>2. Revealed(row, k, run, low, high) = z
  BY DEF Revealed, Settled
<1> HIDE DEF x
<1>3. k - run + 1 \in Marks
  BY DEF Marks
<1>4. /\ y \in Rows /\ y.final /\ y.knownAt = k /\ y.broken /\ y.fbStart = k - run + 1
      /\ y.outcome = x.outcome /\ y.fbFinal = x.fbFinal /\ y.fbKnownAt = x.fbKnownAt
      /\ SameTouch(x, y) /\ SameZone(x, y)
  BY <1>1, <1>3 DEF Rows, SameTouch, SameZone
<1> HIDE DEF y
<1>5. /\ z \in Rows /\ z.final /\ z.knownAt = k /\ z.broken /\ z.fbStart = k - run + 1
      /\ z.fbEnd = k /\ z.fbLow = low /\ z.fbHigh = high
      /\ z.outcome = y.outcome /\ z.fbFinal = y.fbFinal /\ z.fbKnownAt = y.fbKnownAt
      /\ SameTouch(y, z) /\ SameZone(y, z)
  BY <1>4 DEF Rows, Marks, Prices, SameTouch, SameZone
<1> HIDE DEF z
<1> QED BY <1>1, <1>2, <1>4, <1>5 DEF SameTouch, SameZone, SameFalseBreak

LEMMA ProlongedRow ==
  ASSUME NEW row \in Rows, NEW k \in Nat, NEW low \in Prices, NEW high \in Prices
  PROVE  LET new == Prolonged(row, k, low, high)
         IN  /\ new \in Rows /\ new.fbEnd = k /\ new.fbLow = low /\ new.fbHigh = high
             /\ new.final = row.final /\ new.knownAt = row.knownAt
             /\ new.broken = row.broken /\ new.fbStart = row.fbStart
             /\ new.outcome = row.outcome /\ new.fbFinal = row.fbFinal
             /\ new.fbKnownAt = row.fbKnownAt
             /\ SameTouch(row, new) /\ SameZone(row, new)
BY DEF Rows, Marks, Prices, Prolonged, SameTouch, SameZone

LEMMA ResolvedRow ==
  ASSUME NEW row \in Rows, NEW k \in Nat, NEW outcome \in Outcomes
  PROVE  LET new == Resolved(row, k, outcome)
         IN  /\ new \in Rows /\ new.outcome = outcome /\ new.fbFinal /\ new.fbKnownAt = k
             /\ new.final = row.final /\ new.knownAt = row.knownAt
             /\ new.broken = row.broken /\ new.fbStart = row.fbStart /\ new.fbEnd = row.fbEnd
             /\ new.fbLow = row.fbLow /\ new.fbHigh = row.fbHigh
             /\ SameTouch(row, new) /\ SameZone(row, new)
BY DEF Rows, Marks, Resolved, SameTouch, SameZone

--------------------------------------------------------------------------------
(* Extremes over stretches of a history h, and what one more bar makes of them. *)

\* History g is h and then bar b.
Longer(h, g, b) ==
  /\ h \in Seq(Candles) /\ g \in Seq(Candles) /\ b \in Candles
  /\ Len(h) \in Nat /\ Len(g) = Len(h) + 1
  /\ \A k \in 1..Len(h) : g[k] = h[k]
  /\ g[Len(g)] = b

Top(h, i, j, v) == (\E k \in i..j : h[k].high = v) /\ \A k \in i..j : h[k].high <= v
Bottom(h, i, j, v) == (\E k \in i..j : h[k].low = v) /\ \A k \in i..j : v <= h[k].low
NoContact(h, i, j) == \A k \in i..j : ~ Contact(h[k])
AllBelow(h, i, j) == \A k \in i..j : Below(h[k])

\* The first of the highest highs of a stretch.
EarliestTop(h, i, j, k) ==
  /\ k \in i..j
  /\ \A l \in i..j : h[l].high <= h[k].high
  /\ \A l \in i..k - 1 : h[l].high < h[k].high

\* Every stretch up to the last bar has its extremes, and its last contact.
\* Finite stretches do; here it comes out of the steps, a bar at a time.
Extremes(h) ==
  /\ \A i \in 1..Len(h) : (\E k \in i..Len(h) : EarliestTop(h, i, Len(h), k))
                          /\ (\E v \in Int : Bottom(h, i, Len(h), v))
  /\ \/ NoContact(h, 1, Len(h))
     \/ \E j \in 1..Len(h) : Contact(h[j]) /\ NoContact(h, j + 1, Len(h))

LEMMA CandleFacts ==
  ASSUME NEW c \in Candles
  PROVE  /\ c.low \in Int /\ c.high \in Int /\ c.close \in Int /\ c.anchor \in Int
         /\ c.order \in BOOLEAN /\ c.low <= c.close /\ c.close <= c.high
BY DEF Candles

LEMMA CandleAt ==
  ASSUME NEW h \in Seq(Candles), NEW k \in 1..Len(h)
  PROVE  /\ h[k] \in Candles
         /\ h[k].low \in Int /\ h[k].high \in Int /\ h[k].close \in Int /\ h[k].anchor \in Int
         /\ h[k].order \in BOOLEAN /\ h[k].low <= h[k].close /\ h[k].close <= h[k].high
<1>1. h[k] \in Candles
  OBVIOUS
<1> QED BY <1>1, CandleFacts

LEMMA HistoryLonger ==
  ASSUME BarsOK, NEW b \in Candles, Step(b)
  PROVE  Longer(hist, hist', b)
<1>1. hist \in Seq(Candles) /\ Len(hist) \in Nat
  BY HistoryOK
<1>2. hist' = Append(hist, b)
  BY HistoryGrows
<1>3. /\ Append(hist, b) \in Seq(Candles) /\ Len(Append(hist, b)) = Len(hist) + 1
      /\ \A k \in 1..Len(hist) : Append(hist, b)[k] = hist[k]
      /\ Append(hist, b)[Len(hist) + 1] = b
  BY <1>1, AppendProperties
<1> QED BY <1>1, <1>2, <1>3 DEF Longer

LEMMA TopGrows ==
  ASSUME NEW h, NEW g, NEW b, Longer(h, g, b),
         NEW i \in 1..Len(h), NEW v \in Int, Top(h, i, Len(h), v)
  PROVE  Top(g, i, Len(g), Greatest(v, b.high)) /\ Greatest(v, b.high) \in Int
<1>1. b.high \in Int /\ g[Len(g)] = b /\ Len(g) = Len(h) + 1 /\ Len(h) \in Nat
  BY CandleFacts DEF Longer
<1>2. \A k \in i..Len(h) : g[k].high = h[k].high /\ h[k].high \in Int
  BY CandleAt DEF Longer
<1>3. PICK k \in i..Len(h) : h[k].high = v
  BY DEF Top
<1>4. \A l \in i..Len(g) : l \in i..Len(h) \/ l = Len(g)
  BY <1>1
<1>5. \A l \in i..Len(g) : g[l].high <= Greatest(v, b.high)
  BY <1>1, <1>2, <1>4 DEF Top, Greatest
<1>6. \E l \in i..Len(g) : g[l].high = Greatest(v, b.high)
  <2>1. CASE v < b.high
    BY <2>1, <1>1 DEF Greatest
  <2>2. CASE ~ (v < b.high)
    BY <2>2, <1>1, <1>2, <1>3 DEF Greatest
  <2> QED BY <2>1, <2>2
<1> QED BY <1>1, <1>5, <1>6 DEF Top, Greatest

LEMMA BottomGrows ==
  ASSUME NEW h, NEW g, NEW b, Longer(h, g, b),
         NEW i \in 1..Len(h), NEW v \in Int, Bottom(h, i, Len(h), v)
  PROVE  Bottom(g, i, Len(g), Least(v, b.low)) /\ Least(v, b.low) \in Int
<1>1. b.low \in Int /\ g[Len(g)] = b /\ Len(g) = Len(h) + 1 /\ Len(h) \in Nat
  BY CandleFacts DEF Longer
<1>2. \A k \in i..Len(h) : g[k].low = h[k].low /\ h[k].low \in Int
  BY CandleAt DEF Longer
<1>3. PICK k \in i..Len(h) : h[k].low = v
  BY DEF Bottom
<1>4. \A l \in i..Len(g) : l \in i..Len(h) \/ l = Len(g)
  BY <1>1
<1>5. \A l \in i..Len(g) : Least(v, b.low) <= g[l].low
  BY <1>1, <1>2, <1>4 DEF Bottom, Least
<1>6. \E l \in i..Len(g) : g[l].low = Least(v, b.low)
  <2>1. CASE v < b.low
    BY <2>1, <1>1, <1>2, <1>3 DEF Least
  <2>2. CASE ~ (v < b.low)
    BY <2>2, <1>1 DEF Least
  <2> QED BY <2>1, <2>2
<1> QED BY <1>1, <1>5, <1>6 DEF Bottom, Least

\* A stretch of one bar.
LEMMA LastAlone ==
  ASSUME NEW h, NEW g, NEW b, Longer(h, g, b)
  PROVE  /\ Top(g, Len(g), Len(g), b.high) /\ Bottom(g, Len(g), Len(g), b.low)
         /\ EarliestTop(g, Len(g), Len(g), Len(g))
<1>1. g[Len(g)] = b /\ Len(g) \in Nat /\ b.high \in Int /\ b.low \in Int
  BY CandleFacts DEF Longer
<1>2. \A l \in Len(g)..Len(g) : l = Len(g)
  BY <1>1
<1>3. Len(g) \in Len(g)..Len(g)
  BY <1>1
<1>4. \A l \in Len(g)..Len(g) - 1 : FALSE
  BY <1>1
<1> QED BY <1>1, <1>2, <1>3, <1>4 DEF Top, Bottom, EarliestTop

\* What holds of a stretch of h holds of it in g.
LEMMA StretchKept ==
  ASSUME NEW h, NEW g, NEW b, Longer(h, g, b), NEW i \in 1..Len(h) + 1, NEW j \in 0..Len(h)
  PROVE  /\ \A v : Top(h, i, j, v) <=> Top(g, i, j, v)
         /\ \A v : Bottom(h, i, j, v) <=> Bottom(g, i, j, v)
         /\ \A k : EarliestTop(h, i, j, k) <=> EarliestTop(g, i, j, k)
         /\ NoContact(h, i, j) <=> NoContact(g, i, j)
         /\ AllBelow(h, i, j) <=> AllBelow(g, i, j)
<1>1. \A k \in i..j : g[k] = h[k]
  BY DEF Longer
<1>2. \A k \in i..j : \A l \in i..k - 1 : g[l] = h[l]
  BY DEF Longer
<1>3. \A k : EarliestTop(h, i, j, k) <=> EarliestTop(g, i, j, k)
  BY <1>1, <1>2 DEF EarliestTop
<1> QED BY <1>1, <1>3, Zenon DEF Top, Bottom, NoContact, AllBelow

\* A bar no higher than the peak leaves it, a higher one takes its place.
LEMMA EarliestTopGrows ==
  ASSUME NEW h, NEW g, NEW b, Longer(h, g, b),
         NEW i \in 1..Len(h), NEW k, EarliestTop(h, i, Len(h), k)
  PROVE  EarliestTop(g, i, Len(g), IF b.high > h[k].high THEN Len(g) ELSE k)
<1>1. b.high \in Int /\ g[Len(g)] = b /\ Len(g) = Len(h) + 1 /\ Len(h) \in Nat
  BY CandleFacts DEF Longer
<1>2. \A l \in i..Len(h) : g[l].high = h[l].high /\ h[l].high \in Int
  BY CandleAt DEF Longer
<1>3. \A l \in i..Len(g) : l \in i..Len(h) \/ l = Len(g)
  BY <1>1
<1>4. k \in i..Len(h)
  BY DEF EarliestTop
<1>5. CASE b.high > h[k].high
  <2>1. \A l \in i..Len(g) - 1 : g[l].high < g[Len(g)].high
    BY <1>1, <1>2, <1>4, <1>5 DEF EarliestTop
  <2>2. \A l \in i..Len(g) : g[l].high <= g[Len(g)].high
    BY <1>1, <1>2, <1>3, <2>1
  <2> QED BY <1>1, <1>5, <2>1, <2>2 DEF EarliestTop
<1>6. CASE ~ (b.high > h[k].high)
  <2>1. \A l \in i..k - 1 : g[l].high < g[k].high
    BY <1>1, <1>2, <1>4 DEF EarliestTop
  <2>2. \A l \in i..Len(g) : g[l].high <= g[k].high
    BY <1>1, <1>2, <1>3, <1>4, <1>6 DEF EarliestTop
  <2> QED BY <1>1, <1>4, <1>6, <2>1, <2>2 DEF EarliestTop
<1> QED BY <1>5, <1>6

LEMMA ExtremesGrow ==
  ASSUME NEW h, NEW g, NEW b, Longer(h, g, b), Extremes(h)
  PROVE  Extremes(g)
<1>1. Len(g) = Len(h) + 1 /\ Len(h) \in Nat /\ g[Len(g)] = b /\ b \in Candles
  BY DEF Longer
<1>2. ASSUME NEW i \in 1..Len(g)
      PROVE  /\ \E k \in i..Len(g) : EarliestTop(g, i, Len(g), k)
             /\ \E v \in Int : Bottom(g, i, Len(g), v)
  <2>1. CASE i = Len(g)
    <3>1. b.low \in Int /\ Len(g) \in Len(g)..Len(g)
      BY <1>1, CandleFacts
    <3> QED BY <2>1, <3>1, LastAlone
  <2>2. CASE i \in 1..Len(h)
    <3>1. PICK k \in i..Len(h) : EarliestTop(h, i, Len(h), k)
      BY <2>2 DEF Extremes
    <3>2. PICK v \in Int : Bottom(h, i, Len(h), v)
      BY <2>2 DEF Extremes
    <3>3. EarliestTop(g, i, Len(g), IF b.high > h[k].high THEN Len(g) ELSE k)
      BY <2>2, <3>1, EarliestTopGrows
    <3>4. (IF b.high > h[k].high THEN Len(g) ELSE k) \in i..Len(g)
      BY <1>1
    <3>5. Bottom(g, i, Len(g), Least(v, b.low)) /\ Least(v, b.low) \in Int
      BY <2>2, <3>2, BottomGrows
    <3> QED BY <3>3, <3>4, <3>5
  <2> QED BY <1>1, <2>1, <2>2
<1>3. \/ NoContact(g, 1, Len(g))
      \/ \E j \in 1..Len(g) : Contact(g[j]) /\ NoContact(g, j + 1, Len(g))
  <2>1. CASE Contact(b)
    <3>1. NoContact(g, Len(g) + 1, Len(g))
      BY <1>1 DEF NoContact
    <3> QED BY <1>1, <2>1, <3>1
  <2>2. CASE ~ Contact(b) /\ NoContact(h, 1, Len(h))
    BY <1>1, <2>2 DEF NoContact, Longer
  <2>3. CASE ~ Contact(b) /\ \E j \in 1..Len(h) : Contact(h[j]) /\ NoContact(h, j + 1, Len(h))
    <3>1. PICK j \in 1..Len(h) : Contact(h[j]) /\ NoContact(h, j + 1, Len(h))
      BY <2>3
    <3>2. Contact(g[j]) /\ NoContact(g, j + 1, Len(g))
      BY <1>1, <2>3, <3>1 DEF NoContact, Longer
    <3> QED BY <1>1, <3>2
  <2> QED BY <2>1, <2>2, <2>3 DEF Extremes
<1> QED BY <1>2, <1>3 DEF Extremes

LEMMA MinIs ==
  ASSUME NEW S, \A x \in S : x \in Int, NEW m \in S, \A x \in S : m <= x
  PROVE  Min(S) = m
<1>1. Min(S) \in S /\ \A x \in S : Min(S) <= x
  BY DEF Min
<1>2. Min(S) <= m /\ m <= Min(S) /\ m \in Int /\ Min(S) \in Int
  BY <1>1
<1> QED BY <1>2

LEMMA MaxIs ==
  ASSUME NEW S, \A x \in S : x \in Int, NEW m \in S, \A x \in S : x <= m
  PROVE  Max(S) = m
<1>1. Max(S) \in S /\ \A x \in S : Max(S) >= x
  BY DEF Max
<1>2. Max(S) <= m /\ m <= Max(S) /\ m \in Int /\ Max(S) \in Int
  BY <1>1
<1> QED BY <1>2

\* A bottom is the least of the lows.
LEMMA BottomIsMin ==
  ASSUME NEW h, NEW i \in Int, NEW j \in Int, NEW v,
         \A k \in i..j : h[k].low \in Int, Bottom(h, i, j, v)
  PROVE  Min({h[k].low : k \in i..j}) = v
<1>1. v \in {h[k].low : k \in i..j}
  BY DEF Bottom
<1>2. \A x \in {h[k].low : k \in i..j} : x \in Int /\ v <= x
  BY DEF Bottom
<1> QED BY <1>1, <1>2, MinIs

\* The earliest top is the first bar with none higher.
LEMMA EarliestTopIsMin ==
  ASSUME NEW h, NEW i \in Int, NEW j \in Int, NEW k,
         \A l \in i..j : h[l].high \in Int, EarliestTop(h, i, j, k)
  PROVE  Min({m \in i..j : \A l \in i..j : h[l].high <= h[m].high}) = k
<1> DEFINE S == {m \in i..j : \A l \in i..j : h[l].high <= h[m].high}
<1>1. k \in S
  BY DEF EarliestTop
<1>2. ASSUME NEW m \in S PROVE k <= m
  <2>1. m \in i..j /\ h[k].high <= h[m].high
    BY DEF EarliestTop
  <2>2. ~ (m \in i..k - 1)
    BY <2>1 DEF EarliestTop
  <2> QED BY <2>1, <2>2 DEF EarliestTop
<1>3. \A m \in S : m \in Int
  OBVIOUS
<1> QED BY <1>1, <1>2, <1>3, MinIs

--------------------------------------------------------------------------------
(* The forming wave: from its origin, up to its peak and down since. *)

WaveFrom(h, f) ==
  /\ f \in Formings /\ f.origin \in 1..Len(h) /\ f.low = h[f.origin].low
  /\ EarliestTop(h, f.origin, Len(h), f.peak) /\ f.high = h[f.peak].high
  /\ Bottom(h, f.peak, Len(h), f.down)

LEMMA NewWave ==
  ASSUME NEW h, NEW g, NEW b, Longer(h, g, b), Len(h) = Len(bars)
  PROVE  WaveFrom(g, NewForming(b)) /\ NewForming(b).origin = Len(g)
<1> DEFINE f == NewForming(b)
<1>1. b.low \in Int /\ b.high \in Int /\ Now \in Nat /\ Now = Len(g) /\ Now >= 1 /\ g[Now] = b
  BY CandleFacts DEF Longer, Now
<1>2. /\ f \in Formings /\ f.origin = Now /\ f.peak = Now
      /\ f.low = b.low /\ f.high = b.high /\ f.down = b.low
  BY <1>1 DEF NewForming, Formings
<1> HIDE DEF f
<1>3. f.origin \in 1..Len(g)
  BY <1>1, <1>2
<1> QED BY <1>1, <1>2, <1>3, LastAlone DEF WaveFrom, f

LEMMA UpdatedWave ==
  ASSUME NEW h, NEW g, NEW b, Longer(h, g, b), Len(h) = Len(bars), WaveFrom(h, forming)
  PROVE  /\ WaveFrom(g, UpdatedForming(b))
         /\ UpdatedForming(b).origin = IF b.low < forming.low THEN Len(g) ELSE forming.origin
<1>1. b.low \in Int /\ b.high \in Int /\ Now \in Nat /\ Now = Len(g) /\ Now >= 1 /\ g[Now] = b
  BY CandleFacts DEF Longer, Now
<1>2. CASE b.low < forming.low
  BY <1>2, NewWave DEF UpdatedForming
<1>3. CASE ~ (b.low < forming.low)
  <2> DEFINE f == UpdatedForming(b)
  <2>1. /\ forming \in Formings /\ forming.origin \in 1..Len(h)
        /\ forming.low = h[forming.origin].low /\ forming.high = h[forming.peak].high
        /\ EarliestTop(h, forming.origin, Len(h), forming.peak)
        /\ Bottom(h, forming.peak, Len(h), forming.down)
    BY DEF WaveFrom
  <2>2. /\ forming.origin \in Nat /\ forming.peak \in Nat /\ forming.low \in Int
        /\ forming.high \in Int /\ forming.down \in Int
        /\ forming.peak \in 1..Len(h)
    BY <2>1 DEF Formings, EarliestTop
  <2>3. EarliestTop(g, forming.origin, Len(g), IF b.high > forming.high THEN Len(g) ELSE forming.peak)
    BY <2>1, EarliestTopGrows
  <2>4. g[forming.origin] = h[forming.origin] /\ g[forming.peak] = h[forming.peak]
    BY <2>1, <2>2 DEF Longer
  <2>5. CASE b.high > forming.high
    <3>1. f = [forming EXCEPT !.peak = Now, !.high = b.high, !.down = b.low]
      BY <1>3, <2>5 DEF UpdatedForming
    <3>2. /\ f \in Formings /\ f.origin = forming.origin /\ f.low = forming.low
          /\ f.peak = Now /\ f.high = b.high /\ f.down = b.low
      BY <1>1, <2>1, <3>1 DEF Formings
    <3> HIDE DEF f
    <3>3. f.origin \in 1..Len(g)
      BY <1>1, <2>1, <3>2 DEF Longer
    <3>4. Bottom(g, Len(g), Len(g), b.low)
      BY LastAlone
    <3>5. EarliestTop(g, f.origin, Len(g), f.peak)
      BY <1>1, <2>3, <2>5, <3>2
    <3>6. WaveFrom(g, f)
      BY <1>1, <2>1, <2>4, <3>2, <3>3, <3>4, <3>5 DEF WaveFrom
    <3> QED BY <1>3, <3>2, <3>6 DEF f
  <2>6. CASE ~ (b.high > forming.high)
    <3>1. f = [forming EXCEPT !.down = Least(@, b.low)]
      BY <1>3, <2>6 DEF UpdatedForming
    <3>2. Bottom(g, forming.peak, Len(g), Least(forming.down, b.low))
          /\ Least(forming.down, b.low) \in Int
      BY <2>1, <2>2, BottomGrows
    <3>3. /\ f \in Formings /\ f.origin = forming.origin /\ f.low = forming.low
          /\ f.peak = forming.peak /\ f.high = forming.high
          /\ f.down = Least(forming.down, b.low)
      BY <2>1, <3>1, <3>2 DEF Formings
    <3> HIDE DEF f
    <3>4. f.origin \in 1..Len(g)
      BY <1>1, <2>1, <3>3 DEF Longer
    <3>5. EarliestTop(g, f.origin, Len(g), f.peak)
      BY <2>3, <2>6, <3>3
    <3>6. WaveFrom(g, f)
      BY <2>1, <2>4, <3>2, <3>3, <3>4, <3>5 DEF WaveFrom
    <3> QED BY <1>3, <3>3, <3>6 DEF f
  <2> QED BY <2>5, <2>6
<1> QED BY <1>2, <1>3

\* The contacts left of a bar: none, or there is a nearest one.
Contacts(h, j) == {k \in 1..j : Contact(h[k])}

LEMMA NearestContact ==
  ASSUME NEW h, Len(h) \in Nat, Extremes(h), Contacts(h, Len(h)) # {}
  PROVE  LET j == Max(Contacts(h, Len(h)))
         IN  j \in 1..Len(h) /\ Contact(h[j]) /\ NoContact(h, j + 1, Len(h))
<1>1. ~ NoContact(h, 1, Len(h))
  BY DEF Contacts, NoContact
<1>2. PICK j \in 1..Len(h) : Contact(h[j]) /\ NoContact(h, j + 1, Len(h))
  BY <1>1 DEF Extremes
<1>3. j \in Contacts(h, Len(h)) /\ \A k \in Contacts(h, Len(h)) : k \in Int
  BY <1>2 DEF Contacts
<1>4. ASSUME NEW k \in Contacts(h, Len(h)) PROVE k <= j
  <2>1. k \in 1..Len(h) /\ Contact(h[k])
    BY DEF Contacts
  <2>2. ~ (k \in j + 1..Len(h))
    BY <1>2, <2>1 DEF NoContact
  <2> QED BY <2>1, <2>2
<1>5. Max(Contacts(h, Len(h))) = j
  BY <1>3, <1>4, MaxIs
<1> QED BY <1>2, <1>5

\* The wave an episode starts with runs from the nearest contact left of it, or
\* from its first bar.
LEMMA SeededWave ==
  ASSUME BarsOK, NEW g, NEW b, Longer(hist, g, b), Extremes(hist), Extremes(g)
  PROVE  LET f == SeededForming(b)
             left == Max(Contacts(hist, Len(hist)))
         IN  /\ WaveFrom(g, f)
             /\ f.origin = IF Contacts(hist, Len(hist)) = {} \/ hist[left].low >= b.low
                           THEN Len(g) ELSE left
<1> DEFINE contacts == Contacts(hist, Len(hist))
           j == Max(contacts)
           path == [k \in j..Now |-> IF k = Now THEN b ELSE Bar(k)]
           peak == Min({k \in j..Now : \A l \in j..Now : path[l].high <= path[k].high})
           f == SeededForming(b)
<1>1. /\ hist \in Seq(Candles) /\ Len(hist) = Len(bars) /\ Len(bars) \in Nat
      /\ \A k \in 1..Len(bars) : hist[k] = Bar(k)
  BY HistoryOK
<1>2. {k \in 1..Len(bars) : Contact(Bar(k))} = contacts
  BY <1>1 DEF Contacts
<1>3. f = IF contacts = {} \/ Bar(j).low >= b.low THEN NewForming(b)
          ELSE [origin |-> j, low |-> path[j].low, peak |-> peak, high |-> path[peak].high,
                down |-> Min({path[k].low : k \in peak..Now})]
  BY <1>2 DEF SeededForming
<1>4. CASE contacts = {}
  BY <1>1, <1>3, <1>4, NewWave
<1>5. CASE contacts # {}
  <2>1. j \in 1..Len(hist) /\ Contact(hist[j])
    BY <1>1, <1>5, NearestContact
  <2>2. Bar(j) = hist[j]
    BY <1>1, <2>1
  <2>3. CASE hist[j].low >= b.low
    BY <1>1, <1>3, <2>2, <2>3, <1>5, NewWave
  <2>4. CASE ~ (hist[j].low >= b.low)
    <3>1. Now = Len(g) /\ Len(g) = Len(hist) + 1 /\ g[Now] = b /\ g \in Seq(Candles) /\ Now \in Nat
      BY <1>1 DEF Longer, Now
    <3>2. \A k \in j..Now : path[k] = g[k] /\ g[k].high \in Int /\ g[k].low \in Int
      <4> SUFFICES ASSUME NEW k \in j..Now
                   PROVE  path[k] = g[k] /\ g[k].high \in Int /\ g[k].low \in Int
        OBVIOUS
      <4>1. k \in 1..Len(g)
        BY <2>1, <3>1
      <4>2. g[k].high \in Int /\ g[k].low \in Int
        BY <3>1, <4>1, CandleAt
      <4>3. CASE k = Now
        BY <3>1, <4>2, <4>3
      <4>4. CASE k # Now
        <5>1. k \in 1..Len(bars)
          BY <1>1, <3>1, <4>1, <4>4
        <5>2. g[k] = hist[k] /\ hist[k] = Bar(k)
          BY <1>1, <5>1 DEF Longer
        <5> QED BY <4>2, <4>4, <5>2
      <4> QED BY <4>3, <4>4
    <3> HIDE DEF j
    <3>0. j \in 1..Len(g) /\ j \in Nat
      BY <2>1, <3>1
    <3>3. PICK p \in j..Len(g) : EarliestTop(g, j, Len(g), p)
      BY <3>0 DEF Extremes
    <3>p. p \in 1..Len(g) /\ p \in Nat /\ p..Now \subseteq j..Now
      BY <3>0, <3>1, <3>3
    <3>4. {k \in j..Now : \A l \in j..Now : path[l].high <= path[k].high}
            = {k \in j..Now : \A l \in j..Now : g[l].high <= g[k].high}
      BY <3>2
    <3>5. peak = p
      <4>1. \A l \in j..Now : g[l].high \in Int
        BY <3>2
      <4>2. Min({k \in j..Now : \A l \in j..Now : g[l].high <= g[k].high}) = p
        BY <3>0, <3>1, <3>3, <4>1, EarliestTopIsMin
      <4> QED BY <3>4, <4>2, Zenon
    <3>6. PICK v \in Int : Bottom(g, p, Len(g), v)
      BY <3>p DEF Extremes
    <3>7. Min({g[k].low : k \in p..Now}) = v
      <4>1. \A k \in p..Now : g[k].low \in Int
        BY <3>2, <3>p
      <4> QED BY <3>1, <3>p, <3>6, <4>1, BottomIsMin
    <3>8. {path[k].low : k \in p..Now} = {g[k].low : k \in p..Now}
      <4>1. \A k \in p..Now : path[k].low = g[k].low
        BY <3>2, <3>p
      <4> HIDE DEF path
      <4> QED BY <4>1
    <3>9. f = [origin |-> j, low |-> g[j].low, peak |-> p, high |-> g[p].high, down |-> v]
      <4>1. path[j] = g[j] /\ path[p] = g[p]
        BY <2>1, <3>1, <3>2, <3>3
      <4> HIDE DEF path, peak, j, contacts
      <4> QED BY <1>3, <1>5, <2>2, <2>4, <3>5, <3>7, <3>8, <4>1
    <3> HIDE DEF f, path, peak, j
    <3>10. j \in Nat /\ p \in Nat /\ g[j].low \in Int /\ g[p].high \in Int
      BY <2>1, <3>1, <3>2, <3>3
    <3>11. /\ f \in Formings /\ f.origin = j /\ f.low = g[j].low /\ f.peak = p
           /\ f.high = g[p].high /\ f.down = v
      BY <3>9, <3>10 DEF Formings
    <3>12. f.origin \in 1..Len(g)
      BY <2>1, <3>1, <3>11
    <3>13. WaveFrom(g, f)
      BY <3>1, <3>3, <3>6, <3>11, <3>12 DEF WaveFrom
    <3> QED BY <1>5, <2>4, <3>11, <3>13 DEF f, j
  <2> QED BY <2>3, <2>4
<1> QED BY <1>4, <1>5

--------------------------------------------------------------------------------
(* What holds between the variables whatever the prices. *)

Phases == {"away", "zone", "false_break", "broken"}
Snapshots ==
  {None} \union
  [episode : Nat, number : Nat, phase : Phases, zone : Rows \union {None}, forming : Formings]

Types ==
  /\ BarsOK /\ Len(bars) <= MaxBars
  /\ active \in BOOLEAN /\ censored \in BOOLEAN
  /\ violation \in Nat /\ violation <= BreakBars + 1
  /\ touchNumber \in Nat /\ falseBreaks \in Nat /\ falseBreaks <= touchNumber
  /\ phase \in Phases
  /\ span \in Spans /\ span.contact <= Len(bars)
  /\ span.run <= Window + 1 /\ span.run <= Len(bars)
  /\ forming \in Formings /\ forming.origin <= forming.peak /\ forming.peak <= Len(bars)
  /\ touches \in Seq(Rows) /\ episodes \in Seq(Episodes)
  /\ seen \in Seq(Snapshots) /\ Len(seen) = Len(bars)

\* The phase says what is in progress; before the first episode it is "away".
Control ==
  /\ active => episodes # <<>> /\ phase # "broken" /\ violation <= BreakBars
  /\ ~ active => phase \in {"away", "broken"} /\ (phase = "away" => episodes = <<>>)
  /\ episodes = <<>> => touchNumber = 0
  /\ \A e \in 1..Len(episodes) : episodes[e].end = None <=> active /\ e = Len(episodes)
  /\ phase \in {"zone", "false_break"} => touchNumber > 0
  /\ phase = "zone" => falseBreaks < touchNumber /\ span.run <= Window

\* The rows of an episode stand together and count from 1, and the touches so
\* far of the last one are the end of the table.
Table ==
  /\ touchNumber > 0 => /\ Len(touches) > 0
                        /\ touches[Len(touches)].episode = Len(episodes)
                        /\ touches[Len(touches)].number = touchNumber
  /\ touchNumber = 0 => \A r \in 1..Len(touches) : touches[r].episode < Len(episodes)
  /\ \A r \in 1..Len(touches) :
        /\ touches[r].episode \in 1..Len(episodes) /\ touches[r].number \in 1..r
        /\ \A s \in 1..r :
             /\ touches[s].episode <= touches[r].episode
             /\ touches[s].episode = touches[r].episode <=> s > r - touches[r].number
             /\ s > r - touches[r].number => touches[s].number = touches[r].number - (r - s)

Core ==
  /\ Types /\ Control /\ Table
  /\ Extremes(hist) /\ (active => WaveFrom(hist, forming))

\* The step rewrites no row but the last, and leaves whose touch that is.
RowsKept ==
  /\ touches' \in Seq(Rows) /\ Len(touches') = Len(touches)
  /\ \A r \in 1..Len(touches) : /\ SameTouch(touches[r], touches'[r])
                                /\ r < Len(touches) => touches'[r] = touches[r]

LEMMA SameTouchSame == ASSUME NEW row PROVE SameTouch(row, row)
BY DEF SameTouch

LEMMA UnchangedKeeps ==
  ASSUME touches \in Seq(Rows), UNCHANGED touches
  PROVE  RowsKept
BY SameTouchSame DEF RowsKept

LEMMA RewriteKeeps ==
  ASSUME touches \in Seq(Rows), Len(touches) > 0,
         NEW new \in Rows, SameTouch(OpenRow, new), Rewrite(new)
  PROVE  RowsKept /\ OpenRow' = new
<1>1. Len(touches) \in Nat
  BY LenProperties
<1>2. touches' = [touches EXCEPT ![Len(touches)] = new]
  BY DEF Rewrite
<1>3. /\ touches' \in Seq(Rows) /\ Len(touches') = Len(touches)
      /\ touches'[Len(touches)] = new
      /\ \A r \in 1..Len(touches) : r < Len(touches) => touches'[r] = touches[r]
  <2>1. Len(touches) \in 1..Len(touches)
    BY <1>1
  <2> DEFINE put == [touches EXCEPT ![Len(touches)] = new]
  <2>2. /\ put \in Seq(Rows) /\ Len(put) = Len(touches)
        /\ \A r \in 1..Len(touches) : put[r] = IF r = Len(touches) THEN new ELSE touches[r]
    BY <2>1, ExceptSeq
  <2> HIDE DEF put
  <2>3. \A r \in 1..Len(touches) : r < Len(touches) => r # Len(touches)
    BY <1>1
  <2>4. touches' = put
    BY <1>2 DEF put
  <2> QED BY <2>1, <2>2, <2>3, <2>4
<1>4. ASSUME NEW r \in 1..Len(touches) PROVE SameTouch(touches[r], touches'[r])
  <2>1. CASE r = Len(touches)
    <3>1. touches'[r] = new
      BY <1>3, <2>1
    <3>2. touches[r] = OpenRow
      BY <2>1 DEF OpenRow
    <3> QED BY <3>1, <3>2, Zenon
  <2>2. CASE r < Len(touches)
    BY <1>3, <2>2, SameTouchSame
  <2> QED BY <1>1, <2>1, <2>2
<1> QED BY <1>3, <1>4 DEF RowsKept, OpenRow

LEMMA NewRowAdded ==
  ASSUME Types, NEW b \in Candles
  PROVE  /\ NewRow(b) \in Rows
         /\ NewRow(b).episode = Len(episodes) /\ NewRow(b).number = touchNumber + 1
         /\ LET more == Append(touches, NewRow(b))
            IN  /\ more \in Seq(Rows) /\ Len(more) = Len(touches) + 1
                /\ \A r \in 1..Len(touches) : more[r] = touches[r]
                /\ more[Len(touches) + 1] = NewRow(b)
<1>1. Len(episodes) \in Nat /\ Now \in Nat /\ touchNumber + 1 \in Nat
  BY HistoryOK DEF Types, Now
<1>2. /\ b.low \in Int /\ b.high \in Int
      /\ Greatest(forming.high, b.high) \in Int /\ Least(forming.down, b.low) \in Int
  BY CandleFacts DEF Types, Formings, Greatest, Least
<1>3. /\ forming.origin \in Nat /\ forming.low \in Int
      /\ forming.peak \in Nat /\ forming.high \in Int
  BY DEF Types, Formings
<1>4. NewRow(b) \in Rows
  BY <1>1, <1>2, <1>3 DEF NewRow, Rows, Marks, Prices, Outcomes
<1>5. NewRow(b).episode = Len(episodes) /\ NewRow(b).number = touchNumber + 1
  BY DEF NewRow
<1> QED BY <1>4, <1>5, AppendProperties DEF Types

LEMMA TableKept ==
  ASSUME Types, Table, RowsKept, touchNumber' = touchNumber, Len(episodes') = Len(episodes)
  PROVE  Table'
<1>1. \A r \in 1..Len(touches) :
         touches'[r].episode = touches[r].episode /\ touches'[r].number = touches[r].number
  BY DEF RowsKept, SameTouch
<1>2. Len(touches') = Len(touches) /\ Len(touches) \in Nat
  BY DEF RowsKept, Types
<1>3. touchNumber' > 0 => /\ Len(touches') > 0
                          /\ touches'[Len(touches')].episode = Len(episodes')
                          /\ touches'[Len(touches')].number = touchNumber'
  BY <1>1, <1>2 DEF Table
<1>4. touchNumber' = 0 => \A r \in 1..Len(touches') : touches'[r].episode < Len(episodes')
  BY <1>1, <1>2 DEF Table
<1>5. ASSUME NEW r \in 1..Len(touches')
      PROVE  /\ touches'[r].episode \in 1..Len(episodes') /\ touches'[r].number \in 1..r
             /\ \A s \in 1..r :
                  /\ touches'[s].episode <= touches'[r].episode
                  /\ touches'[s].episode = touches'[r].episode <=> s > r - touches'[r].number
                  /\ s > r - touches'[r].number =>
                        touches'[s].number = touches'[r].number - (r - s)
  <2>1. r \in 1..Len(touches) /\ \A s \in 1..r : s \in 1..Len(touches)
    BY <1>2
  <2>2. /\ touches[r].episode \in 1..Len(episodes') /\ touches[r].number \in 1..r
        /\ \A s \in 1..r :
             /\ touches[s].episode <= touches[r].episode
             /\ touches[s].episode = touches[r].episode <=> s > r - touches[r].number
             /\ s > r - touches[r].number =>
                   touches[s].number = touches[r].number - (r - s)
    BY <2>1 DEF Table
  <2>3. /\ touches'[r].episode = touches[r].episode /\ touches'[r].number = touches[r].number
        /\ \A s \in 1..r : /\ touches'[s].episode = touches[s].episode
                           /\ touches'[s].number = touches[s].number
    BY <1>1, <2>1
  <2> QED BY ONLY <2>2, <2>3
<1> QED BY <1>3, <1>4, <1>5 DEF Table

LEMMA TableNewEpisode ==
  ASSUME Types, Table, RowsKept, touchNumber' = 0, Len(episodes') = Len(episodes) + 1
  PROVE  Table'
<1>1. \A r \in 1..Len(touches) :
         touches'[r].episode = touches[r].episode /\ touches'[r].number = touches[r].number
  BY DEF RowsKept, SameTouch
<1>2. Len(touches') = Len(touches) /\ Len(touches) \in Nat /\ Len(episodes) \in Nat
  BY DEF RowsKept, Types
<1>3. \A r \in 1..Len(touches') : touches'[r].episode < Len(episodes')
  BY <1>1, <1>2 DEF Table
<1>4. ASSUME NEW r \in 1..Len(touches')
      PROVE  /\ touches'[r].episode \in 1..Len(episodes') /\ touches'[r].number \in 1..r
             /\ \A s \in 1..r :
                  /\ touches'[s].episode <= touches'[r].episode
                  /\ touches'[s].episode = touches'[r].episode <=> s > r - touches'[r].number
                  /\ s > r - touches'[r].number =>
                        touches'[s].number = touches'[r].number - (r - s)
  <2>1. r \in 1..Len(touches) /\ \A s \in 1..r : s \in 1..Len(touches)
    BY <1>2
  <2>2. /\ touches[r].episode \in 1..Len(episodes) /\ touches[r].number \in 1..r
        /\ \A s \in 1..r :
             /\ touches[s].episode <= touches[r].episode
             /\ touches[s].episode = touches[r].episode <=> s > r - touches[r].number
             /\ s > r - touches[r].number => touches[s].number = touches[r].number - (r - s)
    BY <2>1 DEF Table
  <2> QED BY <1>1, <1>2, <2>1, <2>2
<1> QED BY <1>3, <1>4 DEF Table

LEMMA TableNewRow ==
  ASSUME Types, Table, NEW b \in Candles, touches' = Append(touches, NewRow(b)),
         touchNumber' = touchNumber + 1, episodes' = episodes, Len(episodes) > 0
  PROVE  Table'
<1> DEFINE n == Len(touches)
<1>1. /\ touches' \in Seq(Rows) /\ Len(touches') = n + 1 /\ n \in Nat
      /\ \A r \in 1..n : touches'[r] = touches[r]
      /\ touches'[n + 1].episode = Len(episodes) /\ touches'[n + 1].number = touchNumber + 1
  BY NewRowAdded DEF Types
<1>2. Len(episodes) \in Nat /\ touchNumber \in Nat
  BY DEF Types
<1>3. \A s \in 1..n : touches[s].episode \in 1..Len(episodes) /\ touches[s].number \in 1..s
  BY DEF Table
<1>4. touchNumber <= n
  BY <1>1, <1>2, <1>3 DEF Table
<1>5. ASSUME NEW s \in 1..n
      PROVE  /\ touches[s].episode = Len(episodes) <=> s > n - touchNumber
             /\ s > n - touchNumber => touches[s].number = touchNumber + 1 - (n + 1 - s)
  <2>1. CASE touchNumber = 0
    BY <1>1, <1>2, <1>3, <2>1 DEF Table
  <2>2. CASE touchNumber > 0
    <3>1. n > 0 /\ touches[n].episode = Len(episodes) /\ touches[n].number = touchNumber
      BY <2>2 DEF Table
    <3>2. n \in 1..n
      BY <1>1, <3>1
    <3>3. /\ touches[s].episode = touches[n].episode <=> s > n - touches[n].number
          /\ s > n - touches[n].number => touches[s].number = touches[n].number - (n - s)
      BY <3>2 DEF Table
    <3> QED BY <1>1, <1>2, <3>1, <3>3
  <2> QED BY <1>2, <2>1, <2>2
<1>6. ASSUME NEW r \in 1..Len(touches')
      PROVE  /\ touches'[r].episode \in 1..Len(episodes') /\ touches'[r].number \in 1..r
             /\ \A s \in 1..r :
                  /\ touches'[s].episode <= touches'[r].episode
                  /\ touches'[s].episode = touches'[r].episode <=> s > r - touches'[r].number
                  /\ s > r - touches'[r].number =>
                        touches'[s].number = touches'[r].number - (r - s)
  <2>1. CASE r \in 1..n
    <3>1. \A s \in 1..r : touches'[s] = touches[s]
      BY <1>1, <2>1
    <3>2. touches'[r] = touches[r]
      BY <1>1, <2>1
    <3> QED BY <2>1, <3>1, <3>2 DEF Table
  <2>2. CASE r = n + 1
    <3>1. \A s \in 1..r : s = n + 1 \/ (s \in 1..n /\ touches'[s] = touches[s])
      BY <1>1, <2>2
    <3>2. touches'[r].episode \in 1..Len(episodes') /\ touches'[r].number \in 1..r
      BY <1>1, <1>2, <1>4, <2>2
    <3>3. ASSUME NEW s \in 1..r
          PROVE  /\ touches'[s].episode <= touches'[r].episode
                 /\ touches'[s].episode = touches'[r].episode <=> s > r - touches'[r].number
                 /\ s > r - touches'[r].number =>
                      touches'[s].number = touches'[r].number - (r - s)
      <4>1. CASE s = n + 1
        BY <1>1, <1>2, <2>2, <4>1
      <4>2. CASE s \in 1..n
        BY <1>1, <1>2, <1>3, <1>5, <2>2, <4>2
      <4> QED BY <3>1, <4>1, <4>2
    <3> QED BY <3>2, <3>3
  <2> QED BY <1>1, <2>1, <2>2
<1>7. touchNumber' > 0 => /\ Len(touches') > 0
                          /\ touches'[Len(touches')].episode = Len(episodes')
                          /\ touches'[Len(touches')].number = touchNumber'
  BY <1>1
<1>8. touchNumber' # 0
  BY <1>2
<1> QED BY <1>6, <1>7, <1>8 DEF Table

--------------------------------------------------------------------------------
(* One step: the history, the table and the wave. *)

LEMMA StepFacts ==
  ASSUME Core, NEW b \in Candles, Step(b)
  PROVE  /\ Longer(hist, hist', b) /\ Extremes(hist') /\ BarsOK'
         /\ Len(bars) \in Nat /\ Len(hist) = Len(bars)
         /\ Now = Len(bars) + 1 /\ Len(bars') = Now /\ Len(hist') = Now /\ Now \in Nat
         /\ Violation(b) \in Nat /\ (active => Violation(b) <= BreakBars + 1)
         /\ Project(b) /\ seen' = Append(seen, Snapshot)
<1>1. BarsOK /\ Extremes(hist) /\ violation \in Nat
  BY DEF Core, Types
<1>2. Longer(hist, hist', b)
  BY <1>1, HistoryLonger
<1>3. Extremes(hist')
  BY <1>1, <1>2, ExtremesGrow
<1>4. Len(hist) = Len(bars) /\ Len(bars) \in Nat
  BY <1>1, HistoryOK
<1>5. Len(bars') = Len(bars) + 1 /\ BarsOK'
  BY <1>1, HistoryGrows
<1>6. Len(hist') = Now /\ Now = Len(bars) + 1
  BY <1>2, <1>4 DEF Longer, Now
<1>7. Violation(b) \in Nat /\ (active => Violation(b) <= BreakBars + 1)
  <2>1. active => violation <= BreakBars
    BY DEF Core, Control
  <2> QED BY <1>1, <2>1, LengthsAreNat DEF Violation
<1> QED BY <1>2, <1>3, <1>4, <1>5, <1>6, <1>7 DEF Step

LEMMA OpenRowFacts ==
  ASSUME Types, Control, Table, phase \in {"zone", "false_break"}
  PROVE  Len(touches) > 0 /\ OpenRow \in Rows /\ Len(touches) \in 1..Len(touches)
         /\ active /\ touchNumber > 0
<1>0. touches \in Seq(Rows)
  BY DEF Types
<1>1. touchNumber > 0 /\ Len(touches) > 0
  BY DEF Control, Table
<1>a. Len(touches) \in Nat
  BY <1>0
<1>2. Len(touches) \in 1..Len(touches)
  BY <1>1, <1>a
<1>3. OpenRow \in Rows
  BY <1>0, <1>2 DEF OpenRow
<1>4. active
  BY DEF Control
<1> QED BY <1>1, <1>2, <1>3, <1>4

\* A false break with one bar more.
WithBar(row, k, b) == Prolonged(row, k, Least(row.fbLow, b.low), Greatest(row.fbHigh, b.high))

LEMMA WithBarRow ==
  ASSUME NEW row \in Rows, NEW k \in Nat, NEW b \in Candles
  PROVE  LET new == WithBar(row, k, b)
         IN  /\ new \in Rows /\ new.fbEnd = k
             /\ new.fbLow = Least(row.fbLow, b.low) /\ new.fbHigh = Greatest(row.fbHigh, b.high)
             /\ new.final = row.final /\ new.knownAt = row.knownAt
             /\ new.broken = row.broken /\ new.fbStart = row.fbStart
             /\ new.outcome = row.outcome /\ new.fbFinal = row.fbFinal
             /\ new.fbKnownAt = row.fbKnownAt
             /\ SameTouch(row, new) /\ SameZone(row, new)
<1>1. row.fbLow \in Prices /\ row.fbHigh \in Prices /\ b.low \in Prices /\ b.high \in Prices
  BY CandleFacts DEF Rows, Prices
<1>2. Least(row.fbLow, b.low) \in Prices /\ Greatest(row.fbHigh, b.high) \in Prices
  BY <1>1 DEF Least, Greatest
<1> QED BY <1>2, ProlongedRow DEF WithBar

\* The bar inside a zone that lies below the anchor.
RunOn == span.run + 1
RunLow(b) == IF RunOn = 1 THEN b.low ELSE Least(span.runLow, b.low)
RunHigh(b) == IF RunOn = 1 THEN b.high ELSE Greatest(span.runHigh, b.high)

\* The bookkeeping of the open zone, by the kind of bar.
LEMMA SpanSteps ==
  ASSUME Types, NEW b \in Candles, Len(bars) \in Nat, Now = Len(bars) + 1
  PROVE  /\ RunOn \in 1..Now /\ RunLow(b) \in Int /\ RunHigh(b) \in Int
         /\ LET low == Least(span.low, b.low)
                high == Greatest(span.high, b.high)
            IN  /\ ZoneAbove(b) =>
                     /\ span' \in Spans /\ span'.contact = span.contact
                     /\ span'.low = low /\ span'.high = high /\ span'.run = 0
                /\ ZoneBelow(b) =>
                     /\ span' \in Spans /\ span'.contact = span.contact
                     /\ span'.low = low /\ span'.high = high /\ span'.run = RunOn
                     /\ span'.runLow = RunLow(b) /\ span'.runHigh = RunHigh(b)
                /\ ZoneContact(b) =>
                     /\ span' \in Spans /\ span'.contact = Now
                     /\ span'.low = low /\ span'.high = high /\ span'.run = 0
<1> DEFINE low == Least(span.low, b.low)
           high == Greatest(span.high, b.high)
           w == Widened(b)
<1>1. b.low \in Int /\ b.high \in Int
  BY CandleFacts
<1>2. /\ span \in Spans /\ span.run \in Nat /\ span.low \in Int /\ span.high \in Int
      /\ span.runLow \in Int /\ span.runHigh \in Int /\ span.run <= Len(bars)
  BY DEF Types, Spans
<1>3. RunOn \in 1..Now /\ RunOn \in Nat
  BY <1>2 DEF RunOn
<1>4. RunLow(b) \in Int /\ RunHigh(b) \in Int
  BY <1>1, <1>2 DEF RunLow, RunHigh, Least, Greatest
<1>5. low \in Int /\ high \in Int
  BY <1>1, <1>2 DEF Least, Greatest
<1>6. /\ w \in Spans /\ w.contact = span.contact /\ w.low = low /\ w.high = high
      /\ w.run = span.run /\ w.runLow = span.runLow /\ w.runHigh = span.runHigh
  <2> HIDE DEF low, high
  <2>1. w = [span EXCEPT !.low = low, !.high = high]
    BY DEF Widened, low, high
  <2> HIDE DEF w
  <2> QED BY <1>2, <1>5, <2>1 DEF Spans
<1>7. ASSUME ZoneAbove(b)
      PROVE  /\ span' \in Spans /\ span'.contact = span.contact
             /\ span'.low = low /\ span'.high = high /\ span'.run = 0
  <2>1. span' = [w EXCEPT !.run = 0]
    BY <1>7 DEF ZoneAbove
  <2> HIDE DEF w, low, high
  <2> QED BY <1>6, <2>1 DEF Spans
<1>8. ASSUME ZoneBelow(b)
      PROVE  /\ span' \in Spans /\ span'.contact = span.contact
             /\ span'.low = low /\ span'.high = high /\ span'.run = RunOn
             /\ span'.runLow = RunLow(b) /\ span'.runHigh = RunHigh(b)
  <2>1. span' = [w EXCEPT !.run = RunOn, !.runLow = RunLow(b), !.runHigh = RunHigh(b)]
    BY <1>8 DEF ZoneBelow, RunOn, RunLow, RunHigh
  <2> HIDE DEF w, low, high
  <2> QED BY <1>3, <1>4, <1>6, <2>1 DEF Spans
<1>9. ASSUME ZoneContact(b)
      PROVE  /\ span' \in Spans /\ span'.contact = Now
             /\ span'.low = low /\ span'.high = high /\ span'.run = 0
  <2>1. span' = [w EXCEPT !.contact = Now, !.run = 0]
    BY <1>9 DEF ZoneContact
  <2>2. Now \in Nat
    OBVIOUS
  <2> HIDE DEF w, low, high
  <2> QED BY <1>6, <2>1, <2>2 DEF Spans
<1> HIDE DEF w, low, high
<1> QED BY <1>3, <1>4, <1>7, <1>8, <1>9 DEF low, high

\* The actions by the rows they leave.
LEMMA BreakStackRows ==
  ASSUME NEW b, BreakStack(b)
  PROVE  /\ phase = "zone" => Rewrite(Settled(OpenRow, Now))
         /\ phase = "false_break" =>
              Rewrite(Resolved(WithBar(OpenRow, Now, b), Now, "stack_break"))
         /\ phase \notin {"zone", "false_break"} => UNCHANGED touches
BY DEF BreakStack, CloseOpen, Settled, Resolved, WithBar, Prolonged, WithFalseBreakBar

LEMMA ZoneAboveRows ==
  ASSUME NEW b, ZoneAbove(b)
  PROVE  IF Now - span.contact > Window
         THEN Rewrite(Settled(OpenRow, Now)) /\ phase' = "away"
         ELSE touches' = touches /\ phase' = phase
BY DEF ZoneAbove, Settled

LEMMA ZoneBelowRows ==
  ASSUME NEW b, ZoneBelow(b)
  PROVE  IF RunOn > Window
         THEN /\ Rewrite(Revealed(OpenRow, Now, RunOn, RunLow(b), RunHigh(b)))
              /\ falseBreaks' = falseBreaks + 1 /\ phase' = "false_break"
         ELSE touches' = touches /\ falseBreaks' = falseBreaks /\ phase' = phase
BY DEF ZoneBelow, Revealed, RunOn, RunLow, RunHigh

LEMMA ZoneContactRows ==
  ASSUME NEW b, ZoneContact(b)
  PROVE  Rewrite(Reached(OpenRow, Now, span'.low, span'.high))
BY DEF ZoneContact, Reached

LEMMA FalseBreakBarRows ==
  ASSUME NEW b, FalseBreakBar(b)
  PROVE  IF b.close > b.anchor
         THEN Rewrite(Resolved(WithBar(OpenRow, Now, b), Now, "comeback")) /\ phase' = "away"
         ELSE Rewrite(WithBar(OpenRow, Now, b)) /\ phase' = phase
BY DEF FalseBreakBar, WithFalseBreakBar, WithBar, Prolonged, Resolved

\* Every action but OpenZone leaves the touches where they are.
LEMMA RowsStep ==
  ASSUME Core, NEW b \in Candles, Step(b)
  PROVE  RowsKept \/ OpenZone(b)
<1> USE DEF Core
<1>1. Now \in Nat /\ Project(b) /\ touches \in Seq(Rows) /\ BarsOK' /\ Now = Len(bars')
      /\ Longer(hist, hist', b)
  BY StepFacts DEF Types
<1>2. phase \in {"zone", "false_break"} => Len(touches) > 0 /\ OpenRow \in Rows
  BY OpenRowFacts
<1>3. "comeback" \in Outcomes /\ "stack_break" \in Outcomes
  BY DEF Outcomes
<1>4. CASE Idle(b) \/ StartEpisode(b) \/ StayAway(b)
  BY <1>1, <1>4, UnchangedKeeps DEF Idle, StartEpisode, StayAway
<1>5. CASE BreakStack(b)
  <2>1. CASE phase = "zone"
    <3>1. Settled(OpenRow, Now) \in Rows /\ SameTouch(OpenRow, Settled(OpenRow, Now))
      BY <1>1, <1>2, <2>1, SettledRow
    <3>2. Rewrite(Settled(OpenRow, Now))
      BY <1>5, <2>1, BreakStackRows
    <3> QED BY <1>1, <1>2, <2>1, <3>1, <3>2, RewriteKeeps
  <2>2. CASE phase = "false_break"
    <3> DEFINE mid == WithBar(OpenRow, Now, b)
               new == Resolved(mid, Now, "stack_break")
    <3>1. mid \in Rows /\ SameTouch(OpenRow, mid)
      BY <1>1, <1>2, <2>2, WithBarRow
    <3>2. new \in Rows /\ SameTouch(mid, new)
      BY <1>1, <1>3, <3>1, ResolvedRow
    <3>3. SameTouch(OpenRow, new)
      BY <3>1, <3>2 DEF SameTouch
    <3>4. Rewrite(new)
      BY <1>5, <2>2, BreakStackRows
    <3> HIDE DEF new
    <3> QED BY <1>1, <1>2, <2>2, <3>2, <3>3, <3>4, RewriteKeeps
  <2>3. CASE phase \notin {"zone", "false_break"}
    <3>1. UNCHANGED touches
      BY <1>5, <2>3, BreakStackRows
    <3> QED BY <1>1, <3>1, UnchangedKeeps
  <2> QED BY <2>1, <2>2, <2>3
<1>6. CASE ZoneAbove(b)
  <2>1. phase = "zone"
    BY <1>6 DEF ZoneAbove, InZone
  <2>2. CASE Now - span.contact > Window
    <3>1. Settled(OpenRow, Now) \in Rows /\ SameTouch(OpenRow, Settled(OpenRow, Now))
      BY <1>1, <1>2, <2>1, SettledRow
    <3>2. Rewrite(Settled(OpenRow, Now))
      BY <1>6, <2>2, ZoneAboveRows
    <3> QED BY <1>1, <1>2, <2>1, <3>1, <3>2, RewriteKeeps
  <2>3. CASE ~ (Now - span.contact > Window)
    <3>1. UNCHANGED touches
      BY <1>6, <2>3, ZoneAboveRows
    <3> QED BY <1>1, <3>1, UnchangedKeeps
  <2> QED BY <2>2, <2>3
<1>7. CASE ZoneBelow(b)
  <2>1. phase = "zone"
    BY <1>7 DEF ZoneBelow, InZone
  <2>2. CASE RunOn > Window
    <3> DEFINE new == Revealed(OpenRow, Now, RunOn, RunLow(b), RunHigh(b))
    <3>1. RunOn \in 1..Now /\ RunLow(b) \in Int /\ RunHigh(b) \in Int
      BY <1>1, StepFacts, SpanSteps
    <3>2. new \in Rows /\ SameTouch(OpenRow, new)
      BY <1>1, <1>2, <2>1, <3>1, RevealedRow
    <3>3. Rewrite(new)
      BY <1>7, <2>2, ZoneBelowRows
    <3> HIDE DEF new
    <3> QED BY <1>1, <1>2, <2>1, <3>2, <3>3, RewriteKeeps
  <2>3. CASE ~ (RunOn > Window)
    <3>1. UNCHANGED touches
      BY <1>7, <2>3, ZoneBelowRows
    <3> QED BY <1>1, <3>1, UnchangedKeeps
  <2> QED BY <2>2, <2>3
<1>8. CASE ZoneContact(b)
  <2>1. phase = "zone"
    BY <1>8 DEF ZoneContact, InZone
  <2> DEFINE new == Reached(OpenRow, Now, span'.low, span'.high)
  <2>2. span'.low \in Int /\ span'.high \in Int
    <3>1. span' \in Spans
      BY <1>1, <1>8, StepFacts, SpanSteps
    <3> QED BY <3>1 DEF Spans
  <2>3. new \in Rows /\ SameTouch(OpenRow, new)
    BY <1>1, <1>2, <2>1, <2>2, ReachedRow
  <2>4. Rewrite(new)
    BY <1>8, ZoneContactRows
  <2> HIDE DEF new
  <2> QED BY <1>1, <1>2, <2>1, <2>3, <2>4, RewriteKeeps
<1>9. CASE FalseBreakBar(b)
  <2>1. phase = "false_break"
    BY <1>9 DEF FalseBreakBar
  <2> DEFINE mid == WithBar(OpenRow, Now, b)
             new == Resolved(mid, Now, "comeback")
  <2>2. mid \in Rows /\ SameTouch(OpenRow, mid)
    BY <1>1, <1>2, <2>1, WithBarRow
  <2>3. new \in Rows /\ SameTouch(mid, new)
    BY <1>1, <1>3, <2>2, ResolvedRow
  <2>4. SameTouch(OpenRow, new)
    BY <2>2, <2>3 DEF SameTouch
  <2>5. Rewrite(new) \/ Rewrite(mid)
    BY <1>9, FalseBreakBarRows
  <2> HIDE DEF mid, new
  <2> QED BY <1>1, <1>2, <2>1, <2>2, <2>3, <2>4, <2>5, RewriteKeeps
<1> QED BY <1>1, <1>4, <1>5, <1>6, <1>7, <1>8, <1>9 DEF Project

\* The forming wave is one of the history with the new bar, unless there is no
\* episode and none starts.
LEMMA WaveStep ==
  ASSUME Core, NEW b \in Candles, Step(b)
  PROVE  Idle(b) \/ WaveFrom(hist', forming')
<1>1. /\ BarsOK /\ Longer(hist, hist', b) /\ Extremes(hist) /\ Extremes(hist')
      /\ Len(hist) = Len(bars) /\ Project(b)
  BY StepFacts DEF Core, Types
<1>2. CASE StartEpisode(b)
  <2>1. forming' = SeededForming(b)
    BY <1>2 DEF StartEpisode
  <2> QED BY <1>1, <2>1, SeededWave
<1>3. ASSUME active PROVE WaveFrom(hist', UpdatedForming(b)) /\ WaveFrom(hist', NewForming(b))
  BY <1>1, <1>3, UpdatedWave, NewWave DEF Core
<1>4. CASE BreakStack(b) \/ StayAway(b) \/ InZone(b) \/ FalseBreakBar(b)
  <2>1. forming' = UpdatedForming(b) /\ active
    BY <1>4 DEF BreakStack, StayAway, InZone, FalseBreakBar, Breaking, Holding
  <2> QED BY <1>3, <2>1
<1>5. CASE OpenZone(b)
  <2>1. forming' = NewForming(b) /\ active
    BY <1>5 DEF OpenZone, Holding
  <2> QED BY <1>3, <2>1
<1> QED BY <1>1, <1>2, <1>4, <1>5 DEF Project, ZoneAbove, ZoneBelow, ZoneContact

LEMMA WaveFacts ==
  ASSUME NEW h, NEW f, Len(h) \in Nat, WaveFrom(h, f)
  PROVE  /\ f \in Formings /\ f.origin \in 1..Len(h) /\ f.peak \in 1..Len(h)
         /\ f.origin <= f.peak
BY DEF WaveFrom, EarliestTop

\* Episodes are appended and ended, one at a time.
LEMMA EpisodesStep ==
  ASSUME Core, NEW b \in Candles, Step(b)
  PROVE  /\ episodes' \in Seq(Episodes)
         /\ StartEpisode(b) => /\ Len(episodes') = Len(episodes) + 1
                               /\ \A e \in 1..Len(episodes) : episodes'[e] = episodes[e]
                               /\ episodes'[Len(episodes) + 1].start = Now
                               /\ episodes'[Len(episodes) + 1].end = None
         /\ BreakStack(b) => /\ Len(episodes') = Len(episodes) /\ Len(episodes) > 0
                             /\ \A e \in 1..Len(episodes) :
                                   /\ episodes'[e].start = episodes[e].start
                                   /\ e < Len(episodes) => episodes'[e] = episodes[e]
                             /\ episodes'[Len(episodes)].end = Now
         /\ ~ StartEpisode(b) /\ ~ BreakStack(b) => episodes' = episodes
<1>1. episodes \in Seq(Episodes) /\ Len(episodes) \in Nat /\ Now \in Nat /\ Project(b)
  BY StepFacts DEF Core, Types
<1>2. ASSUME StartEpisode(b)
      PROVE  /\ episodes' \in Seq(Episodes)
             /\ Len(episodes') = Len(episodes) + 1
             /\ \A e \in 1..Len(episodes) : episodes'[e] = episodes[e]
             /\ episodes'[Len(episodes) + 1].start = Now
             /\ episodes'[Len(episodes) + 1].end = None
  <2> DEFINE new == [start |-> Now, end |-> None, censored |-> censored', wave |-> None]
  <2>1. episodes' = Append(episodes, new) /\ censored' \in BOOLEAN
    BY <1>2 DEF StartEpisode
  <2>2. new \in Episodes /\ new.start = Now /\ new.end = None
    BY <1>1, <2>1 DEF Episodes, Marks
  <2> HIDE DEF new
  <2> QED BY <1>1, <2>1, <2>2, AppendProperties
<1>3. ASSUME BreakStack(b)
      PROVE  /\ episodes' \in Seq(Episodes)
             /\ Len(episodes') = Len(episodes) /\ Len(episodes) > 0
             /\ \A e \in 1..Len(episodes) : /\ episodes'[e].start = episodes[e].start
                                            /\ e < Len(episodes) => episodes'[e] = episodes[e]
             /\ episodes'[Len(episodes)].end = Now
  <2> DEFINE E == Len(episodes)
             new == [episodes[E] EXCEPT !.end = Now, !.wave = forming']
  <2>1. active
    BY <1>3 DEF BreakStack, Breaking
  <2>2. E > 0
    <3>1. episodes # <<>>
      BY <2>1 DEF Core, Control
    <3> QED BY <1>1, <3>1, EmptySeq
  <2>3. E \in 1..E
    BY <1>1, <2>2
  <2>4. episodes[E] \in Episodes
    BY <1>1, <2>3
  <2>5. forming' \in Formings
    <3>1. ~ Idle(b)
      BY <2>1 DEF Idle
    <3>2. Len(hist') \in Nat
      BY StepFacts
    <3> QED BY <3>1, <3>2, WaveStep, WaveFacts
  <2>6. new \in Episodes /\ new.start = episodes[E].start /\ new.end = Now
    BY <1>1, <2>4, <2>5 DEF Episodes, Marks
  <2>7. episodes' = [episodes EXCEPT ![E] = new]
    BY <1>3 DEF BreakStack
  <2> HIDE DEF new
  <2> DEFINE put == [episodes EXCEPT ![E] = new]
  <2>8. /\ put \in Seq(Episodes) /\ Len(put) = E
        /\ \A e \in 1..E : put[e] = IF e = E THEN new ELSE episodes[e]
    BY <1>1, <2>3, <2>6, ExceptSeq
  <2>9. episodes' = put
    BY <2>7
  <2> HIDE DEF put
  <2> QED BY <1>1, <2>2, <2>3, <2>6, <2>8, <2>9
<1>4. ASSUME ~ StartEpisode(b), ~ BreakStack(b) PROVE episodes' = episodes
  BY <1>1, <1>4 DEF Project, Idle, OpenZone, StayAway, ZoneAbove, ZoneBelow, ZoneContact,
                    InZone, FalseBreakBar
<1> QED BY <1>1, <1>2, <1>3, <1>4

LEMMA TableStep ==
  ASSUME Core, NEW b \in Candles, Step(b)
  PROVE  Table' /\ touches' \in Seq(Rows)
<1>1. Types /\ Table /\ Project(b) /\ Len(episodes) \in Nat
  BY StepFacts DEF Core, Types
<1>2. CASE OpenZone(b)
  <2>1. /\ touches' = Append(touches, NewRow(b)) /\ touchNumber' = touchNumber + 1
        /\ episodes' = episodes /\ active
    BY <1>2 DEF OpenZone, Holding
  <2>2. episodes # <<>> /\ episodes \in Seq(Episodes)
    BY <2>1 DEF Core, Control, Types
  <2>3. Len(episodes) > 0
    BY <2>2, EmptySeq
  <2> QED BY <1>1, <2>1, <2>3, TableNewRow, NewRowAdded
<1>3. CASE ~ OpenZone(b)
  <2>1. RowsKept
    BY <1>3, RowsStep
  <2>2. CASE StartEpisode(b)
    <3>1. touchNumber' = 0 /\ Len(episodes') = Len(episodes) + 1
      BY <2>2, EpisodesStep DEF StartEpisode
    <3> QED BY <1>1, <2>1, <3>1, TableNewEpisode DEF RowsKept
  <2>3. CASE ~ StartEpisode(b)
    <3>1. touchNumber' = touchNumber
      BY <1>1, <1>3, <2>3 DEF Project, Idle, BreakStack, StayAway, ZoneAbove, ZoneBelow,
                              ZoneContact, InZone, FalseBreakBar
    <3>2. Len(episodes') = Len(episodes)
      BY <2>3, EpisodesStep
    <3> QED BY <1>1, <2>1, <3>1, <3>2, TableKept DEF RowsKept
  <2> QED BY <2>2, <2>3
<1> QED BY <1>2, <1>3

\* The counters and the phase, action by action.
LEMMA ScalarsStep ==
  ASSUME Core, NEW b \in Candles, Step(b)
  PROVE  /\ active' \in BOOLEAN /\ censored' \in BOOLEAN /\ phase' \in Phases
         /\ violation' \in Nat /\ violation' <= BreakBars + 1
         /\ touchNumber' \in Nat /\ falseBreaks' \in Nat /\ falseBreaks' <= touchNumber'
<1>1. /\ active \in BOOLEAN /\ censored \in BOOLEAN /\ phase \in Phases
      /\ violation \in Nat /\ violation <= BreakBars + 1
      /\ touchNumber \in Nat /\ falseBreaks \in Nat /\ falseBreaks <= touchNumber
      /\ phase = "zone" => falseBreaks < touchNumber
  BY DEF Core, Types, Control
<1>2. /\ Project(b) /\ Violation(b) \in Nat /\ (active => Violation(b) <= BreakBars + 1)
      /\ BreakBars \in Nat /\ 0 <= BreakBars + 1
  BY StepFacts, LengthsAreNat
<1>3. CASE Idle(b)
  BY <1>1, <1>3 DEF Idle
<1>4. CASE StartEpisode(b)
  BY <1>2, <1>4 DEF StartEpisode, Phases
<1>5. CASE BreakStack(b)
  BY <1>1, <1>2, <1>5 DEF BreakStack, Breaking, Phases
<1>6. CASE OpenZone(b)
  BY <1>1, <1>2, <1>6 DEF OpenZone, Holding, Phases
<1>7. CASE StayAway(b)
  BY <1>1, <1>2, <1>7 DEF StayAway, Holding
<1>8. CASE ZoneAbove(b)
  BY <1>1, <1>2, <1>8 DEF ZoneAbove, InZone, Holding, Phases
<1>9. CASE ZoneBelow(b)
  <2>1. /\ (falseBreaks' = falseBreaks + 1 /\ phase' = "false_break")
           \/ (falseBreaks' = falseBreaks /\ phase' = phase)
        /\ phase = "zone"
    BY <1>9, ZoneBelowRows DEF ZoneBelow, InZone
  <2> QED BY <1>1, <1>2, <1>9, <2>1 DEF ZoneBelow, InZone, Holding, Phases
<1>10. CASE ZoneContact(b)
  BY <1>1, <1>2, <1>10 DEF ZoneContact, InZone, Holding
<1>11. CASE FalseBreakBar(b)
  BY <1>1, <1>2, <1>11 DEF FalseBreakBar, Holding, Phases
<1> QED BY <1>2, <1>3, <1>4, <1>5, <1>6, <1>7, <1>8, <1>9, <1>10, <1>11 DEF Project

LEMMA SpanStep ==
  ASSUME Core, NEW b \in Candles, Step(b)
  PROVE  /\ span' \in Spans /\ span'.contact <= Len(bars')
         /\ span'.run <= Window + 1 /\ span'.run <= Len(bars')
         /\ phase' = "zone" => span'.run <= Window
<1>1. /\ span \in Spans /\ span.contact <= Len(bars) /\ span.run <= Window + 1
      /\ span.run <= Len(bars) /\ (phase = "zone" => span.run <= Window) /\ Types
  BY DEF Core, Types, Control
<1>2. /\ Project(b) /\ Len(bars) \in Nat /\ Now = Len(bars) + 1 /\ Len(bars') = Now /\ Now \in Nat
      /\ Window \in Nat
  BY StepFacts, LengthsAreNat
<1>3. span.contact \in Nat /\ span.run \in Nat
  BY <1>1 DEF Spans
<1>4. CASE span' = span /\ (phase' = "zone" => phase = "zone")
  BY <1>1, <1>2, <1>3, <1>4
<1>5. CASE OpenZone(b)
  <2>1. span' = [contact |-> Now, low |-> b.low, high |-> b.high,
                 run |-> 0, runLow |-> b.low, runHigh |-> b.high]
    BY <1>5 DEF OpenZone
  <2>2. span' \in Spans /\ span'.contact = Now /\ span'.run = 0
    BY <1>2, <2>1, CandleFacts DEF Spans
  <2> QED BY <1>2, <2>2
<1>6. CASE ZoneAbove(b)
  <2>1. span' \in Spans /\ span'.contact = span.contact /\ span'.run = 0
    BY <1>1, <1>2, <1>6, SpanSteps
  <2> QED BY <1>1, <1>2, <1>3, <2>1
<1>7. CASE ZoneBelow(b)
  <2>1. span' \in Spans /\ span'.contact = span.contact /\ span'.run = span.run + 1
    BY <1>1, <1>2, <1>7, SpanSteps DEF RunOn
  <2>2. phase = "zone"
    BY <1>7 DEF ZoneBelow, InZone
  <2>3. phase' = "zone" => span.run + 1 <= Window
    <3>1. RunOn > Window => phase' = "false_break"
      BY <1>7, ZoneBelowRows
    <3>2. phase' = "zone" => ~ (RunOn > Window)
      BY <3>1
    <3> QED BY <1>2, <1>3, <3>2 DEF RunOn
  <2> QED BY <1>1, <1>2, <1>3, <2>1, <2>2, <2>3
<1>8. CASE ZoneContact(b)
  <2>1. span' \in Spans /\ span'.contact = Now /\ span'.run = 0
    BY <1>1, <1>2, <1>8, SpanSteps
  <2> QED BY <1>2, <2>1
<1>9. CASE Idle(b) \/ StartEpisode(b) \/ BreakStack(b) \/ StayAway(b) \/ FalseBreakBar(b)
  <2>1. span' = span
    BY <1>9 DEF Idle, StartEpisode, BreakStack, StayAway, FalseBreakBar
  <2>2. phase' = "zone" => phase = "zone"
    BY <1>9 DEF Idle, StartEpisode, BreakStack, StayAway, FalseBreakBar
  <2> QED BY <1>4, <2>1, <2>2
<1> QED BY <1>2, <1>5, <1>6, <1>7, <1>8, <1>9 DEF Project

LEMMA SnapshotStep ==
  ASSUME Core, NEW b \in Candles, Step(b)
  PROVE  seen' \in Seq(Snapshots) /\ Len(seen') = Len(bars')
         /\ seen' = Append(seen, Snapshot) /\ Len(seen) = Len(bars)
<1>1. /\ seen \in Seq(Snapshots) /\ Len(seen) = Len(bars) /\ Len(bars') = Len(bars) + 1
      /\ seen' = Append(seen, Snapshot)
  BY StepFacts DEF Core, Types
<1>2. Snapshot \in Snapshots
  <2>1. CASE censored' \/ ~ (active \/ active')
    BY <2>1 DEF Snapshot, Snapshots
  <2>2. CASE ~ (censored' \/ ~ (active \/ active'))
    <3> DEFINE z == IF touchNumber' = 0 THEN None ELSE touches'[Len(touches')]
    <3>1. Len(episodes') \in Nat /\ touchNumber' \in Nat /\ phase' \in Phases
      BY EpisodesStep, ScalarsStep
    <3>2. forming' \in Formings
      <4>1. ~ Idle(b)
        BY <2>2 DEF Idle
      <4> QED BY <4>1, StepFacts, WaveStep, WaveFacts
    <3>3. z \in Rows \union {None}
      <4>1. touches' \in Seq(Rows)
        BY TableStep
      <4>2. touchNumber' # 0 => Len(touches') > 0
        BY <3>1, TableStep DEF Table
      <4>3. Len(touches') \in Nat
        BY <4>1
      <4>4. touchNumber' # 0 => Len(touches') \in 1..Len(touches')
        BY <4>2, <4>3
      <4> QED BY <4>1, <4>4
    <3>4. Snapshot = [episode |-> Len(episodes'), number |-> touchNumber', phase |-> phase',
                      zone |-> z, forming |-> forming']
      BY <2>2 DEF Snapshot
    <3> HIDE DEF z
    <3> QED BY <3>1, <3>2, <3>3, <3>4 DEF Snapshots
  <2> QED BY <2>1, <2>2
<1> QED BY <1>1, <1>2, AppendProperties

LEMMA TypesStep ==
  ASSUME Core, NEW b \in Candles, Step(b)
  PROVE  Types'
<1>1. BarsOK' /\ Len(bars') \in Nat /\ Len(hist') = Len(bars') /\ Len(bars) \in Nat
      /\ Len(bars') = Len(bars) + 1
  BY StepFacts
<1>0. Len(bars') <= MaxBars
  BY <1>1, LengthsAreNat DEF Step
<1>2. forming' \in Formings /\ forming'.origin <= forming'.peak /\ forming'.peak <= Len(bars')
  <2>1. CASE Idle(b)
    <3>1. /\ forming' = forming /\ forming \in Formings
          /\ forming.origin <= forming.peak /\ forming.peak <= Len(bars)
      BY <2>1 DEF Idle, Core, Types
    <3>2. forming.peak \in Nat
      BY <3>1 DEF Formings
    <3> QED BY <1>1, <3>1, <3>2
  <2>2. CASE WaveFrom(hist', forming')
    <3>1. /\ forming' \in Formings /\ forming'.peak \in 1..Len(hist')
          /\ forming'.origin <= forming'.peak
      BY <1>1, <2>2, WaveFacts
    <3> QED BY <1>1, <3>1
  <2> QED BY <2>1, <2>2, WaveStep
<1>3. touches' \in Seq(Rows) /\ episodes' \in Seq(Episodes)
  BY TableStep, EpisodesStep
<1>4. seen' \in Seq(Snapshots) /\ Len(seen') = Len(bars')
  BY SnapshotStep
<1>5. /\ span' \in Spans /\ span'.contact <= Len(bars')
      /\ span'.run <= Window + 1 /\ span'.run <= Len(bars')
  BY SpanStep
<1> QED BY <1>0, <1>1, <1>2, <1>3, <1>4, <1>5, ScalarsStep DEF Types

LEMMA ControlStep ==
  ASSUME Core, NEW b \in Candles, Step(b)
  PROVE  Control'
<1> DEFINE E == Len(episodes)
<1>1. Control /\ Project(b) /\ Now \in Nat /\ E \in Nat /\ episodes \in Seq(Episodes)
  BY StepFacts DEF Core, Types
<1>2. /\ phase \in Phases /\ touchNumber \in Nat /\ falseBreaks \in Nat
      /\ falseBreaks <= touchNumber /\ Violation(b) \in Nat
  BY StepFacts DEF Core, Types
<1>3. phase' = "zone" => span'.run <= Window
  BY SpanStep
<1>4. Now # None /\ episodes' \in Seq(Episodes)
  BY <1>1, NoneIsApart, EpisodesStep
<1>5. episodes # <<>> <=> E > 0
  BY <1>1, EmptySeq
<1>6. episodes' # <<>> <=> Len(episodes') > 0
  BY <1>4, EmptySeq
<1>7. \A e \in 1..E : episodes[e].end = None <=> active /\ e = E
  BY DEF Core, Control
\* The end of an episode is set where it stops being active.
<1>8. \A e \in 1..Len(episodes') : episodes'[e].end = None <=> active' /\ e = Len(episodes')
  <2>1. CASE StartEpisode(b)
    <3>1. /\ Len(episodes') = E + 1 /\ \A e \in 1..E : episodes'[e] = episodes[e]
          /\ episodes'[E + 1].end = None
      BY <2>1, EpisodesStep
    <3>2. active' /\ ~ active
      BY <2>1 DEF StartEpisode
    <3> QED BY <1>1, <1>7, <3>1, <3>2
  <2>2. CASE BreakStack(b)
    <3>1. /\ Len(episodes') = E /\ \A e \in 1..E : e < E => episodes'[e] = episodes[e]
          /\ episodes'[E].end = Now
      BY <2>2, EpisodesStep
    <3>2. ~ active'
      BY <2>2 DEF BreakStack
    <3> QED BY <1>1, <1>4, <1>7, <3>1, <3>2
  <2>3. CASE ~ StartEpisode(b) /\ ~ BreakStack(b)
    <3>1. episodes' = episodes
      BY <2>3, EpisodesStep
    <3>2. active' = active
      BY <1>1, <2>3 DEF Project, Idle, OpenZone, StayAway, ZoneAbove, ZoneBelow, ZoneContact,
                        InZone, FalseBreakBar
    <3> QED BY <1>7, <3>1, <3>2
  <2> QED BY <2>1, <2>2, <2>3
\* What the flags and counters promise, by the action.
<1> DEFINE Flags == /\ active' => episodes' # <<>> /\ phase' # "broken" /\ violation' <= BreakBars
                    /\ ~ active' => /\ phase' \in {"away", "broken"}
                                    /\ phase' = "away" => episodes' = <<>>
                    /\ episodes' = <<>> => touchNumber' = 0
                    /\ phase' \in {"zone", "false_break"} => touchNumber' > 0
                    /\ phase' = "zone" => falseBreaks' < touchNumber'
<1>9. ASSUME Idle(b) PROVE Flags
  BY <1>1, <1>9 DEF Idle, Control
<1>10. ASSUME StartEpisode(b) PROVE Flags
  <2>1. Len(episodes') > 0
    BY <1>1, <1>10, EpisodesStep
  <2>2. 0 <= BreakBars
    BY LengthsAreNat
  <2> QED BY <1>6, <1>10, <2>1, <2>2 DEF StartEpisode
<1>11. ASSUME BreakStack(b) PROVE Flags
  <2>1. episodes' # <<>>
    BY <1>1, <1>6, <1>11, EpisodesStep
  <2>2. phase' = "broken" /\ ~ active'
    BY <1>11 DEF BreakStack
  <2> QED BY <2>1, <2>2
<1>12. ASSUME OpenZone(b) PROVE Flags
  <2>1. /\ active' = active /\ active /\ phase' = "zone" /\ falseBreaks' = falseBreaks
        /\ touchNumber' = touchNumber + 1 /\ violation' = Violation(b)
        /\ Violation(b) <= BreakBars /\ episodes' = episodes
    BY <1>12 DEF OpenZone, Holding
  <2>2. touchNumber' > 0 /\ falseBreaks' < touchNumber'
    BY <1>2, <2>1
  <2> QED BY <1>1, <2>1, <2>2 DEF Control
<1>13. ASSUME StayAway(b) \/ ZoneAbove(b) \/ ZoneBelow(b) \/ ZoneContact(b) \/ FalseBreakBar(b) PROVE Flags
  <2>1. /\ active' = active /\ active /\ violation' = Violation(b) /\ touchNumber' = touchNumber
        /\ Violation(b) <= BreakBars /\ episodes' = episodes
    BY <1>13 DEF StayAway, ZoneAbove, ZoneBelow, ZoneContact, FalseBreakBar, InZone, Holding
  <2>2. /\ phase' # "broken"
        /\ phase' \in {"zone", "false_break"} => phase \in {"zone", "false_break"}
        /\ phase' = "zone" => phase = "zone" /\ falseBreaks' = falseBreaks
    <3>1. CASE StayAway(b) \/ ZoneContact(b)
      BY <3>1 DEF StayAway, ZoneContact, InZone
    <3>2. CASE ZoneAbove(b)
      BY <3>2 DEF ZoneAbove, InZone
    <3>3. CASE ZoneBelow(b)
      <4>1. phase = "zone"
        BY <3>3 DEF ZoneBelow, InZone
      <4>2. CASE RunOn > Window
        BY <3>3, <4>1, <4>2, ZoneBelowRows
      <4>3. CASE ~ (RunOn > Window)
        BY <3>3, <4>1, <4>3, ZoneBelowRows
      <4> QED BY <4>2, <4>3
    <3>4. CASE FalseBreakBar(b)
      BY <3>4 DEF FalseBreakBar
    <3> QED BY <1>13, <3>1, <3>2, <3>3, <3>4
  <2> QED BY <1>1, <2>1, <2>2 DEF Control
<1>14. Flags
  BY <1>1, <1>9, <1>10, <1>11, <1>12, <1>13 DEF Project
<1> QED BY <1>3, <1>8, <1>14 DEF Control

LEMMA CoreInit == Init => Core
<1> SUFFICES ASSUME Init PROVE Core
  OBVIOUS
<1> USE DEF Init
<1>1. /\ bars \in Seq(Candles) /\ Len(bars) = 0 /\ touches \in Seq(Rows) /\ Len(touches) = 0
      /\ episodes \in Seq(Episodes) /\ Len(episodes) = 0
      /\ seen \in Seq(Snapshots) /\ Len(seen) = 0
  BY EmptySeq
<1>2. BarsOK
  BY <1>1 DEF BarsOK
<1>3. span \in Spans /\ span.contact = 0 /\ span.run = 0
  BY DEF Spans
<1>4. forming \in Formings /\ forming.origin = 0 /\ forming.peak = 0
  BY DEF Formings
<1>5. Types
  <2>1. /\ 0 <= BreakBars + 1 /\ 0 <= Window + 1 /\ 0 <= MaxBars /\ 0 \in Nat
    BY LengthsAreNat
  <2>2. active \in BOOLEAN /\ censored \in BOOLEAN /\ phase \in Phases
    BY DEF Phases
  <2>3. violation = 0 /\ touchNumber = 0 /\ falseBreaks = 0
    OBVIOUS
  <2> QED BY <1>1, <1>2, <1>3, <1>4, <2>1, <2>2, <2>3 DEF Types
<1>6. Control
  BY <1>1 DEF Control
<1>7. Table
  BY <1>1 DEF Table
<1>8. Extremes(hist)
  <2>1. Len(hist) = 0
    BY <1>1, <1>2, HistoryOK
  <2> QED BY <2>1 DEF Extremes, NoContact
<1> QED BY <1>5, <1>6, <1>7, <1>8 DEF Core

LEMMA CoreStep == Core /\ [Next]_vars => Core'
<1> SUFFICES ASSUME Core, [Next]_vars PROVE Core'
  OBVIOUS
<1>1. CASE Next
  <2>1. PICK b \in Candles : Step(b)
    BY <1>1, NextIsStep
  <2>2. Types' /\ Control' /\ Table' /\ Extremes(hist')
    BY <2>1, TypesStep, ControlStep, TableStep, StepFacts
  <2>3. active' => WaveFrom(hist', forming')
    <3>1. Idle(b) => ~ active'
      BY DEF Idle
    <3> QED BY <2>1, <3>1, WaveStep
  <2> QED BY <2>2, <2>3 DEF Core
<1>2. CASE UNCHANGED vars
  <2>1. hist' = hist
    BY <1>2 DEF vars, hist, Bar, Mirror
  <2> QED BY <1>2, <2>1 DEF vars, Core, Types, Control, Table, BarsOK
<1> QED BY <1>1, <1>2

\* The variables keep their types, and the marks of the open zone and of the
\* forming wave lie within the history (project_stack_episode).
THEOREM TypeCorrect == Spec => []TypeOK
<1>1. Core => TypeOK
  <2> SUFFICES ASSUME Core PROVE TypeOK
    OBVIOUS
  <2>1. Types /\ Table
    BY DEF Core
  <2>2. Len(bars) \in 0..MaxBars
    <3>1. Len(bars) \in Nat /\ Len(bars) <= MaxBars
      BY <2>1, HistoryOK DEF Types
    <3> QED BY <3>1, LengthsAreNat
  <2>3. \A r \in DOMAIN touches : touches[r].episode \in DOMAIN episodes
    BY <2>1 DEF Types, Table
  <2> QED BY <2>1, <2>2, <2>3, LengthsAreNat DEF TypeOK, Types, BarsOK, Spans, Formings, Phases
<1> QED BY <1>1, CoreInit, CoreStep, PTL DEF Spec

--------------------------------------------------------------------------------
(* The past: what later bars may still rewrite. *)

\* The last row is open exactly as the phase says.
OpenAsPhase ==
  /\ phase = "zone" => ~ OpenRow.final /\ ~ OpenRow.broken /\ ~ OpenRow.fbFinal
  /\ phase = "false_break" => OpenRow.final /\ OpenRow.broken /\ ~ OpenRow.fbFinal

\* A bar was given the number of a touch that is in the table.
SeenInTable ==
  \A t \in 1..Len(seen) : seen[t] # None =>
      /\ seen[t].number \in Nat
      /\ seen[t].number > 0 =>
           \E r \in 1..Len(touches) : /\ touches[r].episode = seen[t].episode
                                      /\ touches[r].number = seen[t].number

\* The first row of an episode is found from any row of it.
LEMMA FirstRowIs ==
  ASSUME NEW tbl \in Seq(Rows), NEW r \in 1..Len(tbl), tbl[r].number \in 1..r,
         \A s \in 1..r : tbl[s].episode = tbl[r].episode <=> s > r - tbl[r].number
  PROVE  Min({s \in DOMAIN tbl : tbl[s].episode = tbl[r].episode}) = r - tbl[r].number + 1
<1> DEFINE S == {s \in DOMAIN tbl : tbl[s].episode = tbl[r].episode}
           first == r - tbl[r].number + 1
<1>1. first \in 1..r
  OBVIOUS
<1>2. DOMAIN tbl = 1..Len(tbl) /\ Len(tbl) \in Nat
  OBVIOUS
<1>3. first \in S
  BY <1>1, <1>2
<1>4. ASSUME NEW s \in S PROVE s \in Int /\ first <= s
  <2>1. s \in 1..Len(tbl) /\ tbl[s].episode = tbl[r].episode
    BY <1>2
  <2>2. CASE s \in 1..r
    BY <2>1, <2>2
  <2>3. CASE s \notin 1..r
    BY <1>1, <2>1, <2>3
  <2> QED BY <2>2, <2>3
<1> HIDE DEF S, first
<1>5. Min(S) = first
  BY <1>3, <1>4, MinIs
<1> QED BY <1>5 DEF S, first

\* No row that is kept or was there before moves to another touch.
LEMMA RowsOnlyGrow ==
  ASSUME Core, NEW b \in Candles, Step(b)
  PROVE  /\ Len(touches') \in Nat /\ Len(touches) <= Len(touches')
         /\ \A r \in 1..Len(touches) : /\ SameTouch(touches[r], touches'[r])
                                       /\ r < Len(touches) => touches'[r] = touches[r]
<1>1. Types /\ Len(touches) \in Nat
  BY DEF Core, Types
<1>2. CASE RowsKept
  BY <1>1, <1>2 DEF RowsKept
<1>3. CASE OpenZone(b)
  <2>1. touches' = Append(touches, NewRow(b))
    BY <1>3 DEF OpenZone
  <2>2. Len(touches') = Len(touches) + 1 /\ \A r \in 1..Len(touches) : touches'[r] = touches[r]
    BY <1>1, <2>1, NewRowAdded
  <2> QED BY <1>1, <2>2, SameTouchSame
<1> QED BY <1>2, <1>3, RowsStep

LEMMA SeenStep ==
  ASSUME Core, SeenInTable, NEW b \in Candles, Step(b)
  PROVE  SeenInTable'
<1>1. /\ seen \in Seq(Snapshots) /\ Len(seen) \in Nat /\ seen' = Append(seen, Snapshot)
  BY SnapshotStep DEF Core, Types
<1>2. /\ Len(seen') = Len(seen) + 1 /\ seen'[Len(seen) + 1] = Snapshot
      /\ \A t \in 1..Len(seen) : seen'[t] = seen[t]
  BY <1>1
<1>3. /\ Len(touches') \in Nat /\ Len(touches) <= Len(touches') /\ Len(touches) \in Nat
      /\ \A r \in 1..Len(touches) : /\ touches'[r].episode = touches[r].episode
                                    /\ touches'[r].number = touches[r].number
  BY RowsOnlyGrow DEF SameTouch, Core, Types
<1>4. ASSUME NEW t \in 1..Len(seen'), seen'[t] # None
      PROVE  /\ seen'[t].number \in Nat
             /\ seen'[t].number > 0 =>
                  \E r \in 1..Len(touches') : /\ touches'[r].episode = seen'[t].episode
                                              /\ touches'[r].number = seen'[t].number
  <2>1. CASE t \in 1..Len(seen)
    <3>1. seen'[t] = seen[t] /\ seen[t] # None
      BY <1>2, <1>4, <2>1
    <3>2. seen[t].number \in Nat
      BY <2>1, <3>1 DEF SeenInTable
    <3>3. CASE seen[t].number > 0
      <4>1. PICK r \in 1..Len(touches) : /\ touches[r].episode = seen[t].episode
                                         /\ touches[r].number = seen[t].number
        BY <2>1, <3>1, <3>3 DEF SeenInTable
      <4>2. r \in 1..Len(touches')
        BY <1>3
      <4> QED BY <1>3, <3>1, <3>2, <4>1, <4>2
    <3> QED BY <3>1, <3>2, <3>3
  <2>2. CASE t = Len(seen) + 1
    <3>1. seen'[t] = Snapshot /\ Snapshot # None
      BY <1>2, <1>4, <2>2
    <3>2. /\ Snapshot.episode = Len(episodes') /\ Snapshot.number = touchNumber'
      BY <3>1 DEF Snapshot
    <3>3. touchNumber' \in Nat /\ Table'
      BY ScalarsStep, TableStep
    <3>4. touchNumber' > 0 => /\ Len(touches') > 0
                              /\ touches'[Len(touches')].episode = Len(episodes')
                              /\ touches'[Len(touches')].number = touchNumber'
      BY <3>3 DEF Table
    <3>5. Len(touches') > 0 => Len(touches') \in 1..Len(touches')
      BY <1>3
    <3> QED BY <3>1, <3>2, <3>3, <3>4, <3>5
  <2> QED BY <1>1, <1>2, <2>1, <2>2
<1> QED BY <1>4 DEF SeenInTable

LEMMA OpenStep ==
  ASSUME Core, OpenAsPhase, NEW b \in Candles, Step(b)
  PROVE  OpenAsPhase'
<1>1. Types /\ Control /\ Table /\ touches \in Seq(Rows) /\ Now \in Nat /\ Project(b) /\ Len(touches) \in Nat
  BY StepFacts DEF Core, Types
<1>2. phase \in {"zone", "false_break"} => Len(touches) > 0 /\ OpenRow \in Rows
  BY <1>1, OpenRowFacts
<1>3. CASE phase' \notin {"zone", "false_break"}
  BY <1>3 DEF OpenAsPhase
<1>4. CASE OpenZone(b)
  <2>1. touches' = Append(touches, NewRow(b)) /\ phase' = "zone"
    BY <1>4 DEF OpenZone
  <2>2. OpenRow' = NewRow(b)
    BY <1>1, <2>1, NewRowAdded DEF OpenRow
  <2>3. ~ NewRow(b).final /\ ~ NewRow(b).broken /\ ~ NewRow(b).fbFinal
    BY DEF NewRow
  <2> QED BY <2>1, <2>2, <2>3 DEF OpenAsPhase
<1>5. CASE ZoneContact(b)
  <2> DEFINE new == Reached(OpenRow, Now, span'.low, span'.high)
  <2>1. phase = "zone" /\ phase' = phase
    BY <1>5 DEF ZoneContact, InZone
  <2>2. span'.low \in Int /\ span'.high \in Int
    BY SpanStep DEF Spans
  <2>3. new \in Rows /\ new.final = OpenRow.final /\ SameTouch(OpenRow, new) /\ SameFalseBreak(OpenRow, new)
    BY <1>1, <1>2, <2>1, <2>2, ReachedRow
  <2>4. Rewrite(new)
    BY <1>5, ZoneContactRows
  <2> HIDE DEF new
  <2>5. OpenRow' = new
    BY <1>1, <1>2, <2>1, <2>3, <2>4, RewriteKeeps
  <2> QED BY <2>1, <2>3, <2>5 DEF OpenAsPhase, SameFalseBreak
<1>6. CASE ZoneAbove(b) /\ phase' = "zone"
  <2>1. phase = "zone" /\ touches' = touches
    BY <1>6, ZoneAboveRows DEF ZoneAbove, InZone
  <2> QED BY <1>6, <2>1 DEF OpenAsPhase, OpenRow
<1>7. CASE ZoneBelow(b)
  <2>1. phase = "zone"
    BY <1>7 DEF ZoneBelow, InZone
  <2>2. CASE RunOn > Window
    <3> DEFINE new == Revealed(OpenRow, Now, RunOn, RunLow(b), RunHigh(b))
    <3>1. RunOn \in 1..Now /\ RunLow(b) \in Int /\ RunHigh(b) \in Int
      BY <1>1, StepFacts, SpanSteps
    <3>2. new \in Rows /\ SameTouch(OpenRow, new) /\ new.final /\ new.broken /\ new.fbFinal = OpenRow.fbFinal
      BY <1>1, <1>2, <2>1, <3>1, RevealedRow
    <3>3. Rewrite(new) /\ phase' = "false_break"
      BY <1>7, <2>2, ZoneBelowRows
    <3> HIDE DEF new
    <3>4. OpenRow' = new
      BY <1>1, <1>2, <2>1, <3>2, <3>3, RewriteKeeps
    <3> QED BY <2>1, <3>2, <3>3, <3>4 DEF OpenAsPhase
  <2>3. CASE ~ (RunOn > Window)
    <3>1. touches' = touches /\ phase' = phase
      BY <1>7, <2>3, ZoneBelowRows
    <3> QED BY <2>1, <3>1 DEF OpenAsPhase, OpenRow
  <2> QED BY <2>2, <2>3
<1>8. CASE FalseBreakBar(b) /\ phase' = "false_break"
  <2> DEFINE new == WithBar(OpenRow, Now, b)
  <2>1. phase = "false_break"
    BY <1>8 DEF FalseBreakBar
  <2>2. /\ new \in Rows /\ SameTouch(OpenRow, new) /\ new.final = OpenRow.final
        /\ new.broken = OpenRow.broken /\ new.fbFinal = OpenRow.fbFinal
    BY <1>1, <1>2, <2>1, WithBarRow
  <2>3. Rewrite(new)
    BY <1>8, FalseBreakBarRows
  <2> HIDE DEF new
  <2>4. OpenRow' = new
    BY <1>1, <1>2, <2>1, <2>2, <2>3, RewriteKeeps
  <2> QED BY <1>8, <2>1, <2>2, <2>4 DEF OpenAsPhase
<1>9. CASE Idle(b) \/ StartEpisode(b) \/ BreakStack(b) \/ StayAway(b)
  <2>1. phase' \notin {"zone", "false_break"}
    BY <1>1, <1>9 DEF Idle, StartEpisode, BreakStack, StayAway, Control
  <2> QED BY <1>3, <2>1
<1>10. CASE ZoneAbove(b) /\ phase' # "zone"
  <2>1. phase' = "away"
    BY <1>10, ZoneAboveRows DEF ZoneAbove, InZone
  <2> QED BY <1>3, <2>1
<1>11. CASE FalseBreakBar(b) /\ phase' # "false_break"
  <2>1. phase' = "away"
    BY <1>11, FalseBreakBarRows DEF FalseBreakBar
  <2> QED BY <1>3, <2>1
<1> QED BY <1>1, <1>4, <1>5, <1>6, <1>7, <1>8, <1>9, <1>10, <1>11 DEF Project

SettledStays(old, new) == old.final => SameZone(old, new) /\ new.final /\ new.knownAt = old.knownAt
                                       /\ new.broken = old.broken
ResolvedStays(old, new) == old.fbFinal => SameFalseBreak(old, new) /\ new.low = old.low

\* A rewriting never touches what is final.
LEMMA FinalStays ==
  ASSUME Core, OpenAsPhase, NEW b \in Candles, Step(b), NEW r \in 1..Len(touches)
  PROVE  SettledStays(touches[r], touches'[r]) /\ ResolvedStays(touches[r], touches'[r])
<1> USE DEF SettledStays, ResolvedStays
<1>1. Types /\ Control /\ Table /\ touches \in Seq(Rows) /\ Now \in Nat /\ Project(b) /\ Len(touches) \in Nat
  BY StepFacts DEF Core, Types
<1>2. phase \in {"zone", "false_break"} => Len(touches) > 0 /\ OpenRow \in Rows
  BY <1>1, OpenRowFacts
<1>3. CASE touches'[r] = touches[r]
  BY <1>3 DEF SameZone, SameFalseBreak
\* The last row, rewritten to new.
<1>4. ASSUME NEW new \in Rows, SameTouch(OpenRow, new), Rewrite(new), Len(touches) > 0,
             SettledStays(OpenRow, new), ResolvedStays(OpenRow, new)
      PROVE  SettledStays(touches[r], touches'[r]) /\ ResolvedStays(touches[r], touches'[r])
  <2>1. OpenRow' = new /\ RowsKept
    BY <1>1, <1>4, RewriteKeeps
  <2>2. CASE r < Len(touches)
    BY <1>3, <2>1, <2>2 DEF RowsKept
  <2>3. CASE r = Len(touches)
    <3>1. touches[r] = OpenRow /\ touches'[r] = new
      BY <2>1, <2>3 DEF OpenRow, RowsKept
    <3> QED BY <1>4, <3>1, Zenon
  <2> QED BY <1>1, <2>2, <2>3
<1>5. CASE touches' = touches
  BY <1>3, <1>5
<1>6. CASE OpenZone(b)
  <2>1. touches' = Append(touches, NewRow(b))
    BY <1>6 DEF OpenZone
  <2>2. touches'[r] = touches[r]
    BY <1>1, <2>1, NewRowAdded
  <2> QED BY <1>3, <2>2
<1>7. CASE phase = "zone" /\ Rewrite(Settled(OpenRow, Now))
  <2> DEFINE new == Settled(OpenRow, Now)
  <2>1. new \in Rows /\ SameTouch(OpenRow, new)
    BY <1>1, <1>2, <1>7, SettledRow
  <2>2. ~ OpenRow.final /\ ~ OpenRow.fbFinal
    BY <1>7 DEF OpenAsPhase
  <2>3. Rewrite(new)
    BY <1>7
  <2> HIDE DEF new
  <2> QED BY <1>2, <1>4, <1>7, <2>1, <2>2, <2>3
<1>8. CASE phase = "zone" /\ ZoneBelow(b) /\ RunOn > Window
  <2> DEFINE new == Revealed(OpenRow, Now, RunOn, RunLow(b), RunHigh(b))
  <2>1. RunOn \in 1..Now /\ RunLow(b) \in Int /\ RunHigh(b) \in Int
    BY <1>1, StepFacts, SpanSteps
  <2>2. new \in Rows /\ SameTouch(OpenRow, new)
    BY <1>1, <1>2, <1>8, <2>1, RevealedRow
  <2>3. Rewrite(new)
    BY <1>8, ZoneBelowRows
  <2>4. ~ OpenRow.final /\ ~ OpenRow.fbFinal
    BY <1>8 DEF OpenAsPhase
  <2> HIDE DEF new
  <2> QED BY <1>2, <1>4, <1>8, <2>2, <2>3, <2>4
<1>9. CASE ZoneContact(b)
  <2> DEFINE new == Reached(OpenRow, Now, span'.low, span'.high)
  <2>1. phase = "zone"
    BY <1>9 DEF ZoneContact, InZone
  <2>2. span'.low \in Int /\ span'.high \in Int
    BY SpanStep DEF Spans
  <2>3. new \in Rows /\ SameTouch(OpenRow, new)
    BY <1>1, <1>2, <2>1, <2>2, ReachedRow
  <2>4. Rewrite(new)
    BY <1>9, ZoneContactRows
  <2>5. ~ OpenRow.final /\ ~ OpenRow.fbFinal
    BY <2>1 DEF OpenAsPhase
  <2> HIDE DEF new
  <2> QED BY <1>2, <1>4, <2>1, <2>3, <2>4, <2>5
<1>10. CASE phase = "false_break" /\ Rewrite(WithBar(OpenRow, Now, b))
  <2> DEFINE new == WithBar(OpenRow, Now, b)
  <2>1. /\ new \in Rows /\ SameTouch(OpenRow, new) /\ SameZone(OpenRow, new)
        /\ new.final = OpenRow.final /\ new.knownAt = OpenRow.knownAt /\ new.broken = OpenRow.broken
    BY <1>1, <1>2, <1>10, WithBarRow
  <2>2. Rewrite(new) /\ ~ OpenRow.fbFinal
    BY <1>10 DEF OpenAsPhase
  <2> HIDE DEF new
  <2>3. SettledStays(OpenRow, new) /\ ResolvedStays(OpenRow, new)
    BY <2>1, <2>2
  <2> QED BY <1>2, <1>4, <1>10, <2>1, <2>2, <2>3
<1>11. ASSUME NEW outcome \in Outcomes, phase = "false_break",
              Rewrite(Resolved(WithBar(OpenRow, Now, b), Now, outcome))
       PROVE  SettledStays(touches[r], touches'[r]) /\ ResolvedStays(touches[r], touches'[r])
  <2> DEFINE mid == WithBar(OpenRow, Now, b)
             new == Resolved(mid, Now, outcome)
  <2>1. /\ mid \in Rows /\ SameTouch(OpenRow, mid) /\ SameZone(OpenRow, mid)
        /\ mid.final = OpenRow.final /\ mid.knownAt = OpenRow.knownAt /\ mid.broken = OpenRow.broken
    BY <1>1, <1>2, <1>11, WithBarRow
  <2> HIDE DEF mid
  <2>2. /\ new \in Rows /\ SameTouch(mid, new) /\ SameZone(mid, new)
        /\ new.final = mid.final /\ new.knownAt = mid.knownAt /\ new.broken = mid.broken
    BY <1>1, <1>11, <2>1, ResolvedRow
  <2>3. Rewrite(new) /\ ~ OpenRow.fbFinal
    BY <1>11 DEF OpenAsPhase, mid
  <2> HIDE DEF new
  <2>4. SameTouch(OpenRow, new) /\ SettledStays(OpenRow, new) /\ ResolvedStays(OpenRow, new)
    BY <2>1, <2>2, <2>3 DEF SameTouch, SameZone
  <2> QED BY <1>2, <1>4, <1>11, <2>2, <2>3, <2>4
<1>12. CASE Idle(b) \/ StartEpisode(b) \/ StayAway(b)
  BY <1>5, <1>12 DEF Idle, StartEpisode, StayAway
<1>13. CASE BreakStack(b)
  <2>1. CASE phase = "zone"
    BY <1>7, <1>13, <2>1, BreakStackRows
  <2>2. CASE phase = "false_break"
    <3>1. "stack_break" \in Outcomes
      BY DEF Outcomes
    <3> QED BY <1>11, <1>13, <2>2, <3>1, BreakStackRows
  <2>3. CASE phase \notin {"zone", "false_break"}
    BY <1>5, <1>13, <2>3, BreakStackRows
  <2> QED BY <2>1, <2>2, <2>3
<1>14. CASE ZoneAbove(b)
  <2>1. phase = "zone"
    BY <1>14 DEF ZoneAbove, InZone
  <2> QED BY <1>5, <1>7, <1>14, <2>1, ZoneAboveRows
<1>15. CASE ZoneBelow(b)
  <2>1. phase = "zone"
    BY <1>15 DEF ZoneBelow, InZone
  <2> QED BY <1>5, <1>8, <1>15, <2>1, ZoneBelowRows
<1>16. CASE FalseBreakBar(b)
  <2>1. phase = "false_break"
    BY <1>16 DEF FalseBreakBar
  <2>2. "comeback" \in Outcomes
    BY DEF Outcomes
  <2> QED BY <1>10, <1>11, <1>16, <2>1, <2>2, FalseBreakBarRows
<1> QED BY <1>1, <1>6, <1>9, <1>12, <1>13, <1>14, <1>15, <1>16 DEF Project

\* An operand of a past bar is read from what that bar saw, or from rows and
\* waves that no longer change.
LEMMA OperandStays ==
  ASSUME Core, SeenInTable, NEW b \in Candles, Step(b),
         NEW t \in 1..Len(seen), NEW n \in Int
  PROVE  Operand(t, n)' = Operand(t, n)
<1>1. /\ seen \in Seq(Snapshots) /\ Len(seen) \in Nat /\ seen' = Append(seen, Snapshot)
      /\ touches \in Seq(Rows) /\ touches' \in Seq(Rows) /\ Table /\ Table'
      /\ side' = side /\ Len(touches) \in Nat
  BY SnapshotStep, TableStep DEF Core, Types, Step
<1>2. seen'[t] = seen[t]
  BY <1>1
<1>3. CASE seen[t] = None \/ n \notin 1..seen[t].number
  BY <1>2, <1>3 DEF Operand
<1>4. CASE ~ (seen[t] = None \/ n \notin 1..seen[t].number)
  <2>1. seen[t].number \in Nat /\ n \in 1..seen[t].number
    BY <1>4 DEF SeenInTable
  <2>2. PICK r \in 1..Len(touches) :
           touches[r].episode = seen[t].episode /\ touches[r].number = seen[t].number
    BY <1>4, <2>1 DEF SeenInTable
  <2>3. /\ touches'[r].episode = seen[t].episode /\ touches'[r].number = seen[t].number
        /\ r \in 1..Len(touches')
    BY <1>1, <2>2, RowsOnlyGrow DEF SameTouch
  <2> DEFINE first == r - seen[t].number + 1
             q == first + n - 1
  <2>4. FirstRow(seen[t].episode) = first
    <3>1. touches[r].number \in 1..r
          /\ \A s \in 1..r : touches[s].episode = touches[r].episode <=> s > r - touches[r].number
      BY <1>1, <2>2 DEF Table
    <3>2. Min({s \in DOMAIN touches : touches[s].episode = touches[r].episode})
            = r - touches[r].number + 1
      BY <1>1, <3>1, FirstRowIs
    <3> QED BY <2>2, <3>2 DEF FirstRow
  <2>5. Min({s \in DOMAIN touches' : touches'[s].episode = seen[t].episode}) = first
    <3>1. touches'[r].number \in 1..r
          /\ \A s \in 1..r : touches'[s].episode = touches'[r].episode <=> s > r - touches'[r].number
      BY <1>1, <2>3 DEF Table
    <3>2. Min({s \in DOMAIN touches' : touches'[s].episode = touches'[r].episode})
            = r - touches'[r].number + 1
      BY <1>1, <2>3, <3>1, FirstRowIs
    <3> QED BY <2>3, <3>2
  <2>6. touches[r].number \in 1..r /\ r \in Nat
    BY <2>2, <1>1 DEF Table
  <2>7. q \in 1..r /\ (n # seen[t].number => q < r)
    BY <2>1, <2>2, <2>6
  <2> HIDE DEF q
  <2>8. SameTouch(touches[q], touches'[q]) /\ (n # seen[t].number => touches'[q] = touches[q])
    <3>1. q \in 1..Len(touches) /\ (n # seen[t].number => q < Len(touches))
      BY <1>1, <2>2, <2>7
    <3> QED BY <3>1, RowsOnlyGrow
  <2> DEFINE old == IF n = seen[t].number THEN seen[t].zone ELSE touches[q]
  <2>9. Operand(t, n) = [zone |-> Zone(old), falseBreak |-> FalseBreak(old), wave |-> Wave(touches[q])]
    BY <1>4, <2>4 DEF Operand, q
  <2>10. Wave(touches'[q]) = Wave(touches[q])
    BY <2>8 DEF Wave, SameTouch
  <2> DEFINE new == IF n = seen[t].number THEN seen[t].zone ELSE touches'[q]
  <2>11. new = old
    BY <2>8
  <2> DEFINE now == seen'[t]
             at == Min({s \in DOMAIN touches' : touches'[s].episode = now.episode}) + n - 1
             current == IF n = now.number THEN now.zone ELSE touches'[at]
  <2>12. Operand(t, n)' = [zone |-> Zone(new), falseBreak |-> FalseBreak(new), wave |-> Wave(touches'[q])]
    <3>1. side' = side
      BY <1>1
    <3>2. Operand(t, n)' = IF now = None \/ n \notin 1..now.number THEN None
                           ELSE [zone |-> Zone(current), falseBreak |-> FalseBreak(current),
                                 wave |-> Wave(touches'[at])]
      BY <3>1, Zenon DEF Operand, FirstRow, Zone, FalseBreak, Wave, Upper, Lower, Sign
    <3>3. now = seen[t] /\ at = q
      BY <1>2, <2>5 DEF q
    <3> HIDE DEF now, at
    <3>4. current = new
      BY <3>3 DEF new
    <3> HIDE DEF current
    <3> QED BY <1>4, <3>2, <3>3, <3>4
  <2> HIDE DEF old, new
  <2> QED BY <2>9, <2>10, <2>11, <2>12
<1> QED BY <1>3, <1>4

Past == Core /\ OpenAsPhase /\ SeenInTable

LEMMA PastInit == Init => Past
<1> SUFFICES ASSUME Init PROVE Past
  OBVIOUS
<1>1. Core
  BY CoreInit
<1>2. OpenAsPhase /\ SeenInTable
  BY DEF Init, OpenAsPhase, SeenInTable
<1> QED BY <1>1, <1>2 DEF Past

LEMMA PastStep == Past /\ [Next]_vars => Past'
<1> SUFFICES ASSUME Past, [Next]_vars PROVE Past'
  OBVIOUS
<1>1. Core'
  BY CoreStep DEF Past
<1>2. CASE Next
  <2>1. PICK b \in Candles : Step(b)
    BY <1>2, NextIsStep
  <2> QED BY <1>1, <2>1, OpenStep, SeenStep DEF Past
<1>3. CASE UNCHANGED vars
  BY <1>1, <1>3 DEF vars, Past, OpenAsPhase, OpenRow, SeenInTable
<1> QED BY <1>2, <1>3

\* An operand of a past bar reads the same whatever bars follow it, and what is
\* final never changes again (episode_operand_values, zone_known_at, fb_known_at).
THEOREM PastIsUnchanged == Spec => PastUnchanged
<1> DEFINE Kept ==
      /\ \A t \in DOMAIN seen : \A n \in 1..Len(touches) : Operand(t, n)' = Operand(t, n)
      /\ \A r \in DOMAIN touches :
            LET old == touches[r]
                new == touches'[r]
            IN  /\ Wave(new) = Wave(old)
                /\ old.final => Zone(new) = Zone(old) /\ new.knownAt = old.knownAt
                /\ old.fbFinal => FalseBreak(new) = FalseBreak(old)
                                  /\ new.fbKnownAt = old.fbKnownAt
      /\ \A e \in DOMAIN episodes : episodes[e].end # None => episodes'[e] = episodes[e]
<1>1. ASSUME Past, Next PROVE Kept
  <2>1. PICK b \in Candles : Step(b)
    BY <1>1, NextIsStep
  <2>2. Core /\ OpenAsPhase /\ SeenInTable /\ Control
        /\ DOMAIN seen = 1..Len(seen) /\ DOMAIN touches = 1..Len(touches)
        /\ DOMAIN episodes = 1..Len(episodes)
    BY <1>1 DEF Past, Core, Types
  <2>3. \A t \in DOMAIN seen : \A n \in 1..Len(touches) : Operand(t, n)' = Operand(t, n)
    BY <2>1, <2>2, OperandStays
  <2>4. ASSUME NEW r \in DOMAIN touches
        PROVE  /\ Wave(touches'[r]) = Wave(touches[r])
               /\ touches[r].final => /\ Zone(touches'[r]) = Zone(touches[r])
                                      /\ touches'[r].knownAt = touches[r].knownAt
               /\ touches[r].fbFinal => /\ FalseBreak(touches'[r]) = FalseBreak(touches[r])
                                        /\ touches'[r].fbKnownAt = touches[r].fbKnownAt
    <3>1. /\ SameTouch(touches[r], touches'[r])
          /\ SettledStays(touches[r], touches'[r]) /\ ResolvedStays(touches[r], touches'[r])
      BY <2>1, <2>2, RowsOnlyGrow, FinalStays
    <3>2. Wave(touches'[r]) = Wave(touches[r])
      BY <3>1 DEF SameTouch, Wave
    <3>3. ASSUME touches[r].final
          PROVE  Zone(touches'[r]) = Zone(touches[r]) /\ touches'[r].knownAt = touches[r].knownAt
      BY <3>1, <3>3 DEF SameTouch, SettledStays, SameZone, Zone
    <3>4. ASSUME touches[r].fbFinal
          PROVE  /\ FalseBreak(touches'[r]) = FalseBreak(touches[r])
                 /\ touches'[r].fbKnownAt = touches[r].fbKnownAt
      BY <3>1, <3>4 DEF ResolvedStays, SameFalseBreak, FalseBreak
    <3> QED BY <3>2, <3>3, <3>4
  <2>5. \A e \in DOMAIN episodes : episodes[e].end # None => episodes'[e] = episodes[e]
    <3> SUFFICES ASSUME NEW e \in 1..Len(episodes), episodes[e].end # None
                 PROVE  episodes'[e] = episodes[e]
      BY <2>2
    <3>1. Len(episodes) \in Nat
      BY <2>2 DEF Core, Types
    <3>2. CASE StartEpisode(b)
      BY <2>1, <2>2, <3>2, EpisodesStep
    <3>3. CASE BreakStack(b)
      <4>1. active
        BY <3>3 DEF BreakStack, Breaking
      <4>2. e # Len(episodes)
        BY <2>2, <4>1 DEF Control
      <4>3. e < Len(episodes)
        BY <3>1, <4>2
      <4> QED BY <2>1, <2>2, <3>3, <4>3, EpisodesStep
    <3>4. CASE ~ StartEpisode(b) /\ ~ BreakStack(b)
      BY <2>1, <2>2, <3>4, EpisodesStep
    <3> QED BY <3>2, <3>3, <3>4
  <2> QED BY <2>3, <2>4, <2>5
<1>2. Past /\ [Next]_vars => [Kept]_vars
  BY <1>1
<1>3. PastUnchanged <=> [][Kept]_vars
  BY DEF PastUnchanged
<1> QED BY <1>2, <1>3, PastInit, PastStep, PTL DEF Spec

--------------------------------------------------------------------------------
(* What a step makes of the last row of the touch table. *)

IsSettled(row, new, k) ==
  /\ new.final /\ new.knownAt = k
  /\ SameTouch(row, new) /\ SameZone(row, new) /\ SameFalseBreak(row, new)

IsReached(row, new, k, low, high) ==
  /\ new.end = k /\ new.low = low /\ new.high = high
  /\ new.final = row.final /\ new.knownAt = row.knownAt
  /\ SameTouch(row, new) /\ SameFalseBreak(row, new)

IsRevealed(row, new, k, run, low, high) ==
  /\ new.final /\ new.knownAt = k /\ new.broken
  /\ new.fbStart = k - run + 1 /\ new.fbEnd = k /\ new.fbLow = low /\ new.fbHigh = high
  /\ new.outcome = row.outcome /\ new.fbFinal = row.fbFinal /\ new.fbKnownAt = row.fbKnownAt
  /\ SameTouch(row, new) /\ SameZone(row, new)

\* A false break with one bar more, which may end it.
IsLonger(row, new, k, b) ==
  /\ new.fbEnd = k
  /\ new.fbLow = Least(row.fbLow, b.low) /\ new.fbHigh = Greatest(row.fbHigh, b.high)
  /\ new.final = row.final /\ new.knownAt = row.knownAt
  /\ new.broken = row.broken /\ new.fbStart = row.fbStart
  /\ SameTouch(row, new) /\ SameZone(row, new)

IsOpen(row, new) ==
  new.outcome = row.outcome /\ new.fbFinal = row.fbFinal /\ new.fbKnownAt = row.fbKnownAt

IsResolved(new, k, outcome) == new.outcome = outcome /\ new.fbFinal /\ new.fbKnownAt = k

Open == {"zone", "false_break"}

\* A step by what it does to the rows: nothing is open and nothing opens, ...
Passes == phase \notin Open /\ phase' \notin Open /\ touches' = touches

\* ... a zone goes on without a contact, ...
GoesOn(b) ==
  /\ phase = "zone" /\ phase' = "zone" /\ touches' = touches
  /\ ZoneAbove(b) \/ (ZoneBelow(b) /\ RunOn <= Window)

\* ... or with one, ...
Reaches(b) ==
  /\ phase = "zone" /\ phase' = "zone" /\ ZoneContact(b)
  /\ RowsKept /\ IsReached(OpenRow, OpenRow', Now, span'.low, span'.high)

\* ... a zone becomes final, ...
Settles(b) ==
  /\ phase = "zone"
  /\ (ZoneAbove(b) /\ phase' = "away") \/ (BreakStack(b) /\ phase' = "broken")
  /\ RowsKept /\ IsSettled(OpenRow, OpenRow', Now)

\* ... or is seen to be broken, ...
Reveals(b) ==
  /\ phase = "zone" /\ phase' = "false_break" /\ ZoneBelow(b) /\ RunOn > Window
  /\ RowsKept /\ IsRevealed(OpenRow, OpenRow', Now, RunOn, RunLow(b), RunHigh(b))

\* ... a false break goes on, or ends.
Prolongs(b) ==
  /\ phase = "false_break" /\ phase' = "false_break" /\ FalseBreakBar(b) /\ ~ (b.close > b.anchor)
  /\ RowsKept /\ IsLonger(OpenRow, OpenRow', Now, b) /\ IsOpen(OpenRow, OpenRow')

ComesBack(b) ==
  /\ phase = "false_break" /\ phase' = "away" /\ FalseBreakBar(b) /\ b.close > b.anchor
  /\ RowsKept /\ IsLonger(OpenRow, OpenRow', Now, b) /\ IsResolved(OpenRow', Now, "comeback")

BreaksOff(b) ==
  /\ phase = "false_break" /\ phase' = "broken" /\ BreakStack(b)
  /\ RowsKept /\ IsLonger(OpenRow, OpenRow', Now, b) /\ IsResolved(OpenRow', Now, "stack_break")

LEMMA LastRowStep ==
  ASSUME Core, NEW b \in Candles, Step(b)
  PROVE  \/ Passes \/ OpenZone(b) \/ GoesOn(b) \/ Reaches(b) \/ Settles(b) \/ Reveals(b)
         \/ Prolongs(b) \/ ComesBack(b) \/ BreaksOff(b)
<1>1. Types /\ Control /\ Table /\ touches \in Seq(Rows) /\ Now \in Nat /\ Project(b)
  BY StepFacts DEF Core, Types
<1>2. phase \in Open => Len(touches) > 0 /\ OpenRow \in Rows
  BY <1>1, OpenRowFacts DEF Open
<1>3. CASE Idle(b) \/ StartEpisode(b) \/ StayAway(b)
  BY <1>1, <1>3 DEF Idle, StartEpisode, StayAway, Control, Passes, Open
\* The zone becomes final on this bar.
<1>4. ASSUME phase = "zone", Rewrite(Settled(OpenRow, Now)),
             (ZoneAbove(b) /\ phase' = "away") \/ (BreakStack(b) /\ phase' = "broken")
      PROVE  Settles(b)
  <2> DEFINE new == Settled(OpenRow, Now)
  <2>1. new \in Rows /\ IsSettled(OpenRow, new, Now)
    BY <1>1, <1>2, <1>4, SettledRow DEF Open, IsSettled
  <2>2. Rewrite(new)
    BY <1>4
  <2> HIDE DEF new
  <2>3. RowsKept /\ OpenRow' = new
    BY <1>1, <1>2, <1>4, <2>1, <2>2, RewriteKeeps DEF Open, IsSettled
  <2>4. IsSettled(OpenRow, OpenRow', Now)
    BY <2>1, <2>3, Zenon
  <2> QED BY <1>4, <2>3, <2>4 DEF Settles
\* The false break ends on this bar.
<1>5. ASSUME NEW outcome \in {"comeback", "stack_break"}, phase = "false_break",
             Rewrite(Resolved(WithBar(OpenRow, Now, b), Now, outcome))
      PROVE  /\ RowsKept /\ IsLonger(OpenRow, OpenRow', Now, b)
             /\ IsResolved(OpenRow', Now, outcome)
  <2> DEFINE mid == WithBar(OpenRow, Now, b)
             new == Resolved(mid, Now, outcome)
  <2>1. mid \in Rows /\ IsLonger(OpenRow, mid, Now, b)
    BY <1>1, <1>2, <1>5, WithBarRow DEF Open, IsLonger
  <2>2. outcome \in Outcomes /\ Rewrite(new)
    BY <1>5 DEF Outcomes
  <2> HIDE DEF mid
  <2>3. /\ new \in Rows /\ IsResolved(new, Now, outcome)
        /\ new.final = mid.final /\ new.knownAt = mid.knownAt
        /\ new.broken = mid.broken /\ new.fbStart = mid.fbStart /\ new.fbEnd = mid.fbEnd
        /\ new.fbLow = mid.fbLow /\ new.fbHigh = mid.fbHigh
        /\ SameTouch(mid, new) /\ SameZone(mid, new)
    BY <1>1, <2>1, <2>2, ResolvedRow DEF IsResolved
  <2> HIDE DEF new
  <2>4. IsLonger(OpenRow, new, Now, b)
    BY <2>1, <2>3 DEF IsLonger, SameTouch, SameZone
  <2>5. RowsKept /\ OpenRow' = new
    BY <1>1, <1>2, <1>5, <2>2, <2>3, <2>4, RewriteKeeps DEF Open, IsLonger
  <2> QED BY <2>3, <2>4, <2>5, Zenon
<1>6. CASE BreakStack(b)
  <2>1. phase' = "broken"
    BY <1>6 DEF BreakStack
  <2>2. CASE phase = "zone"
    BY <1>4, <1>6, <2>1, <2>2, BreakStackRows
  <2>3. CASE phase = "false_break"
    BY <1>5, <1>6, <2>1, <2>3, BreakStackRows DEF BreaksOff
  <2>4. CASE phase \notin Open
    BY <1>6, <2>1, <2>4, BreakStackRows DEF Passes, Open
  <2> QED BY <2>2, <2>3, <2>4 DEF Open
<1>7. CASE ZoneAbove(b)
  <2>1. phase = "zone"
    BY <1>7 DEF ZoneAbove, InZone
  <2>2. CASE Now - span.contact > Window
    BY <1>4, <1>7, <2>1, <2>2, ZoneAboveRows
  <2>3. CASE ~ (Now - span.contact > Window)
    BY <1>7, <2>1, <2>3, ZoneAboveRows DEF GoesOn
  <2> QED BY <2>2, <2>3
<1>8. CASE ZoneBelow(b)
  <2>1. phase = "zone"
    BY <1>8 DEF ZoneBelow, InZone
  <2>2. RunOn \in 1..Now /\ RunLow(b) \in Int /\ RunHigh(b) \in Int
    BY <1>1, StepFacts, SpanSteps
  <2>3. CASE RunOn > Window
    <3> DEFINE new == Revealed(OpenRow, Now, RunOn, RunLow(b), RunHigh(b))
    <3>1. new \in Rows /\ IsRevealed(OpenRow, new, Now, RunOn, RunLow(b), RunHigh(b))
      BY <1>1, <1>2, <2>1, <2>2, RevealedRow DEF Open, IsRevealed
    <3>2. Rewrite(new) /\ phase' = "false_break"
      BY <1>8, <2>3, ZoneBelowRows
    <3> HIDE DEF new
    <3>3. RowsKept /\ OpenRow' = new
      BY <1>1, <1>2, <2>1, <3>1, <3>2, RewriteKeeps DEF Open, IsRevealed
    <3>4. IsRevealed(OpenRow, OpenRow', Now, RunOn, RunLow(b), RunHigh(b))
      BY <3>1, <3>3, Zenon
    <3> QED BY <1>8, <2>1, <2>3, <3>2, <3>3, <3>4 DEF Reveals
  <2>4. CASE ~ (RunOn > Window)
    <3>1. RunOn <= Window
      BY <2>2, <2>4, LengthsAreNat
    <3> QED BY <1>8, <2>1, <2>4, <3>1, ZoneBelowRows DEF GoesOn
  <2> QED BY <2>3, <2>4
<1>9. CASE ZoneContact(b)
  <2>1. phase = "zone" /\ phase' = phase
    BY <1>9 DEF ZoneContact, InZone
  <2> DEFINE new == Reached(OpenRow, Now, span'.low, span'.high)
  <2>2. span'.low \in Int /\ span'.high \in Int
    BY SpanStep DEF Spans
  <2>3. new \in Rows /\ IsReached(OpenRow, new, Now, span'.low, span'.high)
    BY <1>1, <1>2, <2>1, <2>2, ReachedRow DEF Open, IsReached
  <2>4. Rewrite(new)
    BY <1>9, ZoneContactRows
  <2> HIDE DEF new
  <2>5. RowsKept /\ OpenRow' = new
    BY <1>1, <1>2, <2>1, <2>3, <2>4, RewriteKeeps DEF Open, IsReached
  <2>6. IsReached(OpenRow, OpenRow', Now, span'.low, span'.high)
    BY <2>3, <2>5, Zenon
  <2> QED BY <1>9, <2>1, <2>5, <2>6 DEF Reaches
<1>10. CASE FalseBreakBar(b)
  <2>1. phase = "false_break"
    BY <1>10 DEF FalseBreakBar
  <2>2. CASE b.close > b.anchor
    BY <1>5, <1>10, <2>1, <2>2, FalseBreakBarRows DEF ComesBack
  <2>3. CASE ~ (b.close > b.anchor)
    <3> DEFINE new == WithBar(OpenRow, Now, b)
    <3>1. new \in Rows /\ IsLonger(OpenRow, new, Now, b) /\ IsOpen(OpenRow, new)
      BY <1>1, <1>2, <2>1, WithBarRow DEF Open, IsLonger, IsOpen
    <3>2. Rewrite(new) /\ phase' = "false_break"
      BY <1>10, <2>1, <2>3, FalseBreakBarRows
    <3> HIDE DEF new
    <3>3. RowsKept /\ OpenRow' = new
      BY <1>1, <1>2, <2>1, <3>1, <3>2, RewriteKeeps DEF Open, IsLonger
    <3>4. IsLonger(OpenRow, OpenRow', Now, b) /\ IsOpen(OpenRow, OpenRow')
      BY <3>1, <3>3, Zenon
    <3> QED BY <1>10, <2>1, <2>3, <3>2, <3>3, <3>4 DEF Prolongs
  <2> QED BY <2>2, <2>3
<1> QED BY <1>1, <1>3, <1>6, <1>7, <1>8, <1>9, <1>10 DEF Project

--------------------------------------------------------------------------------
(* Zones and false breaks against the history. *)

\* A zone starts on an approach from above, ends on its last contact so far and
\* has the extremes of all that lies between; no contact before it was final is
\* left out.
ZoneOK(h, row) ==
  /\ row.start \in 2..Len(h) /\ Above(h[row.start - 1]) /\ Contact(h[row.start])
  /\ row.end \in row.start..Len(h) /\ Contact(h[row.end])
  /\ Top(h, row.start, row.end, row.high) /\ Bottom(h, row.start, row.end, row.low)
  /\ row.final => /\ row.knownAt \in row.end + 1..Len(h)
                  /\ NoContact(h, row.end + 1, row.knownAt - 1)

\* The run below the anchor at the end of the history, with its extremes.
RunOK(h, end, s) ==
  /\ s.run \in 0..Len(h) - end
  /\ AllBelow(h, Len(h) - s.run + 1, Len(h)) /\ ~ Below(h[Len(h) - s.run])
  /\ s.run > 0 => /\ Top(h, Len(h) - s.run + 1, Len(h), s.runHigh)
                  /\ Bottom(h, Len(h) - s.run + 1, Len(h), s.runLow)

\* An open zone: its running extremes reach the last bar, though its row ends on
\* the last contact.
OpenZoneOK(h, row, s) ==
  /\ Top(h, row.start, Len(h), s.high) /\ Bottom(h, row.start, Len(h), s.low)
  /\ NoContact(h, row.end + 1, Len(h))
  /\ RunOK(h, row.end, s)

FalseBreakOK(h, row) ==
  row.broken =>
    /\ row.final /\ row.fbStart \in row.end + 1..Len(h)
    /\ row.knownAt = row.fbStart + Window /\ row.fbEnd \in row.knownAt..Len(h)
    /\ Top(h, row.fbStart, row.fbEnd, row.fbHigh)
    /\ Bottom(h, row.fbStart, row.fbEnd, row.fbLow)
    /\ AllBelow(h, row.fbStart, row.knownAt) /\ ~ Below(h[row.fbStart - 1])
    /\ \A k \in row.knownAt..row.fbEnd - 1 : h[k].close <= h[k].anchor
    /\ ~ row.fbFinal => /\ row.outcome = None /\ row.fbKnownAt = None
                        /\ h[row.fbEnd].close <= h[row.fbEnd].anchor
    /\ row.fbFinal => row.outcome \in {"comeback", "stack_break"} /\ row.fbKnownAt = row.fbEnd
    /\ row.outcome = "comeback" => h[row.fbEnd].close > h[row.fbEnd].anchor

\* Nothing more happens to the zone or to its false break.
Closed(row) == row.final /\ (row.broken => row.fbFinal)

Ranges ==
  /\ \A r \in 1..Len(touches) :
        /\ ZoneOK(hist, touches[r]) /\ FalseBreakOK(hist, touches[r])
        /\ r < Len(touches) \/ phase \notin Open => Closed(touches[r])
  /\ phase = "zone" => OpenZoneOK(hist, OpenRow, span) /\ OpenRow.outcome = None
                       /\ OpenRow.fbKnownAt = None
  /\ phase = "false_break" => OpenRow.fbEnd = Len(hist)

\* What is known of a row stays true of it as the history goes on.
LEMMA ZoneOKStays ==
  ASSUME NEW h, NEW g, NEW b, Longer(h, g, b), NEW row \in Rows, ZoneOK(h, row)
  PROVE  ZoneOK(g, row)
<1>1. Len(h) \in Nat /\ Len(g) = Len(h) + 1 /\ \A k \in 1..Len(h) : g[k] = h[k]
  BY DEF Longer
<1>2. row.start \in Nat /\ row.end \in Nat
  BY DEF Rows
<1>3. row.start \in 2..Len(h) /\ row.end \in row.start..Len(h)
  BY DEF ZoneOK
<1>4. /\ row.start \in 1..Len(h) + 1 /\ row.end \in 0..Len(h) /\ row.end \in 1..Len(h)
      /\ row.start \in 1..Len(h) /\ row.start - 1 \in 1..Len(h) /\ row.end + 1 \in 1..Len(h) + 1
  BY <1>1, <1>2, <1>3
<1>5. Top(g, row.start, row.end, row.high) /\ Bottom(g, row.start, row.end, row.low)
  BY <1>4, StretchKept DEF ZoneOK
<1>6. Above(g[row.start - 1]) /\ Contact(g[row.start]) /\ Contact(g[row.end])
  BY <1>1, <1>4 DEF ZoneOK
<1>7. ASSUME row.final
      PROVE  row.knownAt \in row.end + 1..Len(g) /\ NoContact(g, row.end + 1, row.knownAt - 1)
  <2>1. row.knownAt \in row.end + 1..Len(h) /\ NoContact(h, row.end + 1, row.knownAt - 1)
    BY <1>7 DEF ZoneOK
  <2>2. row.knownAt - 1 \in 0..Len(h) /\ row.knownAt \in row.end + 1..Len(g)
    BY <1>1, <1>2, <2>1
  <2> QED BY <1>4, <2>1, <2>2, StretchKept
<1>8. row.start \in 2..Len(g) /\ row.end \in row.start..Len(g)
  BY <1>1, <1>2, <1>3
<1> QED BY <1>5, <1>6, <1>7, <1>8 DEF ZoneOK

LEMMA FalseBreakOKStays ==
  ASSUME NEW h, NEW g, NEW b, Longer(h, g, b), NEW row \in Rows,
         ZoneOK(h, row), FalseBreakOK(h, row)
  PROVE  FalseBreakOK(g, row)
<1> SUFFICES ASSUME row.broken PROVE FalseBreakOK(g, row)
  BY DEF FalseBreakOK
<1>1. Len(h) \in Nat /\ Len(g) = Len(h) + 1 /\ \A k \in 1..Len(h) : g[k] = h[k]
  BY DEF Longer
<1>2. row.end \in Nat /\ row.end >= 2
  BY DEF Rows, ZoneOK
<1>3. /\ row.fbStart \in row.end + 1..Len(h) /\ row.fbEnd \in row.knownAt..Len(h)
      /\ row.knownAt = row.fbStart + Window /\ Window \in Nat
  BY LengthsAreNat DEF FalseBreakOK
<1>4. /\ row.fbStart \in 1..Len(h) + 1 /\ row.fbEnd \in 0..Len(h) /\ row.fbEnd \in 1..Len(h)
      /\ row.fbStart - 1 \in 1..Len(h) /\ row.knownAt \in 0..Len(h) /\ row.knownAt \in 1..Len(h)
      /\ row.fbStart \in row.end + 1..Len(g) /\ row.fbEnd \in row.knownAt..Len(g)
  <2>1. row.fbStart \in Nat /\ row.fbStart >= 3 /\ row.fbStart <= Len(h)
    BY <1>1, <1>2, <1>3
  <2>2. row.knownAt \in Nat /\ row.knownAt >= row.fbStart
    BY <1>3, <2>1
  <2>3. row.fbEnd \in Nat /\ row.knownAt <= row.fbEnd /\ row.fbEnd <= Len(h)
    BY <1>3, <2>2
  <2>4. row.fbStart \in row.end + 1..Len(g)
    BY <1>1, <1>2, <1>3
  <2> QED BY <1>1, <2>1, <2>2, <2>3, <2>4
<1>5. /\ Top(g, row.fbStart, row.fbEnd, row.fbHigh)
      /\ Bottom(g, row.fbStart, row.fbEnd, row.fbLow)
      /\ AllBelow(g, row.fbStart, row.knownAt)
  BY <1>4, StretchKept DEF FalseBreakOK
<1>6. ~ Below(g[row.fbStart - 1]) /\ g[row.fbEnd] = h[row.fbEnd]
  BY <1>1, <1>4 DEF FalseBreakOK
<1>7. \A k \in row.knownAt..row.fbEnd - 1 : g[k].close <= g[k].anchor
  <2>1. \A k \in row.knownAt..row.fbEnd - 1 : k \in 1..Len(h)
    BY <1>1, <1>4
  <2> QED BY <1>1, <2>1 DEF FalseBreakOK
<1> QED BY <1>3, <1>4, <1>5, <1>6, <1>7 DEF FalseBreakOK

\* The open zone with one bar more, which does not touch the anchor.
LEMMA RunGrows ==
  ASSUME NEW h, NEW g, NEW b, Longer(h, g, b), NEW end \in 1..Len(h), NEW s \in Spans,
         RunOK(h, end, s), NEW t \in Spans,
         \/ ~ Below(b) /\ t.run = 0
         \/ /\ Below(b) /\ t.run = s.run + 1
            /\ t.runLow = IF t.run = 1 THEN b.low ELSE Least(s.runLow, b.low)
            /\ t.runHigh = IF t.run = 1 THEN b.high ELSE Greatest(s.runHigh, b.high)
  PROVE  RunOK(g, end, t)
<1>1. Len(h) \in Nat /\ Len(g) = Len(h) + 1 /\ g[Len(g)] = b /\ \A k \in 1..Len(h) : g[k] = h[k]
  BY DEF Longer
<1>2. s.run \in Nat /\ t.run \in Nat /\ s.runLow \in Int /\ s.runHigh \in Int
  BY DEF Spans
<1>3. s.run \in 0..Len(h) - end /\ end \in Nat /\ end >= 1
  BY <1>1 DEF RunOK
<1>4. CASE ~ Below(b) /\ t.run = 0
  <2>1. AllBelow(g, Len(g) - t.run + 1, Len(g))
    BY <1>1, <1>4 DEF AllBelow
  <2>2. ~ Below(g[Len(g) - t.run]) /\ t.run \in 0..Len(g) - end
    BY <1>1, <1>3, <1>4
  <2> QED BY <1>4, <2>1, <2>2 DEF RunOK
<1>5. CASE /\ Below(b) /\ t.run = s.run + 1
           /\ t.runLow = IF t.run = 1 THEN b.low ELSE Least(s.runLow, b.low)
           /\ t.runHigh = IF t.run = 1 THEN b.high ELSE Greatest(s.runHigh, b.high)
  <2> DEFINE first == Len(h) - s.run + 1
  <2>1. /\ first \in Nat /\ Len(g) - t.run + 1 = first /\ Len(g) - t.run = Len(h) - s.run
        /\ Len(h) - s.run \in 1..Len(h) /\ first \in 1..Len(h) + 1 /\ t.run \in 0..Len(g) - end
        /\ Len(h) \in 0..Len(h)
    <3>1. /\ t.run = s.run + 1 /\ s.run \in Nat /\ end \in Nat /\ end >= 1
          /\ Len(h) \in Nat /\ Len(g) = Len(h) + 1
      BY <1>1, <1>2, <1>3, <1>5
    <3>2. s.run <= Len(h) - end
      BY <1>3, <3>1
    <3>3. first \in Nat /\ Len(g) - t.run + 1 = first /\ Len(g) - t.run = Len(h) - s.run
      BY <3>1, <3>2
    <3>4. Len(h) - s.run \in 1..Len(h) /\ first \in 1..Len(h) + 1 /\ Len(h) \in 0..Len(h)
      BY <3>1, <3>2
    <3>5. t.run \in 0..Len(g) - end
      BY <3>1, <3>2
    <3> QED BY <3>3, <3>4, <3>5
  <2>2. ~ Below(g[Len(g) - t.run])
    BY <1>1, <2>1 DEF RunOK
  <2>3. AllBelow(g, first, Len(g))
    <3>1. AllBelow(g, first, Len(h))
      BY <2>1, StretchKept DEF RunOK
    <3>2. \A k \in first..Len(g) : k \in first..Len(h) \/ k = Len(g)
      BY <1>1, <2>1, SMTT(30)
    <3> QED BY <1>1, <1>5, <3>1, <3>2 DEF AllBelow
  <2>4. Top(g, first, Len(g), t.runHigh) /\ Bottom(g, first, Len(g), t.runLow)
    <3>1. CASE s.run = 0
      <4>1. first = Len(g) /\ t.runHigh = b.high /\ t.runLow = b.low
        BY <1>1, <1>5, <3>1
      <4> QED BY <4>1, LastAlone
    <3>2. CASE s.run > 0
      <4>1. first \in 1..Len(h) /\ t.run # 1
        BY <1>1, <1>2, <1>3, <1>5, <3>2
      <4>2. Top(h, first, Len(h), s.runHigh) /\ Bottom(h, first, Len(h), s.runLow)
        BY <3>2 DEF RunOK
      <4>3. t.runHigh = Greatest(s.runHigh, b.high) /\ t.runLow = Least(s.runLow, b.low)
        BY <1>5, <4>1
      <4> HIDE DEF first
      <4> QED BY <1>2, <4>1, <4>2, <4>3, TopGrows, BottomGrows
    <3> QED BY <1>2, <3>1, <3>2
  <2> HIDE DEF first
  <2> QED BY <2>1, <2>2, <2>3, <2>4 DEF RunOK
<1> QED BY <1>4, <1>5

LEMMA OpenZoneGrows ==
  ASSUME NEW h, NEW g, NEW b, Longer(h, g, b), NEW row \in Rows, ZoneOK(h, row),
         NEW s \in Spans, OpenZoneOK(h, row, s), NEW t \in Spans,
         t.low = Least(s.low, b.low), t.high = Greatest(s.high, b.high), ~ Contact(b),
         \/ ~ Below(b) /\ t.run = 0
         \/ /\ Below(b) /\ t.run = s.run + 1
            /\ t.runLow = IF t.run = 1 THEN b.low ELSE Least(s.runLow, b.low)
            /\ t.runHigh = IF t.run = 1 THEN b.high ELSE Greatest(s.runHigh, b.high)
  PROVE  OpenZoneOK(g, row, t)
<1>1. Len(h) \in Nat /\ Len(g) = Len(h) + 1 /\ g[Len(g)] = b
  BY DEF Longer
<1>2. /\ row.start \in 1..Len(h) /\ row.end \in 1..Len(h) /\ row.end + 1 \in 1..Len(h) + 1
      /\ Len(h) \in 0..Len(h)
  <2>1. row.start \in 2..Len(h) /\ row.end \in row.start..Len(h)
    BY DEF ZoneOK
  <2> QED BY <1>1, <2>1
<1>3. s.low \in Int /\ s.high \in Int
  BY DEF Spans
<1>4. Top(g, row.start, Len(g), t.high) /\ Bottom(g, row.start, Len(g), t.low)
  BY <1>2, <1>3, TopGrows, BottomGrows DEF OpenZoneOK
<1>5. NoContact(g, row.end + 1, Len(g))
  <2>1. NoContact(g, row.end + 1, Len(h))
    BY <1>2, StretchKept DEF OpenZoneOK
  <2>2. \A k \in row.end + 1..Len(g) : k \in row.end + 1..Len(h) \/ k = Len(g)
    BY <1>1, <1>2
  <2> QED BY <1>1, <2>1, <2>2 DEF NoContact
<1>6. RunOK(g, row.end, t)
  BY <1>2, RunGrows DEF OpenZoneOK
<1> QED BY <1>4, <1>5, <1>6 DEF OpenZoneOK

--------------------------------------------------------------------------------
(* Each rewriting of the last row, on a history one bar longer. *)

LEMMA ZoneOKSame ==
  ASSUME NEW h, NEW row, NEW new, ZoneOK(h, row), SameTouch(row, new), SameZone(row, new),
         new.final => /\ new.knownAt \in row.end + 1..Len(h)
                      /\ NoContact(h, row.end + 1, new.knownAt - 1)
  PROVE  ZoneOK(h, new)
BY DEF ZoneOK, SameTouch, SameZone

LEMMA SettledOK ==
  ASSUME NEW h, NEW g, NEW b, Longer(h, g, b), NEW row \in Rows, NEW new,
         ZoneOK(h, row), NEW s, OpenZoneOK(h, row, s), ~ row.broken,
         IsSettled(row, new, Len(g))
  PROVE  ZoneOK(g, new) /\ FalseBreakOK(g, new) /\ Closed(new)
<1>1. ~ new.broken /\ new.final
  BY DEF IsSettled, SameFalseBreak
<1>2. FalseBreakOK(g, new) /\ Closed(new)
  BY <1>1 DEF FalseBreakOK, Closed
<1>3. ZoneOK(g, row)
  BY ZoneOKStays
<1>4. Len(h) \in Nat /\ Len(g) = Len(h) + 1 /\ row.end \in 1..Len(h)
  <2>1. Len(h) \in Nat /\ Len(g) = Len(h) + 1
    BY DEF Longer
  <2>2. row.start \in 2..Len(h) /\ row.end \in row.start..Len(h)
    BY DEF ZoneOK
  <2> QED BY <2>1, <2>2
<1>5. new.knownAt = Len(g) /\ new.knownAt - 1 = Len(h) /\ new.knownAt \in row.end + 1..Len(g)
  BY <1>4 DEF IsSettled
<1>6. NoContact(g, row.end + 1, Len(h))
  <2>1. row.end + 1 \in 1..Len(h) + 1 /\ Len(h) \in 0..Len(h)
    BY <1>4
  <2> QED BY <2>1, StretchKept DEF OpenZoneOK
<1>7. ZoneOK(g, new)
  BY <1>3, <1>5, <1>6, ZoneOKSame DEF IsSettled
<1> QED BY <1>2, <1>7

LEMMA ReachedOK ==
  ASSUME NEW h, NEW g, NEW b, Longer(h, g, b), Contact(b), NEW row \in Rows, NEW new,
         ZoneOK(h, row), ~ row.final, ~ row.broken,
         NEW s \in Spans, OpenZoneOK(h, row, s), NEW t,
         t.low = Least(s.low, b.low), t.high = Greatest(s.high, b.high), t.run = 0,
         IsReached(row, new, Len(g), t.low, t.high)
  PROVE  ZoneOK(g, new) /\ FalseBreakOK(g, new) /\ OpenZoneOK(g, new, t)
<1>1. Len(h) \in Nat /\ Len(g) = Len(h) + 1 /\ g[Len(g)] = b
  BY DEF Longer
<1>2. /\ row.start \in 2..Len(h) /\ Above(h[row.start - 1]) /\ Contact(h[row.start])
      /\ row.start \in 1..Len(h)
  BY <1>1 DEF ZoneOK
<1>3. /\ new.start = row.start /\ new.end = Len(g) /\ new.high = t.high /\ new.low = t.low
      /\ ~ new.final /\ ~ new.broken
  BY DEF IsReached, SameTouch, SameFalseBreak
<1>4. Top(g, new.start, Len(g), t.high) /\ Bottom(g, new.start, Len(g), t.low)
  <2>1. s.low \in Int /\ s.high \in Int
    BY DEF Spans
  <2> QED BY <1>2, <1>3, <2>1, TopGrows, BottomGrows DEF OpenZoneOK
<1>5. g[row.start - 1] = h[row.start - 1] /\ g[row.start] = h[row.start]
  <2>1. row.start \in 1..Len(h) /\ row.start - 1 \in 1..Len(h)
    BY <1>1, <1>2
  <2> QED BY <2>1 DEF Longer
<1>6. ZoneOK(g, new)
  <2>1. new.start \in 2..Len(g) /\ Len(g) \in new.start..Len(g)
    BY <1>1, <1>2, <1>3
  <2> QED BY <1>1, <1>2, <1>3, <1>4, <1>5, <2>1 DEF ZoneOK
<1>7. OpenZoneOK(g, new, t)
  <2>1. NoContact(g, new.end + 1, Len(g))
    BY <1>1, <1>3 DEF NoContact
  <2>2. RunOK(g, new.end, t)
    <3>1. ~ Below(g[Len(g) - t.run]) /\ t.run \in 0..Len(g) - new.end
      BY <1>1, <1>3 DEF Contact
    <3>2. AllBelow(g, Len(g) - t.run + 1, Len(g))
      BY <1>1 DEF AllBelow
    <3> QED BY <3>1, <3>2 DEF RunOK
  <2> QED BY <1>4, <2>1, <2>2 DEF OpenZoneOK
<1> QED BY <1>3, <1>6, <1>7 DEF FalseBreakOK

\* The zone is seen to be broken on the last bar of g.
LEMMA RevealedOK ==
  ASSUME NEW g \in Seq(Candles), Len(g) \in Nat, Below(g[Len(g)]), NEW row \in Rows, NEW new,
         ZoneOK(g, row), ~ row.fbFinal, row.outcome = None, row.fbKnownAt = None,
         NEW s, OpenZoneOK(g, row, s), s.run = Window + 1,
         IsRevealed(row, new, Len(g), s.run, s.runLow, s.runHigh)
  PROVE  ZoneOK(g, new) /\ FalseBreakOK(g, new)
<1>1. Window \in Nat /\ s.run \in Nat /\ s.run > 0
  BY LengthsAreNat
<1>2. s.run \in 0..Len(g) - row.end
  BY DEF OpenZoneOK, RunOK
<1>3. row.end \in Nat /\ row.end >= 2 /\ row.end \in 1..Len(g)
  <2>1. row.start \in 2..Len(g) /\ row.end \in row.start..Len(g)
    BY DEF ZoneOK
  <2> QED BY <2>1
<1>4. /\ new.final /\ new.broken /\ new.knownAt = Len(g) /\ new.fbEnd = Len(g)
      /\ new.fbStart = Len(g) - s.run + 1 /\ new.fbHigh = s.runHigh /\ new.fbLow = s.runLow
      /\ ~ new.fbFinal /\ new.outcome = None /\ new.fbKnownAt = None /\ new.end = row.end
  BY DEF IsRevealed, SameZone
<1>5. /\ new.knownAt \in row.end + 1..Len(g) /\ new.fbStart \in row.end + 1..Len(g)
      /\ new.fbStart - 1 = Len(g) - s.run /\ new.knownAt = new.fbStart + Window
      /\ new.fbEnd \in new.knownAt..Len(g)
  BY <1>1, <1>2, <1>3, <1>4
<1>6. NoContact(g, row.end + 1, Len(g) - 1)
  <2>1. \A k \in row.end + 1..Len(g) - 1 : k \in row.end + 1..Len(g)
    BY <1>3
  <2> QED BY <2>1 DEF OpenZoneOK, NoContact
<1>7. ZoneOK(g, new)
  BY <1>4, <1>5, <1>6, ZoneOKSame DEF IsRevealed
<1>8. /\ Top(g, new.fbStart, new.fbEnd, new.fbHigh) /\ Bottom(g, new.fbStart, new.fbEnd, new.fbLow)
      /\ AllBelow(g, new.fbStart, new.knownAt) /\ ~ Below(g[new.fbStart - 1])
  BY <1>1, <1>4, <1>5 DEF OpenZoneOK, RunOK
<1>9. g[Len(g)].close <= g[Len(g)].anchor
  <2>1. Len(g) \in 1..Len(g)
    BY <1>3
  <2> QED BY <2>1, CandleAt DEF Below
<1>10. \A k \in new.knownAt..new.fbEnd - 1 : FALSE
  BY <1>4
<1> QED BY <1>4, <1>5, <1>7, <1>8, <1>9, <1>10, NoneIsApart DEF FalseBreakOK

LEMMA LongerOK ==
  ASSUME NEW h, NEW g, NEW b, Longer(h, g, b), NEW row \in Rows, NEW new,
         ZoneOK(h, row), FalseBreakOK(h, row), row.broken, ~ row.fbFinal, row.fbEnd = Len(h),
         IsLonger(row, new, Len(g), b),
         \/ IsOpen(row, new) /\ ~ (b.close > b.anchor)
         \/ IsResolved(new, Len(g), "comeback") /\ b.close > b.anchor
         \/ IsResolved(new, Len(g), "stack_break")
  PROVE  ZoneOK(g, new) /\ FalseBreakOK(g, new)
<1>1. Len(h) \in Nat /\ Len(g) = Len(h) + 1 /\ g[Len(g)] = b /\ \A k \in 1..Len(h) : g[k] = h[k]
  BY DEF Longer
<1>2. ZoneOK(g, row) /\ FalseBreakOK(g, row)
  BY ZoneOKStays, FalseBreakOKStays
<1>3. /\ new.final = row.final /\ new.knownAt = row.knownAt /\ new.broken
      /\ new.fbStart = row.fbStart /\ new.fbEnd = Len(g) /\ new.end = row.end
      /\ new.fbLow = Least(row.fbLow, b.low) /\ new.fbHigh = Greatest(row.fbHigh, b.high)
  BY DEF IsLonger, SameZone
<1>4. ZoneOK(g, new)
  <2>1. row.final => /\ row.knownAt \in row.end + 1..Len(g)
                     /\ NoContact(g, row.end + 1, row.knownAt - 1)
    BY <1>2 DEF ZoneOK
  <2> QED BY <1>2, <1>3, <2>1, ZoneOKSame DEF IsLonger
<1>5. /\ row.final /\ row.fbStart \in row.end + 1..Len(h) /\ row.knownAt = row.fbStart + Window
      /\ Len(h) \in row.knownAt..Len(h) /\ row.end \in Nat /\ Window \in Nat
  BY LengthsAreNat DEF FalseBreakOK, Rows
<1>6. /\ row.fbStart \in 1..Len(h) /\ row.knownAt \in 1..Len(h)
      /\ new.fbEnd \in new.knownAt..Len(g) /\ new.fbStart \in new.end + 1..Len(g)
  BY <1>1, <1>3, <1>5
<1>7. Top(g, new.fbStart, new.fbEnd, new.fbHigh) /\ Bottom(g, new.fbStart, new.fbEnd, new.fbLow)
  <2>1. Top(h, row.fbStart, Len(h), row.fbHigh) /\ Bottom(h, row.fbStart, Len(h), row.fbLow)
    BY DEF FalseBreakOK
  <2>2. row.fbHigh \in Int /\ row.fbLow \in Int
    <3>1. \A k \in row.fbStart..Len(h) : h[k].high \in Int /\ h[k].low \in Int
      <4>1. \A k \in row.fbStart..Len(h) : k \in 1..Len(h)
        BY <1>1, <1>6
      <4> QED BY <4>1, CandleAt DEF Longer
    <3> QED BY <2>1, <3>1 DEF Top, Bottom
  <2> QED BY <1>3, <1>6, <2>1, <2>2, TopGrows, BottomGrows
<1>8. AllBelow(g, new.fbStart, new.knownAt) /\ ~ Below(g[new.fbStart - 1])
  BY <1>2, <1>3 DEF FalseBreakOK
<1>9. \A k \in new.knownAt..new.fbEnd - 1 : g[k].close <= g[k].anchor
  <2>1. \A k \in row.knownAt..Len(h) : k \in 1..Len(h)
    BY <1>1, <1>6
  <2>2. \A k \in row.knownAt..Len(h) : k \in row.knownAt..Len(h) - 1 \/ k = Len(h)
    BY <1>1, <1>6
  <2>3. \A k \in row.knownAt..Len(h) : h[k].close <= h[k].anchor
    BY <2>2 DEF FalseBreakOK
  <2>4. new.fbEnd - 1 = Len(h)
    BY <1>1, <1>3
  <2> QED BY <1>1, <1>3, <2>1, <2>3, <2>4
<1>10. /\ ~ new.fbFinal => /\ new.outcome = None /\ new.fbKnownAt = None
                           /\ g[new.fbEnd].close <= g[new.fbEnd].anchor
       /\ new.fbFinal => new.outcome \in {"comeback", "stack_break"} /\ new.fbKnownAt = new.fbEnd
       /\ new.outcome = "comeback" => g[new.fbEnd].close > g[new.fbEnd].anchor
  <2>1. g[new.fbEnd] = b /\ b.close \in Int /\ b.anchor \in Int
    BY <1>1, <1>3, CandleFacts DEF Longer
  <2>2. CASE IsOpen(row, new) /\ ~ (b.close > b.anchor)
    <3>1. ~ new.fbFinal /\ new.outcome = None /\ new.fbKnownAt = None
      BY <2>2 DEF IsOpen, FalseBreakOK
    <3> QED BY <2>1, <2>2, <3>1, NoneIsApart
  <2>3. CASE IsResolved(new, Len(g), "comeback") /\ b.close > b.anchor
    BY <1>3, <2>1, <2>3 DEF IsResolved
  <2>4. CASE IsResolved(new, Len(g), "stack_break")
    BY <1>3, <2>4 DEF IsResolved
  <2> QED BY <2>2, <2>3, <2>4
<1>11. new.final /\ new.knownAt = new.fbStart + Window
  BY <1>3, <1>5
<1> QED BY <1>4, <1>6, <1>7, <1>8, <1>9, <1>10, <1>11 DEF FalseBreakOK

LEMMA NewRowOK ==
  ASSUME NEW h, NEW g, NEW b, Longer(h, g, b), Len(h) = Len(bars), Len(h) > 0,
         Above(h[Len(h)]), Contact(b),
         NEW s, s.low = b.low, s.high = b.high, s.run = 0
  PROVE  /\ ZoneOK(g, NewRow(b)) /\ FalseBreakOK(g, NewRow(b))
         /\ OpenZoneOK(g, NewRow(b), s)
<1> DEFINE new == NewRow(b)
<1>1. Len(h) \in Nat /\ Len(g) = Len(h) + 1 /\ g[Len(g)] = b /\ Now = Len(g)
      /\ g[Len(h)] = h[Len(h)]
  <2>1. Len(h) \in Nat /\ Len(g) = Len(h) + 1 /\ g[Len(g)] = b /\ \A k \in 1..Len(h) : g[k] = h[k]
    BY DEF Longer
  <2>2. Len(h) \in 1..Len(h)
    BY <2>1
  <2> QED BY <2>1, <2>2 DEF Now
<1>2. /\ new.start = Now /\ new.end = Now /\ new.high = b.high /\ new.low = b.low
      /\ ~ new.final /\ ~ new.broken
  BY DEF NewRow
<1> HIDE DEF new
<1>3. Top(g, Len(g), Len(g), b.high) /\ Bottom(g, Len(g), Len(g), b.low)
  BY LastAlone
<1>4. ZoneOK(g, new)
  <2>1. Len(g) \in 2..Len(g) /\ Len(g) \in Len(g)..Len(g) /\ Len(g) - 1 = Len(h)
    BY <1>1
  <2> QED BY <1>1, <1>2, <1>3, <2>1 DEF ZoneOK
<1>5. OpenZoneOK(g, new, s)
  <2>1. NoContact(g, new.end + 1, Len(g))
    BY <1>1, <1>2 DEF NoContact
  <2>2. RunOK(g, new.end, s)
    <3>1. ~ Below(g[Len(g) - s.run]) /\ s.run \in 0..Len(g) - new.end
      BY <1>1, <1>2 DEF Contact
    <3>2. AllBelow(g, Len(g) - s.run + 1, Len(g))
      BY <1>1 DEF AllBelow
    <3> QED BY <3>1, <3>2 DEF RunOK
  <2> QED BY <1>1, <1>2, <1>3, <2>1, <2>2 DEF OpenZoneOK
<1>6. FalseBreakOK(g, new)
  BY <1>2 DEF FalseBreakOK
<1> QED BY <1>4, <1>5, <1>6 DEF new

--------------------------------------------------------------------------------
(* The invariant. *)

RowRanges ==
  \A r \in 1..Len(touches) :
     /\ ZoneOK(hist, touches[r]) /\ FalseBreakOK(hist, touches[r])
     /\ r < Len(touches) \/ phase \notin Open => Closed(touches[r])

\* The open row rewritten as it should be, the others stay as they are.
LEMMA RewrittenRanges ==
  ASSUME Core, RowRanges, NEW b \in Candles, Step(b), phase \in Open, RowsKept,
         ZoneOK(hist', OpenRow'), FalseBreakOK(hist', OpenRow'),
         phase' \notin Open => Closed(OpenRow')
  PROVE  RowRanges'
<1>1. Len(touches) \in Nat /\ touches \in Seq(Rows) /\ Longer(hist, hist', b)
      /\ Len(touches') = Len(touches)
  BY StepFacts DEF Core, Types, RowsKept
<1> SUFFICES ASSUME NEW r \in 1..Len(touches)
             PROVE  /\ ZoneOK(hist', touches'[r]) /\ FalseBreakOK(hist', touches'[r])
                    /\ r < Len(touches) \/ phase' \notin Open => Closed(touches'[r])
  BY <1>1 DEF RowRanges
<1>2. CASE r < Len(touches)
  <2>1. touches'[r] = touches[r] /\ touches[r] \in Rows
    BY <1>1, <1>2 DEF RowsKept
  <2>2. ZoneOK(hist, touches[r]) /\ FalseBreakOK(hist, touches[r]) /\ Closed(touches[r])
    BY <1>2 DEF RowRanges
  <2> QED BY <1>1, <2>1, <2>2, ZoneOKStays, FalseBreakOKStays
<1>3. CASE r = Len(touches)
  <2>1. touches'[r] = OpenRow'
    BY <1>1, <1>3 DEF OpenRow
  <2> QED BY <1>3, <2>1, <1>1
<1> QED BY <1>1, <1>2, <1>3

LEMMA UntouchedRanges ==
  ASSUME Core, RowRanges, NEW b \in Candles, Step(b), touches' = touches,
         phase' \in Open \/ phase \notin Open
  PROVE  RowRanges'
<1>1. touches \in Seq(Rows) /\ Longer(hist, hist', b)
  BY StepFacts DEF Core, Types
<1> SUFFICES ASSUME NEW r \in 1..Len(touches)
             PROVE  /\ ZoneOK(hist', touches[r]) /\ FalseBreakOK(hist', touches[r])
                    /\ r < Len(touches) \/ phase' \notin Open => Closed(touches[r])
  BY DEF RowRanges
<1>2. /\ ZoneOK(hist, touches[r]) /\ FalseBreakOK(hist, touches[r]) /\ touches[r] \in Rows
      /\ r < Len(touches) \/ phase \notin Open => Closed(touches[r])
  BY <1>1 DEF RowRanges
<1> QED BY <1>1, <1>2, ZoneOKStays, FalseBreakOKStays

LEMMA AddedRanges ==
  ASSUME Core, RowRanges, NEW b \in Candles, Step(b), OpenZone(b),
         ZoneOK(hist', NewRow(b)), FalseBreakOK(hist', NewRow(b))
  PROVE  RowRanges' /\ OpenRow' = NewRow(b)
<1>1. touches \in Seq(Rows) /\ Longer(hist, hist', b) /\ Types /\ Len(touches) \in Nat
  BY StepFacts DEF Core, Types
<1>2. touches' = Append(touches, NewRow(b)) /\ phase = "away" /\ phase' \in Open
  BY DEF OpenZone, Open
<1>3. /\ Len(touches') = Len(touches) + 1 /\ touches'[Len(touches) + 1] = NewRow(b)
      /\ \A r \in 1..Len(touches) : touches'[r] = touches[r]
  BY <1>1, <1>2, NewRowAdded
<1>4. ASSUME NEW r \in 1..Len(touches')
      PROVE  /\ ZoneOK(hist', touches'[r]) /\ FalseBreakOK(hist', touches'[r])
             /\ r < Len(touches') \/ phase' \notin Open => Closed(touches'[r])
  <2>1. CASE r \in 1..Len(touches)
    <3>1. /\ ZoneOK(hist, touches[r]) /\ FalseBreakOK(hist, touches[r]) /\ touches[r] \in Rows
          /\ Closed(touches[r]) /\ touches'[r] = touches[r]
      BY <1>1, <1>2, <1>3, <2>1 DEF RowRanges, Open
    <3> QED BY <1>1, <3>1, ZoneOKStays, FalseBreakOKStays
  <2>2. CASE r = Len(touches')
    BY <1>1, <1>2, <1>3, <2>2
  <2> QED BY <1>1, <1>3, <2>1, <2>2
<1> QED BY <1>3, <1>4 DEF RowRanges, OpenRow

RangesInv == Past /\ Ranges

LEMMA RangesStep ==
  ASSUME RangesInv, NEW b \in Candles, Step(b)
  PROVE  Ranges'
<1>1. /\ Core /\ Types /\ Control /\ Table /\ OpenAsPhase /\ RowRanges
      /\ phase = "zone" => OpenZoneOK(hist, OpenRow, span) /\ OpenRow.outcome = None
                           /\ OpenRow.fbKnownAt = None
      /\ phase = "false_break" => OpenRow.fbEnd = Len(hist)
  BY DEF RangesInv, Ranges, RowRanges, Past, Core
<1>2. /\ Longer(hist, hist', b) /\ Now = Len(hist') /\ Now = Len(bars) + 1 /\ Len(bars) \in Nat
      /\ Len(hist) = Len(bars)
  BY <1>1, StepFacts
<1>3. span \in Spans /\ span' \in Spans
  BY <1>1, SpanStep DEF Types
<1>4. ASSUME phase \in Open
      PROVE  /\ OpenRow \in Rows /\ ZoneOK(hist, OpenRow) /\ FalseBreakOK(hist, OpenRow)
  BY <1>1, <1>4, OpenRowFacts DEF Open, OpenRow, RowRanges
<1>5. SUFFICES RowRanges' /\ (phase' = "zone" => OpenZoneOK(hist', OpenRow', span')
                                                 /\ OpenRow'.outcome = None
                                                 /\ OpenRow'.fbKnownAt = None)
                          /\ (phase' = "false_break" => OpenRow'.fbEnd = Len(hist'))
  BY DEF Ranges, RowRanges
\* A zone goes on over a bar that is no contact.
<1>6. ASSUME phase = "zone", ZoneAbove(b) \/ ZoneBelow(b)
      PROVE  OpenZoneOK(hist', OpenRow, span')
  <2>1. OpenRow \in Rows /\ ZoneOK(hist, OpenRow)
    BY <1>4, <1>6 DEF Open
  <2>2. span'.low = Least(span.low, b.low) /\ span'.high = Greatest(span.high, b.high)
    BY <1>1, <1>2, <1>6, SpanSteps
  <2>3. CASE ZoneAbove(b)
    <3>1. span'.run = 0
      BY <1>1, <1>2, <2>3, SpanSteps
    <3>2. Above(b) /\ ~ Contact(b) /\ ~ Below(b)
      <4>1. Above(b)
        BY <2>3 DEF ZoneAbove
      <4> QED BY <4>1, CandleFacts DEF Above, Below, Contact
    <3> QED BY <1>1, <1>2, <1>3, <1>6, <2>1, <2>2, <3>1, <3>2, OpenZoneGrows
  <2>4. CASE ZoneBelow(b)
    <3>1. span'.run = RunOn /\ span'.runLow = RunLow(b) /\ span'.runHigh = RunHigh(b)
      BY <1>1, <1>2, <2>4, SpanSteps
    <3>2. Below(b) /\ ~ Contact(b)
      BY <2>4 DEF ZoneBelow, Contact
    <3>3. /\ span'.run = span.run + 1
          /\ span'.runLow = IF span'.run = 1 THEN b.low ELSE Least(span.runLow, b.low)
          /\ span'.runHigh = IF span'.run = 1 THEN b.high ELSE Greatest(span.runHigh, b.high)
      BY <3>1 DEF RunOn, RunLow, RunHigh
    <3> QED BY <1>1, <1>2, <1>3, <1>6, <2>1, <2>2, <3>2, <3>3, OpenZoneGrows
  <2> QED BY <1>6, <2>3, <2>4
<1>7. CASE Passes
  BY <1>1, <1>7, UntouchedRanges DEF Passes, Open
<1>8. CASE OpenZone(b)
  <2>1. /\ Touches(b) /\ active /\ phase' = "zone"
        /\ span' = [contact |-> Now, low |-> b.low, high |-> b.high,
                    run |-> 0, runLow |-> b.low, runHigh |-> b.high]
    BY <1>8 DEF OpenZone, Holding
  <2>2. Len(hist) > 0
    <3>1. WaveFrom(hist, forming)
      BY <1>1, <2>1 DEF Core
    <3> QED BY <1>2, <3>1 DEF WaveFrom
  <2>3. Above(hist[Len(hist)]) /\ Contact(b)
    <3>1. Len(bars) \in 1..Len(bars)
      BY <1>2, <2>2
    <3>2. Bar(Len(bars)) = hist[Len(hist)]
      BY <1>1, <1>2, <3>1, HistoryOK DEF Types
    <3> QED BY <2>1, <3>2, CandleFacts DEF Touches, Contact, Above, Below
  <2>4. span'.low = b.low /\ span'.high = b.high /\ span'.run = 0
    BY <2>1
  <2>5. /\ ZoneOK(hist', NewRow(b)) /\ FalseBreakOK(hist', NewRow(b))
        /\ OpenZoneOK(hist', NewRow(b), span')
    BY <1>2, <2>2, <2>3, <2>4, NewRowOK
  <2>6. RowRanges' /\ OpenRow' = NewRow(b)
    BY <1>1, <1>8, <2>5, AddedRanges
  <2>7. NewRow(b).outcome = None /\ NewRow(b).fbKnownAt = None
    BY DEF NewRow
  <2> QED BY <2>1, <2>5, <2>6, <2>7
<1>9. CASE GoesOn(b)
  <2>1. phase = "zone" /\ phase' = "zone" /\ touches' = touches /\ (ZoneAbove(b) \/ ZoneBelow(b))
    BY <1>9 DEF GoesOn
  <2>2. OpenRow' = OpenRow
    BY <2>1 DEF OpenRow
  <2>3. OpenZoneOK(hist', OpenRow', span')
    BY <1>6, <2>1, <2>2, Zenon
  <2> QED BY <1>1, <2>1, <2>2, <2>3, UntouchedRanges DEF Open
<1>10. CASE Reaches(b)
  <2>1. /\ phase = "zone" /\ phase' = "zone" /\ ZoneContact(b) /\ RowsKept
        /\ IsReached(OpenRow, OpenRow', Len(hist'), span'.low, span'.high)
    BY <1>2, <1>10 DEF Reaches
  <2>2. /\ span'.low = Least(span.low, b.low) /\ span'.high = Greatest(span.high, b.high)
        /\ span'.run = 0
    BY <1>1, <1>2, <2>1, SpanSteps
  <2>3. Contact(b)
    BY <2>1 DEF ZoneContact
  <2>4. /\ OpenRow \in Rows /\ ZoneOK(hist, OpenRow) /\ ~ OpenRow.final /\ ~ OpenRow.broken
        /\ OpenZoneOK(hist, OpenRow, span) /\ OpenRow.outcome = None /\ OpenRow.fbKnownAt = None
    BY <1>1, <1>4, <2>1 DEF Open, OpenAsPhase
  <2>5. /\ ZoneOK(hist', OpenRow') /\ FalseBreakOK(hist', OpenRow')
        /\ OpenZoneOK(hist', OpenRow', span')
    BY <1>2, <1>3, <2>1, <2>2, <2>3, <2>4, ReachedOK
  <2>6. RowRanges'
    BY <1>1, <2>1, <2>5, RewrittenRanges DEF Open
  <2>7. OpenRow'.outcome = None /\ OpenRow'.fbKnownAt = None
    BY <2>1, <2>4 DEF IsReached, SameFalseBreak
  <2> QED BY <2>1, <2>5, <2>6, <2>7
<1>11. CASE Settles(b)
  <2>1. /\ phase = "zone" /\ phase' \notin Open /\ RowsKept
        /\ IsSettled(OpenRow, OpenRow', Len(hist'))
    BY <1>2, <1>11 DEF Settles, Open
  <2>2. /\ OpenRow \in Rows /\ ZoneOK(hist, OpenRow) /\ ~ OpenRow.broken
        /\ OpenZoneOK(hist, OpenRow, span)
    BY <1>1, <1>4, <2>1 DEF Open, OpenAsPhase
  <2>3. ZoneOK(hist', OpenRow') /\ FalseBreakOK(hist', OpenRow') /\ Closed(OpenRow')
    BY <1>2, <2>1, <2>2, SettledOK
  <2>4. RowRanges'
    BY <1>1, <2>1, <2>3, RewrittenRanges DEF Open
  <2> QED BY <2>1, <2>4 DEF Open
<1>12. CASE Reveals(b)
  <2>1. /\ phase = "zone" /\ phase' = "false_break" /\ ZoneBelow(b) /\ RunOn > Window /\ RowsKept
        /\ IsRevealed(OpenRow, OpenRow', Len(hist'), RunOn, RunLow(b), RunHigh(b))
    BY <1>2, <1>12 DEF Reveals
  <2>2. span'.run = RunOn /\ span'.runLow = RunLow(b) /\ span'.runHigh = RunHigh(b)
    BY <1>1, <1>2, <2>1, SpanSteps
  <2>3. RunOn = Window + 1
    <3>1. span.run <= Window /\ span.run \in Nat
      BY <1>1, <1>3, <2>1 DEF Control, Spans
    <3> QED BY <2>1, <3>1, LengthsAreNat DEF RunOn
  <2>4. /\ OpenRow \in Rows /\ ZoneOK(hist, OpenRow) /\ ~ OpenRow.fbFinal
        /\ OpenRow.outcome = None /\ OpenRow.fbKnownAt = None
    BY <1>1, <1>4, <2>1 DEF Open, OpenAsPhase
  <2>5. ZoneOK(hist', OpenRow) /\ OpenZoneOK(hist', OpenRow, span')
    BY <1>2, <1>6, <2>1, <2>4, ZoneOKStays
  <2>6. hist' \in Seq(Candles) /\ Len(hist') \in Nat /\ Below(hist'[Len(hist')])
    BY <1>2, <2>1 DEF Longer, ZoneBelow
  <2>7. /\ span'.run = Window + 1
        /\ IsRevealed(OpenRow, OpenRow', Len(hist'), span'.run, span'.runLow, span'.runHigh)
    BY <2>1, <2>2, <2>3
  <2>8. ZoneOK(hist', OpenRow') /\ FalseBreakOK(hist', OpenRow')
    BY <2>4, <2>5, <2>6, <2>7, RevealedOK
  <2>9. RowRanges'
    BY <1>1, <2>1, <2>8, RewrittenRanges DEF Open
  <2> QED BY <2>1, <2>9 DEF IsRevealed
<1>13. CASE Prolongs(b) \/ ComesBack(b) \/ BreaksOff(b)
  <2>1. /\ phase = "false_break" /\ RowsKept /\ IsLonger(OpenRow, OpenRow', Len(hist'), b)
        /\ \/ phase' = "false_break" /\ IsOpen(OpenRow, OpenRow') /\ ~ (b.close > b.anchor)
           \/ /\ phase' \notin Open /\ IsResolved(OpenRow', Len(hist'), "comeback")
              /\ b.close > b.anchor
           \/ phase' \notin Open /\ IsResolved(OpenRow', Len(hist'), "stack_break")
    BY <1>2, <1>13 DEF Prolongs, ComesBack, BreaksOff, Open
  <2>2. /\ OpenRow \in Rows /\ ZoneOK(hist, OpenRow) /\ FalseBreakOK(hist, OpenRow)
        /\ OpenRow.final /\ OpenRow.broken /\ ~ OpenRow.fbFinal /\ OpenRow.fbEnd = Len(hist)
    BY <1>1, <1>4, <2>1 DEF Open, OpenAsPhase
  <2>3. ZoneOK(hist', OpenRow') /\ FalseBreakOK(hist', OpenRow')
    BY <1>2, <2>1, <2>2, LongerOK
  <2>4. phase' \notin Open => Closed(OpenRow')
    BY <2>1, <2>2 DEF IsLonger, IsResolved, Closed, Open
  <2>5. RowRanges'
    BY <1>1, <2>1, <2>3, <2>4, RewrittenRanges DEF Open
  <2>6. OpenRow'.fbEnd = Len(hist') /\ phase' # "zone"
    BY <2>1 DEF IsLonger, Open
  <2> QED BY <2>5, <2>6
<1> QED BY <1>1, <1>7, <1>8, <1>9, <1>10, <1>11, <1>12, <1>13, LastRowStep

LEMMA RangesAlways ==
  /\ Init => RangesInv
  /\ RangesInv /\ [Next]_vars => RangesInv'
<1>1. Init => RangesInv
  BY PastInit DEF Init, RangesInv, Ranges
<1>2. ASSUME RangesInv, Next PROVE RangesInv'
  <2>1. PICK b \in Candles : Step(b)
    BY <1>2, NextIsStep
  <2>2. Past'
    BY <1>2, PastStep DEF RangesInv
  <2> QED BY <1>2, <2>1, <2>2, RangesStep DEF RangesInv
<1>3. ASSUME RangesInv, UNCHANGED vars PROVE RangesInv'
  <2>1. hist' = hist
    BY <1>3 DEF vars, hist, Bar, Mirror
  <2>2. Past'
    BY <1>3, PastStep DEF RangesInv
  <2> QED BY <1>3, <2>1, <2>2 DEF vars, RangesInv, Ranges, OpenRow
<1> QED BY <1>1, <1>2, <1>3

--------------------------------------------------------------------------------
(* Read in the side's own prices. *)

\* The raw prices of a bar are the sides' prices, or their mirror images.
LEMMA RawPrices ==
  ASSUME BarsOK, NEW k \in 1..Len(bars)
  PROVE  /\ hist[k].low \in Int /\ hist[k].high \in Int
         /\ bars[k].high = IF side = "long" THEN hist[k].high ELSE -hist[k].low
         /\ bars[k].low = IF side = "long" THEN hist[k].low ELSE -hist[k].high
<1>1. hist[k] = Mirror(bars[k]) /\ bars[k] \in Candles
  BY HistoryOK DEF BarsOK, Bar
<1>2. bars[k].low \in Int /\ bars[k].high \in Int
  BY <1>1, CandleFacts
<1>3. CASE side = "long"
  BY <1>1, <1>2, <1>3 DEF Mirror
<1>4. CASE side # "long"
  <2>1. hist[k].low = -bars[k].high /\ hist[k].high = -bars[k].low
    BY <1>1, <1>4 DEF Mirror, Candles
  <2> QED BY <1>2, <1>4, <2>1
<1> QED BY <1>3, <1>4

\* The extremes of a stretch are the highest high and the lowest low traded.
LEMMA Traded ==
  ASSUME BarsOK, NEW i \in 1..Len(bars), NEW j \in 1..Len(bars), NEW high, NEW low,
         Top(hist, i, j, high), Bottom(hist, i, j, low)
  PROVE  Upper(high, low) = HighOf(i, j) /\ Lower(high, low) = LowOf(i, j)
<1> DEFINE highs == {bars[k].high : k \in i..j}
           lows == {bars[k].low : k \in i..j}
<1>1. \A k \in i..j : k \in 1..Len(bars)
  BY HistoryOK
<1>2. \A k \in i..j :
        /\ hist[k].low \in Int /\ hist[k].high \in Int
        /\ bars[k].high = IF side = "long" THEN hist[k].high ELSE -hist[k].low
        /\ bars[k].low = IF side = "long" THEN hist[k].low ELSE -hist[k].high
  BY <1>1, RawPrices
<1>3. PICK p \in i..j : hist[p].high = high
  BY DEF Top
<1>4. PICK q \in i..j : hist[q].low = low
  BY DEF Bottom
<1>5. high \in Int /\ low \in Int
  BY <1>2, <1>3, <1>4
<1>6. (\A x \in highs : x \in Int) /\ (\A x \in lows : x \in Int)
  BY <1>2, SMTT(30)
<1>7. CASE side = "long"
  <2>1. high \in highs /\ \A x \in highs : x <= high
    BY <1>2, <1>3, <1>7 DEF Top
  <2>2. low \in lows /\ \A x \in lows : low <= x
    BY <1>2, <1>4, <1>7 DEF Bottom
  <2>3. Max(highs) = high /\ Min(lows) = low
    <3> HIDE DEF highs, lows
    <3> QED BY <1>6, <2>1, <2>2, MaxIs, MinIs
  <2> QED BY <1>7, <2>3 DEF Upper, Lower, HighOf, LowOf
<1>8. CASE side # "long"
  <2>1. -low \in highs /\ \A x \in highs : x <= -low
    <3>1. \A k \in i..j : bars[k].high = -hist[k].low /\ bars[k].high <= -low
      BY <1>2, <1>5, <1>8 DEF Bottom
    <3>2. bars[q].high = -low
      BY <1>4, <3>1
    <3> QED BY <3>1, <3>2
  <2>2. -high \in lows /\ \A x \in lows : -high <= x
    <3>1. \A k \in i..j : bars[k].low = -hist[k].high /\ -high <= bars[k].low
      BY <1>2, <1>5, <1>8 DEF Top
    <3>2. bars[p].low = -high
      BY <1>3, <3>1
    <3> QED BY <3>1, <3>2
  <2>3. Max(highs) = -low /\ Min(lows) = -high
    <3> HIDE DEF highs, lows
    <3> QED BY <1>6, <2>1, <2>2, MaxIs, MinIs
  <2> QED BY <1>8, <2>3 DEF Upper, Lower, HighOf, LowOf
<1> QED BY <1>7, <1>8

\* Zones and false breaks are what the market traded, whatever the running
\* values were reset to on the way (the zone's extremes at a contact, the run
\* that reveals a false break).
THEOREM RangesAreTraded == Spec => []RangesAsTraded
<1>1. ASSUME RangesInv PROVE RangesAsTraded
  <2>1. Past /\ Core /\ Types /\ Table /\ Control /\ OpenAsPhase /\ RowRanges /\ BarsOK
        /\ (phase = "zone" => OpenZoneOK(hist, OpenRow, span))
        /\ (phase = "false_break" => OpenRow.fbEnd = Len(hist))
    BY <1>1 DEF RangesInv, Ranges, RowRanges, Past, Core, Types
  <2>2. /\ Len(hist) = Len(bars) /\ Len(bars) \in Nat
        /\ \A k \in 1..Len(bars) : hist[k] = Bar(k)
    BY <2>1, HistoryOK
  <2>0. Len(touches) \in Nat
    BY <2>1 DEF Types
  <2>3. DOMAIN touches = 1..Len(touches)
    BY <2>1 DEF Types
  <2>4. ASSUME NEW r \in 1..Len(touches)
        PROVE  /\ touches[r] \in Rows
               /\ ZoneOK(hist, touches[r]) /\ FalseBreakOK(hist, touches[r])
               /\ \/ Closed(touches[r])
                  \/ r = Len(touches) /\ touches[r] = OpenRow /\ phase \in Open
    <3>1. touches \in Seq(Rows)
      BY <2>1 DEF Types
    <3>2. touches[r] \in Rows
      BY <3>1
    <3>3. /\ ZoneOK(hist, touches[r]) /\ FalseBreakOK(hist, touches[r])
          /\ r < Len(touches) \/ phase \notin Open => Closed(touches[r])
      BY <2>1 DEF RowRanges
    <3>4. r = Len(touches) => touches[r] = OpenRow
      BY Zenon DEF OpenRow
    <3>5. r < Len(touches) \/ r = Len(touches)
      BY <2>0
    <3> QED BY <3>2, <3>3, <3>4, <3>5, Zenon
  <2>5. ZoneRanges
    <3> SUFFICES
          ASSUME NEW r \in 1..Len(touches)
          PROVE  LET z == Zone(touches[r])
                     last == IF z.final THEN touches[r].knownAt - 1 ELSE Len(bars)
                 IN  /\ z.high = HighOf(z.start, z.end) /\ z.low = LowOf(z.start, z.end)
                     /\ Contact(Bar(z.end))
                     /\ \A k \in z.end + 1..last : ~ Contact(Bar(k))
      BY <2>3 DEF ZoneRanges
    <3> DEFINE row == touches[r]
               last == IF row.final THEN row.knownAt - 1 ELSE Len(bars)
    <3>1. row.start \in 2..Len(bars) /\ row.end \in row.start..Len(bars) /\ Contact(hist[row.end])
      BY <2>2, <2>4 DEF ZoneOK
    <3>2. row.start \in 1..Len(bars) /\ row.end \in 1..Len(bars)
      BY <3>1
    <3>3. /\ Upper(row.high, row.low) = HighOf(row.start, row.end)
          /\ Lower(row.high, row.low) = LowOf(row.start, row.end)
      BY <2>1, <2>4, <3>2, Traded DEF ZoneOK
    <3>4. NoContact(hist, row.end + 1, last) /\ (\A k \in row.end + 1..last : k \in 1..Len(bars))
      <4>1. CASE row.final
        <5>1. row.knownAt \in row.end + 1..Len(hist) /\ NoContact(hist, row.end + 1, row.knownAt - 1)
          BY <2>4, <4>1 DEF ZoneOK
        <5> QED BY <2>2, <3>2, <4>1, <5>1
      <4>2. CASE ~ row.final
        <5>1. row = OpenRow /\ phase = "zone"
          BY <2>1, <2>4, <4>2 DEF Closed, Open, OpenAsPhase
        <5>2. NoContact(hist, row.end + 1, Len(bars))
          BY <2>1, <2>2, <5>1 DEF OpenZoneOK
        <5> QED BY <2>2, <3>2, <4>2, <5>2
      <4> QED BY <4>1, <4>2
    <3>5. \A k \in row.end + 1..last : ~ Contact(Bar(k))
      BY <2>2, <3>4 DEF NoContact
    <3>6. /\ Zone(row).start = row.start /\ Zone(row).end = row.end /\ Zone(row).final = row.final
          /\ Zone(row).high = Upper(row.high, row.low) /\ Zone(row).low = Lower(row.high, row.low)
      BY DEF Zone
    <3>7. Contact(Bar(row.end))
      BY <2>2, <3>1, <3>2
    <3> HIDE DEF row
    <3> QED BY <3>3, <3>5, <3>6, <3>7 DEF row
  <2>6. FalseBreakRanges
    <3> SUFFICES
          ASSUME NEW r \in 1..Len(touches), touches[r].broken
          PROVE  LET f == FalseBreak(touches[r])
                     revealed == touches[r].knownAt
                 IN  /\ f.high = HighOf(f.start, f.end) /\ f.low = LowOf(f.start, f.end)
                     /\ revealed = f.start + Window
                     /\ \A k \in f.start..revealed : Below(Bar(k))
                     /\ ~ Below(Bar(f.start - 1))
                     /\ \A k \in revealed..f.end - 1 : Bar(k).close <= Bar(k).anchor
                     /\ f.outcome = "comeback" => Bar(f.end).close > Bar(f.end).anchor
                     /\ ~ f.final => r = Len(touches) /\ f.end = Len(bars)
      BY <2>3 DEF FalseBreakRanges
    <3> DEFINE row == touches[r]
    <3>1. /\ row.fbStart \in row.end + 1..Len(bars) /\ row.fbEnd \in row.knownAt..Len(bars)
          /\ row.knownAt = row.fbStart + Window /\ Window \in Nat
          /\ row.end \in Nat /\ row.end >= 2
      <4>1. /\ row.fbStart \in row.end + 1..Len(bars) /\ row.fbEnd \in row.knownAt..Len(bars)
            /\ row.knownAt = row.fbStart + Window
        BY <2>2, <2>4 DEF FalseBreakOK
      <4>2. row.start \in 2..Len(bars) /\ row.end \in row.start..Len(bars)
        BY <2>2, <2>4 DEF ZoneOK
      <4>3. row.end \in Nat /\ row.end >= 2
        BY <4>2
      <4> QED BY <4>1, <4>3, LengthsAreNat
    <3>2. /\ row.fbStart \in 1..Len(bars) /\ row.fbEnd \in 1..Len(bars)
          /\ row.fbStart - 1 \in 1..Len(bars)
          /\ \A k \in row.fbStart..row.fbEnd : k \in 1..Len(bars)
          /\ \A k \in row.fbStart..row.knownAt : k \in row.fbStart..row.fbEnd
          /\ \A k \in row.knownAt..row.fbEnd - 1 : k \in row.fbStart..row.fbEnd
      <4>1. row.fbStart \in Nat /\ row.fbStart >= 3 /\ row.fbStart <= Len(bars)
        BY <2>2, <3>1
      <4>2. row.knownAt \in Nat /\ row.knownAt >= row.fbStart
        BY <3>1, <4>1
      <4>3. row.fbEnd \in Nat /\ row.fbEnd >= row.knownAt /\ row.fbEnd <= Len(bars)
        BY <3>1, <4>2
      <4> QED BY <2>2, <4>1, <4>2, <4>3, SMTT(30)
    <3>3. /\ Upper(row.fbHigh, row.fbLow) = HighOf(row.fbStart, row.fbEnd)
          /\ Lower(row.fbHigh, row.fbLow) = LowOf(row.fbStart, row.fbEnd)
      <4>1. Top(hist, row.fbStart, row.fbEnd, row.fbHigh) /\ Bottom(hist, row.fbStart, row.fbEnd, row.fbLow)
        BY <2>4 DEF FalseBreakOK
      <4> QED BY <2>1, <3>2, <4>1, Traded
    <3>4. /\ FalseBreak(row).start = row.fbStart /\ FalseBreak(row).end = row.fbEnd
          /\ FalseBreak(row).final = row.fbFinal /\ FalseBreak(row).outcome = row.outcome
          /\ FalseBreak(row).high = Upper(row.fbHigh, row.fbLow)
          /\ FalseBreak(row).low = Lower(row.fbHigh, row.fbLow)
      BY DEF FalseBreak
    <3>5. \A k \in row.fbStart..row.knownAt : Below(Bar(k))
      BY <2>2, <2>4, <3>2 DEF FalseBreakOK, AllBelow
    <3>6. ~ Below(Bar(row.fbStart - 1))
      BY <2>2, <2>4, <3>2 DEF FalseBreakOK
    <3>7. \A k \in row.knownAt..row.fbEnd - 1 : Bar(k).close <= Bar(k).anchor
      BY <2>2, <2>4, <3>2 DEF FalseBreakOK
    <3>8. row.outcome = "comeback" => Bar(row.fbEnd).close > Bar(row.fbEnd).anchor
      BY <2>2, <2>4, <3>2 DEF FalseBreakOK
    <3>9. ~ row.fbFinal => r = Len(touches) /\ row.fbEnd = Len(bars)
      <4> SUFFICES ASSUME ~ row.fbFinal PROVE r = Len(touches) /\ row.fbEnd = Len(bars)
        OBVIOUS
      <4>1. r = Len(touches) /\ row = OpenRow /\ phase = "false_break"
        BY <2>1, <2>4 DEF Closed, Open, OpenAsPhase
      <4> QED BY <2>1, <2>2, <4>1
    <3> HIDE DEF row
    <3> QED BY <3>1, <3>3, <3>4, <3>5, <3>6, <3>7, <3>8, <3>9 DEF row
  <2> QED BY <2>5, <2>6 DEF RangesAsTraded
<1> QED BY <1>1, RangesAlways, PTL DEF Spec

--------------------------------------------------------------------------------
(* The bars with and without the order, and the episodes they delimit. *)

Disordered(h, i, j) == \A k \in i..j : ~ h[k].order

LeftContact(h, start) == Max(Contacts(h, start - 1))

\* An episode starts with the order; it ends on the first bar with which the
\* order has been missing for more than break_bars.  Its nearest contact on the
\* left, if there is one, is one.
EpisodeOK(h, ep) ==
  /\ ep.start \in 1..Len(h) /\ h[ep.start].order
  /\ Contacts(h, ep.start - 1) # {} => LeftContact(h, ep.start) \in Contacts(h, ep.start - 1)
  /\ ep.end # None =>
       /\ ep.end \in ep.start + BreakBars + 1..Len(h)
       /\ Disordered(h, ep.end - BreakBars, ep.end)
       /\ \A k \in ep.start + BreakBars..ep.end - 1 : ~ Disordered(h, k - BreakBars, k)

\* An episode in progress that started on bar s, v bars without the order ago.
GoingOn(h, s, v) ==
  /\ v \in 0..Len(h) - s
  /\ Disordered(h, Len(h) - v + 1, Len(h)) /\ h[Len(h) - v].order
  /\ \A k \in s + BreakBars..Len(h) : ~ Disordered(h, k - BreakBars, k)

\* Every bar with the order is in an episode.
Covered(h, eps) ==
  \A k \in 1..Len(h) :
     h[k].order => \E e \in 1..Len(eps) :
                      eps[e].start <= k /\ (eps[e].end = None \/ k <= eps[e].end)

Bounds ==
  /\ \A e \in 1..Len(episodes) : EpisodeOK(hist, episodes[e])
  /\ active => GoingOn(hist, episodes[Len(episodes)].start, violation)
  /\ Covered(hist, episodes)

LEMMA DisorderKept ==
  ASSUME NEW h, NEW g, NEW b, Longer(h, g, b), NEW i \in Nat, NEW j \in Nat, i >= 1, j <= Len(h)
  PROVE  Disordered(g, i, j) <=> Disordered(h, i, j)
<1>1. \A k \in i..j : g[k] = h[k]
  BY DEF Longer
<1> QED BY <1>1 DEF Disordered

LEMMA ContactsKept ==
  ASSUME NEW h, NEW g, NEW b, Longer(h, g, b), NEW j \in Int, j <= Len(h)
  PROVE  Contacts(g, j) = Contacts(h, j)
<1>1. \A k \in 1..j : g[k] = h[k]
  BY DEF Longer
<1> QED BY <1>1 DEF Contacts

LEMMA EpisodeStays ==
  ASSUME NEW h, NEW g, NEW b, Longer(h, g, b), NEW ep \in Episodes, EpisodeOK(h, ep)
  PROVE  EpisodeOK(g, ep)
<1>1. Len(h) \in Nat /\ Len(g) = Len(h) + 1 /\ \A k \in 1..Len(h) : g[k] = h[k]
  BY DEF Longer
<1>2. ep.start \in 1..Len(h) /\ ep.start - 1 \in Int /\ ep.start - 1 <= Len(h) /\ ep.start \in 1..Len(g)
  BY <1>1 DEF EpisodeOK
<1>3. g[ep.start].order
  BY <1>1, <1>2 DEF EpisodeOK
<1>4. Contacts(g, ep.start - 1) = Contacts(h, ep.start - 1)
  BY <1>2, ContactsKept
<1>5. Contacts(g, ep.start - 1) # {} => LeftContact(g, ep.start) \in Contacts(g, ep.start - 1)
  BY <1>4 DEF EpisodeOK, LeftContact
<1>6. ASSUME ep.end # None
      PROVE  /\ ep.end \in ep.start + BreakBars + 1..Len(g)
             /\ Disordered(g, ep.end - BreakBars, ep.end)
             /\ \A k \in ep.start + BreakBars..ep.end - 1 : ~ Disordered(g, k - BreakBars, k)
  <2>1. ep.end \in ep.start + BreakBars + 1..Len(h) /\ BreakBars \in Nat
    BY <1>6, LengthsAreNat DEF EpisodeOK
  <2>2. ep.end \in Nat /\ ep.end - BreakBars \in Nat /\ ep.end - BreakBars >= 1 /\ ep.end <= Len(h)
        /\ ep.end \in ep.start + BreakBars + 1..Len(g)
    BY <1>1, <1>2, <2>1
  <2>3. Disordered(g, ep.end - BreakBars, ep.end)
    BY <1>6, <2>2, DisorderKept DEF EpisodeOK
  <2>4. ASSUME NEW k \in ep.start + BreakBars..ep.end - 1
        PROVE  ~ Disordered(g, k - BreakBars, k)
    <3>1. k \in Nat /\ k - BreakBars \in Nat /\ k - BreakBars >= 1 /\ k <= Len(h)
      BY <1>1, <1>2, <2>1, <2>2, SMTT(30)
    <3>2. ~ Disordered(h, k - BreakBars, k)
      BY <1>6 DEF EpisodeOK
    <3> QED BY <3>1, <3>2, DisorderKept
  <2> QED BY <2>2, <2>3, <2>4
<1> QED BY <1>2, <1>3, <1>5, <1>6 DEF EpisodeOK

\* The episode goes on: the order holds again, or has not been missing for long.
LEMMA GoingOnGrows ==
  ASSUME NEW h, NEW g, NEW b, Longer(h, g, b), NEW s \in 1..Len(h), NEW v \in Nat, NEW w \in Nat,
         GoingOn(h, s, v), w = IF b.order THEN 0 ELSE v + 1, w <= BreakBars
  PROVE  GoingOn(g, s, w)
<1>1. /\ Len(h) \in Nat /\ Len(g) = Len(h) + 1 /\ g[Len(g)] = b /\ \A k \in 1..Len(h) : g[k] = h[k]
      /\ BreakBars \in Nat /\ BreakBars > 0
  BY LengthsAreNat DEF Longer
<1>2. v \in 0..Len(h) - s /\ s \in Nat /\ s >= 1
  BY DEF GoingOn
<1>3. w \in 0..Len(g) - s
  BY <1>1, <1>2
<1>4. Disordered(g, Len(g) - w + 1, Len(g)) /\ g[Len(g) - w].order
  <2>1. CASE b.order
    BY <1>1, <2>1 DEF Disordered
  <2>2. CASE ~ b.order
    <3>1. Len(g) - w = Len(h) - v /\ Len(h) - v \in 1..Len(h) /\ Len(h) - v + 1 \in Nat
      BY <1>1, <1>2, <2>2
    <3>2. Disordered(g, Len(h) - v + 1, Len(h))
      BY <1>1, <3>1, DisorderKept DEF GoingOn
    <3>3. \A k \in Len(h) - v + 1..Len(g) : k \in Len(h) - v + 1..Len(h) \/ k = Len(g)
      BY <1>1, <3>1
    <3>4. Disordered(g, Len(h) - v + 1, Len(g))
      BY <1>1, <2>2, <3>2, <3>3 DEF Disordered
    <3> QED BY <1>1, <3>1, <3>4 DEF GoingOn
  <2> QED BY <2>1, <2>2
<1>5. ASSUME NEW k \in s + BreakBars..Len(g)
      PROVE  ~ Disordered(g, k - BreakBars, k)
  <2>1. k \in Nat /\ k - BreakBars \in Nat /\ k - BreakBars >= 1
    BY <1>1, <1>2
  <2>2. CASE k <= Len(h)
    <3>1. ~ Disordered(h, k - BreakBars, k)
      BY <1>1, <2>1, <2>2 DEF GoingOn
    <3> QED BY <2>1, <2>2, <3>1, DisorderKept
  <2>3. CASE k = Len(g)
    <3>1. Len(g) - w \in k - BreakBars..k
      BY <1>1, <1>3, <2>3
    <3> QED BY <1>4, <3>1 DEF Disordered
  <2> QED BY <1>1, <2>1, <2>2, <2>3
<1> QED BY <1>3, <1>4, <1>5 DEF GoingOn

\* The bar with which the order has been missing for too long ends the episode.
LEMMA EpisodeEnds ==
  ASSUME NEW h, NEW g, NEW b, Longer(h, g, b), NEW ep \in Episodes, EpisodeOK(h, ep),
         NEW v \in Nat, GoingOn(h, ep.start, v), v <= BreakBars, ~ b.order, v + 1 > BreakBars,
         NEW new, new.start = ep.start, new.end = Len(g), ep.end = None
  PROVE  EpisodeOK(g, new)
<1>1. /\ Len(h) \in Nat /\ Len(g) = Len(h) + 1 /\ g[Len(g)] = b /\ \A k \in 1..Len(h) : g[k] = h[k]
      /\ BreakBars \in Nat /\ BreakBars > 0
  BY LengthsAreNat DEF Longer
<1>2. EpisodeOK(g, ep)
  BY EpisodeStays
<1>3. /\ new.start \in 1..Len(g) /\ g[new.start].order
      /\ Contacts(g, new.start - 1) # {} =>
           LeftContact(g, new.start) \in Contacts(g, new.start - 1)
  BY <1>2 DEF EpisodeOK
<1>4. v = BreakBars /\ v \in 0..Len(h) - ep.start /\ ep.start \in 1..Len(h)
  BY <1>1 DEF GoingOn, EpisodeOK
<1>5. Len(g) \in ep.start + BreakBars + 1..Len(g)
  BY <1>1, <1>4
<1>6. Disordered(g, Len(g) - BreakBars, Len(g))
  <2>1. Len(h) - v + 1 = Len(g) - BreakBars /\ Len(h) - v + 1 \in Nat /\ Len(h) - v + 1 >= 1
    BY <1>1, <1>4
  <2>2. Disordered(g, Len(g) - BreakBars, Len(h))
    BY <1>1, <2>1, DisorderKept DEF GoingOn
  <2>3. \A k \in Len(g) - BreakBars..Len(g) : k \in Len(g) - BreakBars..Len(h) \/ k = Len(g)
    BY <1>1
  <2> QED BY <1>1, <2>2, <2>3 DEF Disordered
<1>7. ASSUME NEW k \in ep.start + BreakBars..Len(g) - 1
      PROVE  ~ Disordered(g, k - BreakBars, k)
  <2>1. k \in Nat /\ k - BreakBars \in Nat /\ k - BreakBars >= 1 /\ k <= Len(h)
    BY <1>1, <1>4
  <2>2. ~ Disordered(h, k - BreakBars, k)
    BY <1>1 DEF GoingOn
  <2> QED BY <2>1, <2>2, DisorderKept
<1> QED BY <1>3, <1>5, <1>6, <1>7 DEF EpisodeOK

\* A bar with the order starts an episode where there is none.
LEMMA EpisodeStarts ==
  ASSUME NEW h, NEW g, NEW b, Longer(h, g, b), Extremes(h), b.order,
         NEW new, new.start = Len(g), new.end = None
  PROVE  EpisodeOK(g, new) /\ GoingOn(g, Len(g), 0)
<1>1. /\ Len(h) \in Nat /\ Len(g) = Len(h) + 1 /\ g[Len(g)] = b
      /\ BreakBars \in Nat /\ BreakBars > 0
  BY LengthsAreNat DEF Longer
<1>2. Contacts(g, Len(g) - 1) = Contacts(h, Len(h))
  BY <1>1, ContactsKept
<1>3. Contacts(h, Len(h)) # {} => Max(Contacts(h, Len(h))) \in Contacts(h, Len(h))
  BY <1>1, NearestContact DEF Contacts
<1>4. EpisodeOK(g, new)
  <2>1. Len(g) \in 1..Len(g)
    BY <1>1
  <2> QED BY <1>1, <1>2, <1>3, <2>1 DEF EpisodeOK, LeftContact
<1>5. GoingOn(g, Len(g), 0)
  <2>1. Disordered(g, Len(g) - 0 + 1, Len(g))
    BY <1>1 DEF Disordered
  <2>2. \A k \in Len(g) + BreakBars..Len(g) : FALSE
    BY <1>1
  <2> QED BY <1>1, <2>1, <2>2 DEF GoingOn
<1> QED BY <1>4, <1>5

LEMMA BoundsStep ==
  ASSUME Core, Bounds, NEW b \in Candles, Step(b)
  PROVE  Bounds'
<1> DEFINE E == Len(episodes)
<1>1. /\ Longer(hist, hist', b) /\ Extremes(hist) /\ Project(b) /\ Control
      /\ Now = Len(hist') /\ Len(hist') = Len(hist) + 1 /\ Len(hist) \in Nat
      /\ hist'[Len(hist')] = b /\ \A k \in 1..Len(hist) : hist'[k] = hist[k]
  BY StepFacts DEF Core, Longer
<1>2. episodes \in Seq(Episodes) /\ E \in Nat /\ violation \in Nat /\ b.order \in BOOLEAN
  BY CandleFacts DEF Core, Types
<1>3. \A e \in 1..E : episodes[e] \in Episodes /\ EpisodeOK(hist, episodes[e])
                      /\ EpisodeOK(hist', episodes[e])
  BY <1>1, <1>2, EpisodeStays DEF Bounds
\* Nothing to show of the bars before.
<1>4. ASSUME NEW k \in 1..Len(hist'), hist'[k].order, k # Len(hist')
      PROVE  \E e \in 1..E : episodes[e].start <= k /\ (episodes[e].end = None \/ k <= episodes[e].end)
  BY <1>1, <1>4 DEF Bounds, Covered
<1>5. CASE Idle(b)
  <2>1. ~ active' /\ ~ b.order /\ episodes' = episodes
    BY <1>5 DEF Idle
  <2>2. Covered(hist', episodes)
    BY <1>1, <1>4, <2>1 DEF Covered
  <2> QED BY <1>3, <2>1, <2>2 DEF Bounds
<1>6. CASE StartEpisode(b)
  <2>1. /\ Len(episodes') = E + 1 /\ \A e \in 1..E : episodes'[e] = episodes[e]
        /\ episodes'[E + 1].start = Now /\ episodes'[E + 1].end = None
    BY <1>6, EpisodesStep
  <2>2. b.order /\ violation' = 0
    BY <1>6 DEF StartEpisode
  <2>3. EpisodeOK(hist', episodes'[E + 1]) /\ GoingOn(hist', Now, 0)
    BY <1>1, <2>1, <2>2, EpisodeStarts
  <2>4. \A e \in 1..Len(episodes') : EpisodeOK(hist', episodes'[e])
    <3>1. \A e \in 1..E + 1 : e \in 1..E \/ e = E + 1
      BY <1>2
    <3> QED BY <1>3, <2>1, <2>3, <3>1
  <2>5. Covered(hist', episodes')
    <3> SUFFICES ASSUME NEW k \in 1..Len(hist'), hist'[k].order
                 PROVE  \E e \in 1..Len(episodes') :
                          /\ episodes'[e].start <= k
                          /\ episodes'[e].end = None \/ k <= episodes'[e].end
      BY DEF Covered
    <3>1. CASE k = Len(hist')
      <4>1. E + 1 \in 1..Len(episodes') /\ Now <= k
        BY <1>1, <1>2, <2>1, <3>1
      <4> QED BY <2>1, <4>1
    <3>2. CASE k # Len(hist')
      <4>1. PICK e \in 1..E : episodes[e].start <= k /\ (episodes[e].end = None \/ k <= episodes[e].end)
        BY <1>4, <3>2
      <4>2. e \in 1..Len(episodes')
        BY <1>2, <2>1
      <4> QED BY <2>1, <4>1, <4>2
    <3> QED BY <3>1, <3>2
  <2> QED BY <2>1, <2>2, <2>3, <2>4, <2>5 DEF Bounds
<1>7. CASE BreakStack(b)
  <2>1. /\ active /\ violation' = Violation(b) /\ Violation(b) > BreakBars /\ ~ active'
    BY <1>7 DEF BreakStack, Breaking
  <2>2. /\ Len(episodes') = E /\ E > 0
        /\ \A e \in 1..E : /\ episodes'[e].start = episodes[e].start
                           /\ e < E => episodes'[e] = episodes[e]
        /\ episodes'[E].end = Now
    BY <1>7, EpisodesStep
  <2>3. E \in 1..E /\ violation <= BreakBars /\ episodes[E].end = None
    BY <1>1, <1>2, <2>1, <2>2 DEF Control
  <2>4. ~ b.order /\ violation + 1 > BreakBars
    BY <1>2, <2>1, LengthsAreNat DEF Violation
  <2>5. EpisodeOK(hist', episodes'[E])
    <3>1. GoingOn(hist, episodes[E].start, violation)
      BY <2>1 DEF Bounds
    <3> QED BY <1>1, <1>2, <1>3, <2>2, <2>3, <2>4, <3>1, EpisodeEnds
  <2>6. \A e \in 1..Len(episodes') : EpisodeOK(hist', episodes'[e])
    <3>1. \A e \in 1..E : e < E \/ e = E
      BY <1>2
    <3> QED BY <1>3, <2>2, <2>5, <3>1
  <2>7. Covered(hist', episodes')
    <3> SUFFICES ASSUME NEW k \in 1..Len(hist'), hist'[k].order
                 PROVE  \E e \in 1..Len(episodes') :
                          /\ episodes'[e].start <= k
                          /\ episodes'[e].end = None \/ k <= episodes'[e].end
      BY DEF Covered
    <3>1. k # Len(hist')
      BY <1>1, <2>4
    <3>2. PICK e \in 1..E : episodes[e].start <= k /\ (episodes[e].end = None \/ k <= episodes[e].end)
      BY <1>4, <3>1
    <3>3. CASE e < E
      BY <2>2, <3>2, <3>3
    <3>4. CASE e = E
      <4>1. k <= Now
        BY <1>1
      <4> QED BY <2>2, <3>2, <3>4, <4>1
    <3> QED BY <1>2, <3>3, <3>4
  <2> QED BY <2>1, <2>6, <2>7 DEF Bounds
<1>8. CASE OpenZone(b) \/ StayAway(b) \/ InZone(b) \/ FalseBreakBar(b)
  <2>1. /\ active' = active /\ active /\ violation' = Violation(b) /\ Violation(b) <= BreakBars
        /\ episodes' = episodes
    BY <1>8 DEF OpenZone, StayAway, InZone, FalseBreakBar, Holding
  <2>2. E \in 1..E /\ episodes[E].end = None
    <3>1. E > 0
      BY <1>1, <1>2, <2>1, EmptySeq DEF Control
    <3>2. E \in 1..E
      BY <1>2, <3>1
    <3> QED BY <1>1, <2>1, <3>2 DEF Control
  <2>3. GoingOn(hist', episodes[E].start, violation')
    <3>1. GoingOn(hist, episodes[E].start, violation) /\ episodes[E].start \in 1..Len(hist)
      BY <1>3, <2>1, <2>2 DEF Bounds, EpisodeOK
    <3>2. violation' = (IF b.order THEN 0 ELSE violation + 1) /\ violation' \in Nat
      BY <1>2, <2>1 DEF Violation
    <3> QED BY <1>1, <1>2, <2>1, <3>1, <3>2, GoingOnGrows
  <2>4. Covered(hist', episodes)
    <3> SUFFICES ASSUME NEW k \in 1..Len(hist'), hist'[k].order
                 PROVE  \E e \in 1..E :
                          episodes[e].start <= k /\ (episodes[e].end = None \/ k <= episodes[e].end)
      BY DEF Covered
    <3>1. CASE k = Len(hist')
      <4>1. episodes[E].start \in 1..Len(hist)
        BY <1>3, <2>2 DEF EpisodeOK
      <4>2. episodes[E].start <= k
        BY <1>1, <3>1, <4>1
      <4> QED BY <2>2, <4>2
    <3> QED BY <1>4, <3>1
  <2> QED BY <1>3, <2>1, <2>3, <2>4 DEF Bounds
<1> QED BY <1>1, <1>5, <1>6, <1>7, <1>8 DEF Project, ZoneAbove, ZoneBelow, ZoneContact

--------------------------------------------------------------------------------
(* The touches: counted once each, none missed, and closed with the episode. *)

\* A zone that is not final has no bar on which it became so.
Unmarked == \A r \in 1..Len(touches) : ~ touches[r].final => touches[r].knownAt = None

\* The touch before was closed before the next one.
Followed == \A r \in 2..Len(touches) : ClosedAt(touches[r-1]) \in 1..touches[r].start - 1

Approach(h, t) == Above(h[t-1]) /\ Contact(h[t])

\* On bar t of episode e a touch begins, or one is under way.
Accounted(tbl, e, t) ==
  \E r \in 1..Len(tbl) :
     /\ tbl[r].episode = e /\ tbl[r].start <= t
     /\ tbl[r].start = t \/ ClosedAt(tbl[r]) = None \/ ClosedAt(tbl[r]) > t

LastOf(ep, h) == IF ep.end = None THEN Len(h) ELSE ep.end - 1

Counted ==
  \A e \in 1..Len(episodes) : \A t \in episodes[e].start + 1..LastOf(episodes[e], hist) :
     Approach(hist, t) => Accounted(touches, e, t)

\* Of an episode that ended on bar `end`, or goes on.
EndOK(row, end) ==
  /\ end = None => row.outcome # "stack_break"
  /\ end # None => /\ row.final /\ row.knownAt <= end
                   /\ row.broken => row.fbFinal
                                    /\ (row.outcome = "stack_break" <=> row.fbKnownAt = end)

Ended == \A r \in 1..Len(touches) : EndOK(touches[r], episodes[touches[r].episode].end)

TouchInv == RangesInv /\ Unmarked

\* Of a row that is closed, where and how.
LEMMA ClosedFacts ==
  ASSUME NEW h, Len(h) \in Nat, NEW row \in Rows, ZoneOK(h, row), FalseBreakOK(h, row), Closed(row)
  PROVE  /\ ClosedAt(row) \in 1..Len(h) /\ ClosedAt(row) # None
         /\ row.knownAt \in 1..Len(h) /\ (row.broken => row.fbKnownAt \in 1..Len(h))
<1>1. row.start \in 2..Len(h) /\ row.end \in row.start..Len(h)
  BY DEF ZoneOK
<1>2. row.end \in Nat /\ row.end >= 2
  BY <1>1
<1>3. row.final /\ row.knownAt \in row.end + 1..Len(h)
  BY DEF ZoneOK, Closed
<1>4. row.knownAt \in 1..Len(h) /\ row.knownAt \in Nat /\ row.knownAt >= 1
  BY <1>2, <1>3
<1>5. ASSUME row.broken PROVE row.fbKnownAt \in 1..Len(h)
  <2>1. row.fbKnownAt = row.fbEnd /\ row.fbEnd \in row.knownAt..Len(h)
    BY <1>5 DEF Closed, FalseBreakOK
  <2> QED BY <1>4, <2>1
<1>6. ClosedAt(row) \in 1..Len(h)
  BY <1>4, <1>5 DEF ClosedAt
<1>7. None \notin 1..Len(h)
  BY NoneIsApart
<1> QED BY <1>4, <1>5, <1>6, <1>7

\* A row is closed on the bar of a step or stays as it was.
LEMMA RowStep ==
  ASSUME TouchInv, NEW b \in Candles, Step(b), NEW r \in 1..Len(touches)
  PROVE  /\ ~ touches'[r].final => touches'[r].knownAt = None
         /\ ClosedAt(touches[r]) # None => ClosedAt(touches'[r]) = ClosedAt(touches[r])
         /\ ClosedAt(touches[r]) = None => ClosedAt(touches'[r]) \in {None, Now}
<1>1. /\ Core /\ OpenAsPhase /\ RowRanges /\ Unmarked /\ Types /\ Control /\ Table
      /\ phase = "zone" => OpenRow.fbKnownAt = None
  BY DEF TouchInv, RangesInv, Past, Ranges, RowRanges, Core
<1>2. Len(touches) \in Nat
  BY <1>1 DEF Types
<1>3. ~ touches[r].final => touches[r].knownAt = None
  BY <1>1 DEF Unmarked
<1>4. CASE touches'[r] = touches[r]
  BY <1>3, <1>4
\* The last row, when it is open.
<1>5. ASSUME r = Len(touches), phase \in Open PROVE touches[r] = OpenRow
  BY <1>5, Zenon DEF OpenRow
<1>6. ASSUME r = Len(touches), RowsKept PROVE touches'[r] = OpenRow'
  BY <1>6 DEF OpenRow, RowsKept
<1>7. ASSUME RowsKept, r # Len(touches) PROVE touches'[r] = touches[r]
  <2>1. r < Len(touches)
    BY <1>2, <1>7
  <2> QED BY <1>7, <2>1 DEF RowsKept
<1>8. CASE Passes \/ GoesOn(b)
  BY <1>4, <1>8 DEF Passes, GoesOn
<1>9. CASE OpenZone(b)
  <2>1. touches' = Append(touches, NewRow(b))
    BY <1>9 DEF OpenZone
  <2>2. touches'[r] = touches[r]
    BY <1>1, <2>1, NewRowAdded
  <2> QED BY <1>4, <2>2
<1>10. CASE Reaches(b)
  <2>1. CASE r = Len(touches)
    <3>1. touches[r] = OpenRow /\ touches'[r] = OpenRow'
      BY <1>5, <1>6, <1>10, <2>1 DEF Reaches, Open
    <3>2. /\ touches'[r].final = touches[r].final /\ touches'[r].knownAt = touches[r].knownAt
          /\ touches'[r].broken = touches[r].broken
          /\ touches'[r].fbKnownAt = touches[r].fbKnownAt
      BY <1>10, <3>1 DEF Reaches, IsReached, SameFalseBreak
    <3> QED BY <1>3, <3>2 DEF ClosedAt
  <2> QED BY <1>4, <1>7, <1>10, <2>1 DEF Reaches
<1>11. CASE Settles(b)
  <2>1. CASE r = Len(touches)
    <3>1. touches[r] = OpenRow /\ touches'[r] = OpenRow'
      BY <1>5, <1>6, <1>11, <2>1 DEF Settles, Open
    <3>2. ~ touches[r].final /\ ~ touches[r].broken
      BY <1>1, <1>11, <3>1 DEF Settles, OpenAsPhase
    <3>3. touches'[r].final /\ touches'[r].knownAt = Now /\ ~ touches'[r].broken
      BY <1>11, <3>1, <3>2 DEF Settles, IsSettled, SameFalseBreak
    <3> QED BY <1>3, <3>2, <3>3 DEF ClosedAt
  <2> QED BY <1>4, <1>7, <1>11, <2>1 DEF Settles
<1>12. CASE Reveals(b)
  <2>1. CASE r = Len(touches)
    <3>1. touches[r] = OpenRow /\ touches'[r] = OpenRow'
      BY <1>5, <1>6, <1>12, <2>1 DEF Reveals, Open
    <3>2. ~ touches[r].final /\ ~ touches[r].broken /\ touches[r].fbKnownAt = None
      BY <1>1, <1>12, <3>1 DEF Reveals, OpenAsPhase
    <3>3. /\ touches'[r].final /\ touches'[r].broken
          /\ touches'[r].fbKnownAt = touches[r].fbKnownAt
      BY <1>12, <3>1 DEF Reveals, IsRevealed
    <3> QED BY <1>3, <3>2, <3>3 DEF ClosedAt
  <2> QED BY <1>4, <1>7, <1>12, <2>1 DEF Reveals
<1>13. CASE Prolongs(b) \/ ComesBack(b) \/ BreaksOff(b)
  <2>0. /\ phase = "false_break" /\ RowsKept /\ IsLonger(OpenRow, OpenRow', Now, b)
        /\ \/ IsOpen(OpenRow, OpenRow')
           \/ OpenRow'.fbKnownAt = Now
    BY <1>13 DEF Prolongs, ComesBack, BreaksOff, IsResolved
  <2>1. CASE r = Len(touches)
    <3>1. touches[r] = OpenRow /\ touches'[r] = OpenRow'
      BY <1>5, <1>6, <2>0, <2>1 DEF Open
    <3>2. touches[r].final /\ touches[r].broken /\ touches[r].fbKnownAt = None
      <4>1. touches[r].final /\ touches[r].broken /\ ~ touches[r].fbFinal
        BY <1>1, <2>0, <3>1 DEF OpenAsPhase
      <4>2. FalseBreakOK(hist, touches[r])
        BY <1>1 DEF RowRanges
      <4> QED BY <4>1, <4>2 DEF FalseBreakOK
    <3>3. touches'[r].final /\ touches'[r].broken
      BY <2>0, <3>1, <3>2 DEF IsLonger
    <3>4. touches'[r].fbKnownAt \in {None, Now}
      BY <2>0, <3>1, <3>2 DEF IsOpen
    <3> QED BY <3>2, <3>3, <3>4 DEF ClosedAt
  <2> QED BY <1>4, <1>7, <2>0, <2>1
<1> QED BY <1>1, <1>8, <1>9, <1>10, <1>11, <1>12, <1>13, LastRowStep

LEMMA UnmarkedStep ==
  ASSUME TouchInv, NEW b \in Candles, Step(b)
  PROVE  Unmarked'
<1>1. Core /\ Types /\ Len(touches) \in Nat
  BY DEF TouchInv, RangesInv, Past, Core, Types
<1>2. CASE OpenZone(b)
  <2>1. touches' = Append(touches, NewRow(b))
    BY <1>2 DEF OpenZone
  <2>2. Len(touches') = Len(touches) + 1 /\ touches'[Len(touches) + 1] = NewRow(b)
    BY <1>1, <2>1, NewRowAdded
  <2>3. NewRow(b).knownAt = None
    BY DEF NewRow
  <2>4. \A r \in 1..Len(touches') : r \in 1..Len(touches) \/ r = Len(touches) + 1
    BY <1>1, <2>2
  <2> QED BY <2>2, <2>3, <2>4, RowStep DEF Unmarked
<1>3. CASE ~ OpenZone(b)
  <2>1. Len(touches') = Len(touches)
    BY <1>1, <1>3, RowsStep DEF RowsKept
  <2> QED BY <2>1, RowStep DEF Unmarked
<1> QED BY <1>2, <1>3

LEMMA FollowedStep ==
  ASSUME TouchInv, Followed, NEW b \in Candles, Step(b)
  PROVE  Followed'
<1>1. /\ Core /\ Types /\ Len(touches) \in Nat /\ RowRanges /\ touches \in Seq(Rows)
      /\ Len(hist) \in Nat /\ Now = Len(hist) + 1
  BY StepFacts, SMTT(30) DEF TouchInv, RangesInv, Past, Ranges, RowRanges, Core, Types
<1>2. ASSUME NEW r \in 2..Len(touches)
      PROVE  ClosedAt(touches'[r-1]) \in 1..touches'[r].start - 1
  <2>1. r \in 1..Len(touches) /\ r - 1 \in 1..Len(touches)
    BY <1>1
  <2>2. touches'[r].start = touches[r].start
    BY <1>1, <2>1, RowsOnlyGrow DEF SameTouch
  <2>3. ClosedAt(touches[r-1]) \in 1..touches[r].start - 1
    BY DEF Followed
  <2>4. ClosedAt(touches[r-1]) # None
    BY <2>3, NoneIsApart
  <2> QED BY <2>1, <2>2, <2>3, <2>4, RowStep
<1>3. CASE OpenZone(b)
  <2>1. touches' = Append(touches, NewRow(b)) /\ phase = "away"
    BY <1>3 DEF OpenZone
  <2>2. /\ Len(touches') = Len(touches) + 1 /\ touches'[Len(touches) + 1] = NewRow(b)
        /\ \A r \in 1..Len(touches) : touches'[r] = touches[r]
    BY <1>1, <2>1, NewRowAdded
  <2>3. NewRow(b).start = Now
    BY DEF NewRow
  <2>4. ASSUME NEW r \in 2..Len(touches'), r = Len(touches) + 1
        PROVE  ClosedAt(touches'[r-1]) \in 1..touches'[r].start - 1
    <3>1. Len(touches) \in 1..Len(touches) /\ r - 1 = Len(touches)
      BY <1>1, <2>4
    <3>2. touches'[r-1] = touches[Len(touches)]
      BY <2>2, <3>1
    <3>3. /\ touches[Len(touches)] \in Rows /\ ZoneOK(hist, touches[Len(touches)])
          /\ FalseBreakOK(hist, touches[Len(touches)]) /\ Closed(touches[Len(touches)])
      BY <1>1, <2>1, <3>1 DEF RowRanges, Open
    <3>4. ClosedAt(touches[Len(touches)]) \in 1..Len(hist)
      BY <1>1, <3>3, ClosedFacts
    <3>5. touches'[r].start - 1 = Len(hist)
      BY <1>1, <2>2, <2>3, <2>4
    <3> QED BY <3>2, <3>4, <3>5
  <2>5. \A r \in 2..Len(touches') : r \in 2..Len(touches) \/ r = Len(touches) + 1
    BY <1>1, <2>2
  <2> QED BY <1>2, <2>4, <2>5 DEF Followed
<1>4. CASE ~ OpenZone(b)
  <2>1. Len(touches') = Len(touches)
    BY <1>1, <1>4, RowsStep DEF RowsKept
  <2> QED BY <1>2, <2>1 DEF Followed
<1> QED BY <1>3, <1>4

\* A row changes only where it is open, and it is the last one then.
LEMMA ChangedRow ==
  ASSUME TouchInv, NEW b \in Candles, Step(b), NEW r \in 1..Len(touches),
         touches'[r] # touches[r]
  PROVE  /\ r = Len(touches) /\ phase \in Open /\ touches[r] = OpenRow /\ touches'[r] = OpenRow'
         /\ touches[r].episode = Len(episodes) /\ active
         /\ Reaches(b) \/ Settles(b) \/ Reveals(b) \/ Prolongs(b) \/ ComesBack(b) \/ BreaksOff(b)
<1>1. Core /\ Types /\ Control /\ Table
  BY DEF TouchInv, RangesInv, Past, Core
<1>2. ~ Passes /\ ~ GoesOn(b)
  BY DEF Passes, GoesOn
<1>3. ~ OpenZone(b)
  <2>1. CASE touches' = Append(touches, NewRow(b))
    BY <1>1, <2>1, NewRowAdded
  <2> QED BY <2>1 DEF OpenZone
<1>4. Reaches(b) \/ Settles(b) \/ Reveals(b) \/ Prolongs(b) \/ ComesBack(b) \/ BreaksOff(b)
  BY <1>1, <1>2, <1>3, LastRowStep
<1>5. RowsKept /\ phase \in Open
  BY <1>4 DEF Reaches, Settles, Reveals, Prolongs, ComesBack, BreaksOff, Open
<1>6. r = Len(touches)
  <2>1. ~ (r < Len(touches))
    BY <1>5 DEF RowsKept
  <2>2. Len(touches) \in Nat
    BY <1>1 DEF Types
  <2> QED BY <2>1, <2>2
<1>7. touches[r] = OpenRow /\ touches'[r] = OpenRow'
  BY <1>5, <1>6 DEF OpenRow, RowsKept
<1>8. active /\ touchNumber > 0
  BY <1>1, <1>5, OpenRowFacts DEF Open
<1>9. touches[r].episode = Len(episodes)
  BY <1>1, <1>6, <1>8 DEF Table
<1> QED BY <1>4, <1>5, <1>6, <1>7, <1>8, <1>9

LEMMA EndedStep ==
  ASSUME TouchInv, Ended, NEW b \in Candles, Step(b)
  PROVE  Ended'
<1> DEFINE T == Len(touches)
           E == Len(episodes)
<1>1. /\ Core /\ Types /\ Control /\ Table /\ OpenAsPhase /\ RowRanges /\ T \in Nat /\ E \in Nat
      /\ phase = "zone" => OpenRow.outcome = None
      /\ Project(b) /\ Len(hist) \in Nat /\ Now = Len(hist) + 1
  <2>1. /\ Core /\ Types /\ Control /\ Table /\ OpenAsPhase /\ RowRanges
        /\ phase = "zone" => OpenRow.outcome = None
    BY DEF TouchInv, RangesInv, Past, Ranges, RowRanges, Core
  <2>2. T \in Nat /\ E \in Nat
    BY <2>1 DEF Types
  <2>3. Project(b) /\ Len(hist) \in Nat /\ Now = Len(hist) + 1
    BY <2>1, StepFacts
  <2> QED BY <2>1, <2>2, <2>3
<1>2. Now # None /\ None # "comeback" /\ None # "stack_break"
  BY <1>1, NoneIsApart
<1>3. ASSUME NEW r \in 1..T
      PROVE  /\ touches[r] \in Rows /\ touches[r].episode \in 1..E
             /\ touches'[r].episode = touches[r].episode
             /\ EndOK(touches[r], episodes[touches[r].episode].end)
             /\ ZoneOK(hist, touches[r]) /\ FalseBreakOK(hist, touches[r])
             /\ r < T \/ phase \notin Open => Closed(touches[r])
  <2>1. touches \in Seq(Rows)
    BY <1>1 DEF Types
  <2>2. touches[r] \in Rows
    BY <2>1
  <2> QED BY <1>1, <2>2, RowsOnlyGrow DEF Table, SameTouch, Ended, RowRanges
<1>4. active => \A e \in 1..E : e = E => episodes[e].end = None
  BY <1>1 DEF Control
<1>5. ASSUME NEW r \in 1..T, BreakStack(b)
      PROVE  EndOK(touches'[r], episodes'[touches[r].episode].end)
  <2> DEFINE e == touches[r].episode
  <2>1. active
    BY <1>5 DEF BreakStack, Breaking
  <2>2. (e < E => episodes'[e] = episodes[e]) /\ (e = E => episodes'[e].end = Now)
    BY <1>1, <1>3, <1>5, EpisodesStep
  <2>3. CASE e < E
    <3>1. touches'[r] = touches[r]
      BY <1>1, <1>5, <2>3, ChangedRow
    <3> QED BY <1>3, <2>2, <2>3, <3>1
  <2>4. CASE e = E
    <3>1. episodes'[e].end = Now /\ episodes[e].end = None
      BY <1>3, <1>4, <2>1, <2>2, <2>4
    <3>2. touches[r].outcome # "stack_break"
      BY <1>3, <3>1 DEF EndOK
    <3>3. CASE touches'[r] = touches[r]
      <4>1. Closed(touches[r])
        <5>1. CASE phase \in Open
          <6>1. Settles(b) \/ BreaksOff(b)
            BY <1>1, <1>5, <5>1, LastRowStep
               DEF Passes, OpenZone, GoesOn, Reaches, Reveals, Prolongs, ComesBack, ZoneAbove,
                   ZoneBelow, ZoneContact, FalseBreakBar, InZone, Holding, BreakStack, Breaking, Open
          <6>2. OpenRow'.final /\ (OpenRow'.broken => OpenRow'.fbFinal)
            <7>1. CASE Settles(b)
              BY <1>1, <7>1 DEF Settles, IsSettled, SameFalseBreak, OpenAsPhase
            <7>2. CASE BreaksOff(b)
              BY <1>1, <7>2 DEF BreaksOff, IsLonger, IsResolved, OpenAsPhase
            <7> QED BY <6>1, <7>1, <7>2
          <6>3. RowsKept
            BY <6>1 DEF Settles, BreaksOff
          <6>4. CASE r = T
            <7>1. OpenRow' = touches'[r]
              BY <6>3, <6>4 DEF OpenRow, RowsKept
            <7> QED BY <3>3, <6>2, <7>1 DEF Closed
          <6>5. CASE r # T
            <7>1. r < T
              BY <1>1, <6>5
            <7> QED BY <1>3, <7>1
          <6> QED BY <6>4, <6>5
        <5> QED BY <1>3, <5>1
      <4>2. touches[r].knownAt \in 1..Len(hist)
            /\ (touches[r].broken => touches[r].fbKnownAt \in 1..Len(hist))
        BY <1>1, <1>3, <4>1, ClosedFacts
      <4> QED BY <1>1, <1>2, <3>1, <3>2, <3>3, <4>1, <4>2 DEF EndOK, Closed
    <3>4. CASE touches'[r] # touches[r]
      <4>1. touches[r] = OpenRow /\ touches'[r] = OpenRow'
            /\ (Reaches(b) \/ Settles(b) \/ Reveals(b) \/ Prolongs(b) \/ ComesBack(b) \/ BreaksOff(b))
        BY <3>4, ChangedRow
      <4>2. Settles(b) \/ BreaksOff(b)
        BY <1>5, <4>1 DEF Reaches, Reveals, Prolongs, ComesBack, ZoneBelow, ZoneContact,
                          FalseBreakBar, InZone, Holding, BreakStack, Breaking
      <4>3. CASE Settles(b)
        <5>1. OpenRow'.final /\ OpenRow'.knownAt = Now /\ ~ OpenRow'.broken
          BY <1>1, <4>3 DEF Settles, IsSettled, SameFalseBreak, OpenAsPhase
        <5> QED BY <1>1, <1>2, <3>1, <4>1, <5>1 DEF EndOK
      <4>4. CASE BreaksOff(b)
        <5>1. /\ OpenRow'.final /\ OpenRow'.knownAt = OpenRow.knownAt /\ OpenRow'.fbFinal
              /\ OpenRow'.outcome = "stack_break" /\ OpenRow'.fbKnownAt = Now
          BY <1>1, <4>4 DEF BreaksOff, IsLonger, IsResolved, OpenAsPhase
        <5>2. OpenRow.knownAt <= Now
          <6>1. OpenRow.final
            BY <1>1, <4>4 DEF BreaksOff, OpenAsPhase
          <6>2. touches[r].knownAt \in touches[r].end + 1..Len(hist) /\ touches[r].end \in Nat
            BY <1>3, <4>1, <6>1 DEF ZoneOK, Rows
          <6> QED BY <1>1, <4>1, <6>2
        <5> QED BY <1>2, <3>1, <4>1, <5>1, <5>2 DEF EndOK
      <4> QED BY <4>2, <4>3, <4>4
    <3> QED BY <3>3, <3>4
  <2> QED BY <1>1, <1>3, <2>3, <2>4
<1>6. ASSUME NEW r \in 1..T, ~ BreakStack(b)
      PROVE  EndOK(touches'[r], episodes'[touches[r].episode].end)
  <2> DEFINE e == touches[r].episode
  <2>1. episodes'[e] = episodes[e]
    BY <1>1, <1>3, <1>6, EpisodesStep
  <2>2. CASE touches'[r] # touches[r]
    <3>1. /\ touches[r] = OpenRow /\ touches'[r] = OpenRow' /\ e = E /\ active
          /\ Reaches(b) \/ Settles(b) \/ Reveals(b) \/ Prolongs(b) \/ ComesBack(b)
      BY <1>6, <2>2, ChangedRow DEF BreaksOff
    <3>2. episodes[e].end = None
      BY <1>3, <1>4, <3>1
    <3>3. OpenRow.outcome # "stack_break"
      BY <1>3, <3>1, <3>2 DEF EndOK
    <3>4. OpenRow'.outcome # "stack_break"
      BY <3>1, <3>3 DEF Reaches, IsReached, Settles, IsSettled, SameFalseBreak, Reveals, IsRevealed,
                        Prolongs, IsOpen, ComesBack, IsResolved
    <3> QED BY <2>1, <3>1, <3>2, <3>4 DEF EndOK
  <2> QED BY <1>3, <2>1, <2>2
<1>7. CASE OpenZone(b)
  <2>1. touches' = Append(touches, NewRow(b)) /\ active /\ ~ BreakStack(b) /\ ~ StartEpisode(b)
    BY <1>7 DEF OpenZone, Holding, BreakStack, Breaking, StartEpisode
  <2>2. /\ Len(touches') = T + 1 /\ touches'[T + 1] = NewRow(b) /\ NewRow(b).episode = E
        /\ \A r \in 1..T : touches'[r] = touches[r]
    BY <1>1, <2>1, NewRowAdded
  <2>3. NewRow(b).outcome = None /\ episodes' = episodes
    BY <2>1, EpisodesStep, <1>1 DEF NewRow
  <2>4. episodes[E].end = None
    <3>1. E \in 1..E
      BY <1>1, <2>1, EmptySeq DEF Control, Types
    <3> QED BY <1>4, <2>1, <3>1
  <2>5. EndOK(NewRow(b), episodes'[NewRow(b).episode].end)
    BY <1>2, <2>2, <2>3, <2>4 DEF EndOK
  <2>6. \A r \in 1..Len(touches') : r \in 1..T \/ r = T + 1
    BY <1>1, <2>2
  <2> QED BY <1>6, <2>1, <2>2, <2>5, <2>6 DEF Ended
<1>8. CASE ~ OpenZone(b)
  <2>1. Len(touches') = T
    BY <1>1, <1>8, RowsStep DEF RowsKept
  <2> QED BY <1>3, <1>5, <1>6, <2>1 DEF Ended
<1> QED BY <1>7, <1>8

LEMMA CountedStep ==
  ASSUME TouchInv, Bounds, Counted, NEW b \in Candles, Step(b)
  PROVE  Counted'
<1> DEFINE T == Len(touches)
           E == Len(episodes)
<1>1. Core /\ Types /\ Control /\ Table /\ OpenAsPhase /\ RowRanges /\ Unmarked
  BY DEF TouchInv, RangesInv, Past, Ranges, RowRanges, Core
<1>2. /\ T \in Nat /\ E \in Nat /\ Project(b) /\ Longer(hist, hist', b)
      /\ Len(hist) \in Nat /\ Now = Len(hist) + 1 /\ Now = Len(hist') /\ Now \in Nat
      /\ hist'[Now] = b /\ \A k \in 1..Len(hist) : hist'[k] = hist[k]
  BY <1>1, StepFacts DEF Types, Longer
<1>3. Now # None
  BY <1>2, NoneIsApart
<1>4. \A e \in 1..E : episodes[e].start \in 1..Len(hist)
  BY DEF Bounds, EpisodeOK
\* What was accounted for on a bar before stays so.
<1>5. ASSUME NEW e, NEW t \in 1..Len(hist), Accounted(touches, e, t)
      PROVE  Accounted(touches', e, t)
  <2>1. PICK r \in 1..T : /\ touches[r].episode = e /\ touches[r].start <= t
                          /\ \/ touches[r].start = t \/ ClosedAt(touches[r]) = None
                             \/ ClosedAt(touches[r]) > t
    BY <1>5 DEF Accounted
  <2>2. touches'[r].episode = e /\ touches'[r].start = touches[r].start /\ r \in 1..Len(touches')
    BY <1>1, <1>2, <2>1, RowsOnlyGrow DEF SameTouch
  <2>3. \/ touches'[r].start = t \/ ClosedAt(touches'[r]) = None \/ ClosedAt(touches'[r]) > t
    <3>1. CASE touches[r].start = t
      BY <2>2, <3>1
    <3>2. CASE ClosedAt(touches[r]) = None
      <4>1. ClosedAt(touches'[r]) \in {None, Now}
        BY <3>2, RowStep
      <4>2. Now > t
        BY <1>2
      <4> QED BY <4>1, <4>2
    <3>3. CASE ClosedAt(touches[r]) # None /\ ClosedAt(touches[r]) > t
      BY <3>3, RowStep
    <3> QED BY <2>1, <3>1, <3>2, <3>3
  <2> QED BY <2>1, <2>2, <2>3 DEF Accounted
\* The new bar, in an episode that goes on.
<1>6. ASSUME active, ~ BreakStack(b), Approach(hist', Now), Len(hist) \in 1..Len(hist)
      PROVE  Accounted(touches', E, Now)
  <2>1. Contact(b) /\ Above(hist[Len(hist)]) /\ Above(Bar(Len(bars)))
    <3>1. Bar(Len(bars)) = hist[Len(hist)]
      BY <1>1, <1>2, <1>6, HistoryOK DEF Types
    <3>2. Now - 1 = Len(hist)
      BY <1>2
    <3> QED BY <1>2, <1>6, <3>1, <3>2 DEF Approach
  <2>2. ~ Idle(b) /\ ~ StartEpisode(b) /\ ~ ZoneAbove(b) /\ ~ ZoneBelow(b)
    BY <1>6, <2>1 DEF Idle, StartEpisode, ZoneAbove, ZoneBelow, Contact
  <2>3. ~ StayAway(b)
    <3>1. Touches(b)
      BY <2>1, CandleFacts DEF Touches, Contact, Above, Below
    <3> QED BY <3>1 DEF StayAway
  <2>4. CASE OpenZone(b)
    <3>1. touches' = Append(touches, NewRow(b))
      BY <2>4 DEF OpenZone
    <3>2. Len(touches') = T + 1 /\ touches'[T + 1] = NewRow(b) /\ NewRow(b).episode = E
      BY <1>1, <3>1, NewRowAdded
    <3>3. NewRow(b).start = Now /\ T + 1 \in 1..Len(touches') /\ Now <= Now
      BY <1>2, <3>2 DEF NewRow
    <3> QED BY <3>2, <3>3 DEF Accounted
  <2>5. CASE ZoneContact(b) \/ FalseBreakBar(b)
    <3>1. /\ phase \in Open /\ (ZoneContact(b) => phase = "zone")
          /\ (FalseBreakBar(b) => phase = "false_break")
      BY <2>5 DEF ZoneContact, InZone, FalseBreakBar, Open
    <3>2. T \in 1..T /\ touchNumber > 0 /\ OpenRow \in Rows
      BY <1>1, <3>1, OpenRowFacts DEF Open
    <3>3. touches[T].episode = E /\ ZoneOK(hist, touches[T]) /\ FalseBreakOK(hist, touches[T])
      BY <1>1, <3>2 DEF Table, RowRanges
    <3>4. touches[T].start <= Now
      <4>1. touches[T].start \in 2..Len(hist)
        BY <3>3 DEF ZoneOK
      <4> QED BY <1>2, <4>1
    <3>5. T \in 1..Len(touches') /\ touches'[T].episode = E /\ touches'[T].start = touches[T].start
      BY <1>1, <1>2, <3>2, <3>3, RowsOnlyGrow DEF SameTouch
    <3>6. ClosedAt(touches'[T]) = None
      <4>1. Reaches(b) \/ Prolongs(b) \/ ComesBack(b)
        BY <1>1, <1>6, <2>1, <2>2, <2>5, <3>1, LastRowStep
           DEF Passes, OpenZone, GoesOn, Settles, Reveals, BreaksOff, Open
      <4>2. CASE Reaches(b)
        <5>1. touches'[T] = OpenRow' /\ touches[T] = OpenRow
          BY <4>2 DEF Reaches, RowsKept, OpenRow
        <5>2. ~ OpenRow.final /\ ~ OpenRow.broken
          BY <1>1, <4>2 DEF Reaches, OpenAsPhase
        <5>3. OpenRow.knownAt = None
          BY <1>1, <3>2, <5>1, <5>2 DEF Unmarked
        <5>4. ~ OpenRow'.broken /\ OpenRow'.knownAt = None
          BY <4>2, <5>2, <5>3 DEF Reaches, IsReached, SameFalseBreak
        <5> QED BY <5>1, <5>4 DEF ClosedAt
      <4>3. CASE Prolongs(b)
        <5>1. touches'[T] = OpenRow' /\ touches[T] = OpenRow
          BY <4>3 DEF Prolongs, RowsKept, OpenRow
        <5>2. OpenRow.broken /\ ~ OpenRow.fbFinal
          BY <1>1, <4>3 DEF Prolongs, OpenAsPhase
        <5>3. OpenRow.fbKnownAt = None
          BY <3>3, <5>1, <5>2 DEF FalseBreakOK
        <5>4. OpenRow'.broken /\ OpenRow'.fbKnownAt = None
          BY <4>3, <5>2, <5>3 DEF Prolongs, IsLonger, IsOpen
        <5> QED BY <5>1, <5>4 DEF ClosedAt
      \* No comeback on this bar: the bar before was wholly above the anchor
      \* already, and would have been one.
      <4>4. ~ ComesBack(b)
        <5> SUFFICES ASSUME ComesBack(b) PROVE FALSE
          OBVIOUS
        <5>1. phase = "false_break" /\ touches[T] = OpenRow
          BY DEF ComesBack, OpenRow
        <5>2. OpenRow.broken /\ ~ OpenRow.fbFinal /\ OpenRow.fbEnd = Len(hist)
          BY <1>1, <5>1 DEF OpenAsPhase, TouchInv, RangesInv, Ranges
        <5>3. hist[Len(hist)].close <= hist[Len(hist)].anchor
          BY <3>3, <5>1, <5>2 DEF FalseBreakOK
        <5>4. /\ hist[Len(hist)].low <= hist[Len(hist)].close /\ hist[Len(hist)].low \in Int
              /\ hist[Len(hist)].close \in Int /\ hist[Len(hist)].anchor \in Int
          BY <1>2, <1>6, CandleAt DEF Longer
        <5> QED BY <2>1, <5>3, <5>4 DEF Above
      <4> QED BY <4>1, <4>2, <4>3, <4>4
    <3> QED BY <3>4, <3>5, <3>6 DEF Accounted
  <2> QED BY <1>2, <1>6, <2>2, <2>3, <2>4, <2>5 DEF Project
\* The bars an episode must account for.
<1>7. ASSUME NEW e \in 1..E, NEW t \in episodes[e].start + 1..LastOf(episodes[e], hist),
             Approach(hist', t)
      PROVE  Accounted(touches', e, t)
  <2>1. t \in 1..Len(hist) /\ t - 1 \in 1..Len(hist)
    <3>1. episodes[e].end # None => episodes[e].end \in episodes[e].start + BreakBars + 1..Len(hist)
      BY DEF Bounds, EpisodeOK
    <3>2. LastOf(episodes[e], hist) \in Int /\ LastOf(episodes[e], hist) <= Len(hist)
      <4>1. episodes[e].start \in Nat /\ BreakBars \in Nat
        BY <1>4, LengthsAreNat
      <4> QED BY <1>2, <3>1, <4>1 DEF LastOf
    <3>3. episodes[e].start \in 1..Len(hist)
      BY <1>4
    <3> QED BY <1>2, <3>2, <3>3
  <2>2. Approach(hist, t)
    BY <1>2, <1>7, <2>1 DEF Approach
  <2> QED BY <1>5, <2>1, <2>2 DEF Counted
<1>8. ASSUME NEW e \in 1..Len(episodes'), NEW t \in episodes'[e].start + 1..LastOf(episodes'[e], hist'),
             Approach(hist', t)
      PROVE  Accounted(touches', e, t)
  <2>1. CASE StartEpisode(b)
    <3>1. /\ Len(episodes') = E + 1 /\ \A d \in 1..E : episodes'[d] = episodes[d]
          /\ episodes'[E + 1].start = Now /\ episodes'[E + 1].end = None
      BY <1>1, <2>1, EpisodesStep
    <3>2. CASE e = E + 1
      <4>1. t \in Now + 1..Now
        BY <1>2, <1>8, <3>1, <3>2 DEF LastOf
      <4> QED BY <1>2, <4>1
    <3>3. CASE e \in 1..E
      <4>1. episodes[e].end # None
        BY <1>1, <2>1, <3>3 DEF Control, StartEpisode
      <4>2. LastOf(episodes'[e], hist') = LastOf(episodes[e], hist)
        BY <3>1, <3>3, <4>1 DEF LastOf
      <4> QED BY <1>7, <1>8, <3>1, <3>3, <4>2
    <3> QED BY <1>2, <3>1, <3>2, <3>3
  <2>2. CASE BreakStack(b)
    <3>1. /\ Len(episodes') = E /\ \A d \in 1..E : /\ episodes'[d].start = episodes[d].start
                                                   /\ d < E => episodes'[d] = episodes[d]
          /\ episodes'[E].end = Now
      BY <1>1, <2>2, EpisodesStep
    <3>2. active
      BY <2>2 DEF BreakStack, Breaking
    <3>3. LastOf(episodes'[e], hist') = LastOf(episodes[e], hist)
      <4>1. CASE e = E
        <5>1. episodes[e].end = None
          BY <1>1, <3>1, <3>2, <4>1 DEF Control
        <5>2. LastOf(episodes'[e], hist') = Now - 1
          BY <1>3, <3>1, <4>1 DEF LastOf
        <5> QED BY <1>2, <5>1, <5>2 DEF LastOf
      <4>2. CASE e < E
        <5>1. episodes'[e] = episodes[e] /\ e \in 1..E
          BY <3>1, <4>2
        <5>2. episodes[e].end # None
          BY <1>1, <1>2, <4>2, <5>1 DEF Control
        <5> QED BY <5>1, <5>2 DEF LastOf
      <4> QED BY <1>2, <3>1, <4>1, <4>2
    <3>4. e \in 1..E /\ episodes'[e].start = episodes[e].start
      BY <3>1
    <3> QED BY <1>7, <1>8, <3>3, <3>4
  <2>3. CASE ~ StartEpisode(b) /\ ~ BreakStack(b)
    <3>1. episodes' = episodes /\ e \in 1..E
      BY <1>1, <2>3, EpisodesStep
    <3>2. CASE episodes[e].end = None
      <4>1. active /\ e = E
        BY <1>1, <3>1, <3>2 DEF Control
      <4>2. t \in episodes[e].start + 1..Now
        BY <1>2, <1>8, <3>1, <3>2 DEF LastOf
      <4>3. CASE t = Now
        <5>1. episodes[e].start \in 1..Len(hist)
          BY <1>4, <3>1
        <5>2. Len(hist) \in 1..Len(hist)
          BY <1>2, <5>1
        <5> QED BY <1>6, <1>8, <2>3, <4>1, <4>3, <5>2
      <4>4. CASE t # Now
        <5>1. episodes[e].start \in 1..Len(hist)
          BY <1>4, <3>1
        <5>2. t \in episodes[e].start + 1..LastOf(episodes[e], hist)
          BY <1>2, <3>2, <4>2, <4>4, <5>1 DEF LastOf
        <5> QED BY <1>7, <1>8, <3>1, <5>2
      <4> QED BY <4>3, <4>4
    <3>3. CASE episodes[e].end # None
      <4>1. LastOf(episodes'[e], hist') = LastOf(episodes[e], hist)
        BY <3>1, <3>3 DEF LastOf
      <4> QED BY <1>7, <1>8, <3>1, <4>1
    <3> QED BY <3>2, <3>3
  <2> QED BY <2>1, <2>2, <2>3
<1> QED BY <1>8 DEF Counted

--------------------------------------------------------------------------------
(* The waves, by their definition over the whole history. *)

\* The first of the lowest lows of a stretch.
EarliestBottom(h, i, j, k) ==
  /\ k \in i..j
  /\ \A l \in i..j : h[k].low <= h[l].low
  /\ \A l \in i..k - 1 : h[k].low < h[l].low

LEMMA EarliestBottomGrows ==
  ASSUME NEW h, NEW g, NEW b, Longer(h, g, b),
         NEW i \in 1..Len(h), NEW k, EarliestBottom(h, i, Len(h), k)
  PROVE  EarliestBottom(g, i, Len(g), IF b.low < h[k].low THEN Len(g) ELSE k)
<1>1. b.low \in Int /\ g[Len(g)] = b /\ Len(g) = Len(h) + 1 /\ Len(h) \in Nat
  BY CandleFacts DEF Longer
<1>2. \A l \in i..Len(h) : g[l].low = h[l].low /\ h[l].low \in Int
  BY CandleAt DEF Longer
<1>3. \A l \in i..Len(g) : l \in i..Len(h) \/ l = Len(g)
  BY <1>1
<1>4. k \in i..Len(h)
  BY DEF EarliestBottom
<1>5. CASE b.low < h[k].low
  <2>1. \A l \in i..Len(g) - 1 : g[Len(g)].low < g[l].low
    BY <1>1, <1>2, <1>4, <1>5 DEF EarliestBottom
  <2>2. \A l \in i..Len(g) : g[Len(g)].low <= g[l].low
    BY <1>1, <1>2, <1>3, <2>1
  <2> QED BY <1>1, <1>5, <2>1, <2>2 DEF EarliestBottom
<1>6. CASE ~ (b.low < h[k].low)
  <2>1. \A l \in i..k - 1 : g[k].low < g[l].low
    BY <1>1, <1>2, <1>4 DEF EarliestBottom
  <2>2. \A l \in i..Len(g) : g[k].low <= g[l].low
    BY <1>1, <1>2, <1>3, <1>4, <1>6 DEF EarliestBottom
  <2> QED BY <1>1, <1>4, <1>6, <2>1, <2>2 DEF EarliestBottom
<1> QED BY <1>5, <1>6

LEMMA EarliestBottomKept ==
  ASSUME NEW h, NEW g, NEW b, Longer(h, g, b), NEW i \in 1..Len(h), NEW j \in 1..Len(h), NEW k
  PROVE  EarliestBottom(g, i, j, k) <=> EarliestBottom(h, i, j, k)
<1>1. \A l \in i..j : g[l] = h[l]
  BY DEF Longer
<1>2. ASSUME k \in i..j PROVE g[k] = h[k] /\ \A l \in i..k - 1 : g[l] = h[l]
  BY <1>1, <1>2
<1> QED BY <1>1, <1>2 DEF EarliestBottom

LEMMA BottomAlone ==
  ASSUME NEW g, Len(g) \in Nat, g[Len(g)].low \in Int
  PROVE  EarliestBottom(g, Len(g), Len(g), Len(g))
<1>1. Len(g) \in Len(g)..Len(g) /\ \A l \in Len(g)..Len(g) : l = Len(g)
  OBVIOUS
<1>2. \A l \in Len(g)..Len(g) - 1 : FALSE
  OBVIOUS
<1> QED BY <1>1, <1>2 DEF EarliestBottom

\* The earliest bottom is the first bar with none lower.
LEMMA EarliestBottomIsMin ==
  ASSUME NEW h, NEW i \in Int, NEW j \in Int, NEW k,
         \A l \in i..j : h[l].low \in Int, EarliestBottom(h, i, j, k)
  PROVE  Min({m \in i..j : \A l \in i..j : h[l].low >= h[m].low}) = k
<1> DEFINE S == {m \in i..j : \A l \in i..j : h[l].low >= h[m].low}
<1>1. k \in S
  BY DEF EarliestBottom
<1>2. ASSUME NEW m \in S PROVE k <= m
  <2>1. m \in i..j /\ h[k].low >= h[m].low
    BY DEF EarliestBottom
  <2>2. ~ (m \in i..k - 1)
    BY <2>1 DEF EarliestBottom
  <2> QED BY <2>1, <2>2 DEF EarliestBottom
<1>3. \A m \in S : m \in Int
  OBVIOUS
<1> QED BY <1>1, <1>2, <1>3, MinIs

\* Wave `number` of an episode that started on bar s originates in the contact
\* left of the episode, when k is the lowest bar of its interval.
FromLeft(h, s, number, k) ==
  /\ number = 1 /\ Contacts(h, s - 1) # {}
  /\ h[LeftContact(h, s)].low < h[s].low /\ h[LeftContact(h, s)].low <= h[k].low

IsOrigin(h, s, number, first, last, o) ==
  /\ first \in 1..last
  /\ \E k \in first..last : /\ EarliestBottom(h, first, last, k)
                            /\ o = IF FromLeft(h, s, number, k) THEN LeftContact(h, s) ELSE k

HasLeft(h, s) == Contacts(h, s - 1) # {} => LeftContact(h, s) \in Contacts(h, s - 1)

\* What a stretch of h shows of an origin shows in g.
LEMMA LeftKept ==
  ASSUME NEW h, NEW g, NEW b, Longer(h, g, b), NEW s \in 1..Len(h), HasLeft(h, s),
         NEW number, NEW k \in 1..Len(h)
  PROVE  /\ LeftContact(g, s) = LeftContact(h, s)
         /\ FromLeft(g, s, number, k) <=> FromLeft(h, s, number, k)
         /\ FromLeft(h, s, number, k) => /\ LeftContact(h, s) \in 1..Len(h)
                                         /\ g[LeftContact(h, s)] = h[LeftContact(h, s)]
<1>1. Len(h) \in Nat /\ \A l \in 1..Len(h) : g[l] = h[l]
  BY DEF Longer
<1>2. s - 1 \in Int /\ s - 1 <= Len(h)
  BY <1>1
<1>3. Contacts(g, s - 1) = Contacts(h, s - 1)
  BY <1>2, ContactsKept
<1>4. LeftContact(g, s) = LeftContact(h, s)
  BY <1>3 DEF LeftContact
<1>5. ASSUME Contacts(h, s - 1) # {} PROVE LeftContact(h, s) \in 1..Len(h)
  <2>1. LeftContact(h, s) \in 1..s - 1
    BY <1>5 DEF HasLeft, Contacts
  <2> QED BY <1>1, <2>1
<1>6. g[s] = h[s] /\ g[k] = h[k]
  BY <1>1
<1>7. Contacts(h, s - 1) # {} => g[LeftContact(h, s)] = h[LeftContact(h, s)]
  BY <1>1, <1>5
<1>8. FromLeft(g, s, number, k) <=> FromLeft(h, s, number, k)
  BY <1>3, <1>4, <1>6, <1>7, Zenon DEF FromLeft
<1> QED BY <1>4, <1>5, <1>7, <1>8 DEF FromLeft

LEMMA OriginKept ==
  ASSUME NEW h, NEW g, NEW b, Longer(h, g, b), NEW s \in 1..Len(h), HasLeft(h, s),
         NEW number, NEW first, NEW last \in 1..Len(h), NEW o, IsOrigin(h, s, number, first, last, o)
  PROVE  IsOrigin(g, s, number, first, last, o)
<1>1. first \in 1..last /\ Len(h) \in Nat
  BY DEF IsOrigin, Longer
<1>2. PICK k \in first..last : /\ EarliestBottom(h, first, last, k)
                               /\ o = IF FromLeft(h, s, number, k) THEN LeftContact(h, s) ELSE k
  BY DEF IsOrigin
<1>3. k \in 1..Len(h) /\ first \in 1..Len(h)
  BY <1>1, <1>2
<1>4. EarliestBottom(g, first, last, k)
  BY <1>2, <1>3, EarliestBottomKept
<1>5. o = IF FromLeft(g, s, number, k) THEN LeftContact(g, s) ELSE k
  BY <1>2, <1>3, LeftKept
<1> QED BY <1>1, <1>4, <1>5 DEF IsOrigin

\* A bar lower than the origin becomes it; another leaves it.
LEMMA OriginGrows ==
  ASSUME NEW h, NEW g, NEW b, Longer(h, g, b), NEW s \in 1..Len(h), HasLeft(h, s),
         NEW number, NEW first, NEW o, IsOrigin(h, s, number, first, Len(h), o)
  PROVE  IsOrigin(g, s, number, first, Len(g), IF b.low < h[o].low THEN Len(g) ELSE o)
<1> DEFINE left == LeftContact(h, s)
           new == IF b.low < h[o].low THEN Len(g) ELSE o
<1>1. /\ first \in 1..Len(h) /\ Len(h) \in Nat /\ Len(g) = Len(h) + 1 /\ first \in 1..Len(g)
      /\ g[Len(g)] = b /\ \A l \in 1..Len(h) : g[l] = h[l]
  BY DEF IsOrigin, Longer
<1>2. PICK k \in first..Len(h) : /\ EarliestBottom(h, first, Len(h), k)
                                 /\ o = IF FromLeft(h, s, number, k) THEN left ELSE k
  BY DEF IsOrigin
<1>3. k \in 1..Len(h)
  BY <1>1, <1>2
<1>4. g[k] = h[k] /\ h[k].low \in Int /\ h[s].low \in Int /\ b.low \in Int /\ g[s] = h[s]
  BY <1>1, <1>3, CandleAt, CandleFacts DEF Longer
<1> DEFINE lower == IF b.low < h[k].low THEN Len(g) ELSE k
<1>5. EarliestBottom(g, first, Len(g), lower)
  BY <1>1, <1>2, EarliestBottomGrows
<1>6. lower \in first..Len(g)
  BY <1>1, <1>2
<1>7. /\ LeftContact(g, s) = left /\ Contacts(g, s - 1) = Contacts(h, s - 1)
      /\ Contacts(h, s - 1) # {} => left \in 1..Len(h)
  <2>1. s - 1 \in Int /\ s - 1 <= Len(h)
    BY <1>1
  <2>2. Contacts(h, s - 1) # {} => left \in 1..s - 1
    BY DEF HasLeft, Contacts
  <2> QED BY <1>1, <1>3, <2>1, <2>2, LeftKept, ContactsKept
<1>8. Contacts(h, s - 1) # {} => g[left] = h[left] /\ h[left].low \in Int
  BY <1>1, <1>7, CandleAt DEF Longer
<1>9. new = IF FromLeft(g, s, number, lower) THEN left ELSE lower
  <2> HIDE DEF left
  <2>1. CASE FromLeft(h, s, number, k)
    <3>1. /\ o = left /\ number = 1 /\ Contacts(h, s - 1) # {} /\ h[left].low < h[s].low
          /\ h[left].low <= h[k].low
      BY <1>2, <2>1 DEF FromLeft, left
    <3>2. FromLeft(g, s, number, lower) <=> h[left].low <= g[lower].low
      BY <1>4, <1>7, <1>8, <3>1 DEF FromLeft
    <3>3. CASE b.low < h[left].low
      <4>1. lower = Len(g) /\ g[lower].low = b.low
        BY <1>1, <1>4, <1>8, <3>1, <3>3
      <4> QED BY <1>4, <1>8, <3>1, <3>2, <3>3, <4>1
    <3>4. CASE ~ (b.low < h[left].low)
      <4>1. h[left].low <= g[lower].low
        BY <1>1, <1>4, <1>8, <3>1, <3>4
      <4> QED BY <3>1, <3>2, <3>4, <4>1
    <3> QED BY <3>3, <3>4
  <2>2. CASE ~ FromLeft(h, s, number, k)
    <3>1. o = k /\ new = lower
      BY <1>2, <2>2
    <3>2. ~ FromLeft(g, s, number, lower)
      <4>1. g[lower].low <= h[k].low /\ g[lower].low \in Int
        BY <1>1, <1>4
      <4> QED BY <1>4, <1>7, <1>8, <2>2, <4>1, SMTT(30) DEF FromLeft, left
    <3> QED BY <3>1, <3>2
  <2> QED BY <2>1, <2>2
<1> HIDE DEF lower, new
<1> QED BY <1>1, <1>5, <1>6, <1>7, <1>9 DEF IsOrigin, new

\* The first wave of an episode, on its first bar.
LEMMA OriginSeeded ==
  ASSUME NEW h, NEW g, NEW b, Longer(h, g, b), Extremes(h),
         NEW o, o = IF Contacts(h, Len(h)) = {} \/ h[Max(Contacts(h, Len(h)))].low >= b.low
                    THEN Len(g) ELSE Max(Contacts(h, Len(h)))
  PROVE  IsOrigin(g, Len(g), 1, Len(g), Len(g), o)
<1> DEFINE left == Max(Contacts(h, Len(h)))
<1>1. /\ Len(h) \in Nat /\ Len(g) = Len(h) + 1 /\ g[Len(g)] = b /\ b.low \in Int
      /\ \A l \in 1..Len(h) : g[l] = h[l]
  BY CandleFacts DEF Longer
<1>2. Len(g) - 1 = Len(h) /\ Len(g) \in Nat /\ Len(g) \in 1..Len(g) /\ Len(g) \in Len(g)..Len(g)
  BY <1>1
<1>3. Contacts(g, Len(g) - 1) = Contacts(h, Len(h)) /\ LeftContact(g, Len(g)) = left
  <2>1. Len(h) \in Int /\ Len(h) <= Len(h)
    BY <1>1
  <2> QED BY <1>2, <2>1, ContactsKept DEF LeftContact
<1>4. Contacts(h, Len(h)) # {} => g[left] = h[left] /\ h[left].low \in Int
  <2>1. Contacts(h, Len(h)) # {} => left \in 1..Len(h)
    BY <1>1, NearestContact
  <2> HIDE DEF left
  <2> QED BY <1>1, <2>1, CandleAt DEF Longer
<1>5. EarliestBottom(g, Len(g), Len(g), Len(g))
  BY <1>1, <1>2, BottomAlone
<1>6. o = IF FromLeft(g, Len(g), 1, Len(g)) THEN LeftContact(g, Len(g)) ELSE Len(g)
  <2> HIDE DEF left
  <2>1. FromLeft(g, Len(g), 1, Len(g)) <=> Contacts(h, Len(h)) # {} /\ ~ (h[left].low >= b.low)
    BY <1>1, <1>3, <1>4 DEF FromLeft
  <2> QED BY <1>3, <2>1 DEF left
<1> QED BY <1>2, <1>5, <1>6 DEF IsOrigin

\* Another wave, on the bar of the touch it begins with.
LEMMA OriginNew ==
  ASSUME NEW h, NEW g, NEW b, Longer(h, g, b), NEW s, NEW number, number # 1
  PROVE  IsOrigin(g, s, number, Len(g), Len(g), Len(g))
<1>1. Len(g) \in Nat /\ Len(g) \in 1..Len(g) /\ g[Len(g)].low \in Int /\ Len(g) \in Len(g)..Len(g)
  BY CandleFacts DEF Longer
<1>2. EarliestBottom(g, Len(g), Len(g), Len(g))
  BY <1>1, BottomAlone
<1>3. ~ FromLeft(g, s, number, Len(g))
  BY DEF FromLeft
<1> QED BY <1>1, <1>2, <1>3 DEF IsOrigin

\* The wave of a touch, of an episode that started on bar s, when its interval
\* begins on bar `first`.
WaveOK(h, row, s, first) ==
  /\ IsOrigin(h, s, row.number, first, row.start - 1, row.origin)
  /\ row.origin \in 1..row.start - 1 /\ row.upLow = h[row.origin].low
  /\ EarliestTop(h, row.origin, row.start - 1, row.peak) /\ row.upHigh = h[row.peak].high
  /\ Top(h, row.peak, row.start, row.downHigh) /\ Bottom(h, row.peak, row.start, row.downLow)

FormingStart == IF touchNumber = 0 THEN episodes[Len(episodes)].start ELSE OpenRow.start

Waves ==
  \A r \in 1..Len(touches) :
     WaveOK(hist, touches[r], episodes[touches[r].episode].start, WaveStart(r))

FormingOK ==
  active => IsOrigin(hist, episodes[Len(episodes)].start, touchNumber + 1, FormingStart,
                     Len(hist), forming.origin)

LEMMA WaveStays ==
  ASSUME NEW h, NEW g, NEW b, Longer(h, g, b), NEW s \in 1..Len(h), HasLeft(h, s),
         NEW row \in Rows, row.start \in 2..Len(h), NEW first, WaveOK(h, row, s, first),
         NEW new, SameTouch(row, new)
  PROVE  WaveOK(g, new, s, first)
<1>1. Len(h) \in Nat /\ \A l \in 1..Len(h) : g[l] = h[l]
  BY DEF Longer
<1>2. row.start \in Nat /\ row.start - 1 \in 1..Len(h) /\ row.start \in 0..Len(h)
      /\ row.start - 1 \in 0..Len(h)
  BY <1>1
<1>3. row.origin \in 1..row.start - 1
  BY DEF WaveOK
<1>4. row.origin \in 1..Len(h) /\ row.origin \in 1..Len(h) + 1
  BY <1>1, <1>2, <1>3
<1>5. row.peak \in row.origin..row.start - 1
  BY DEF WaveOK, EarliestTop
<1>6. row.peak \in 1..Len(h) /\ row.peak \in 1..Len(h) + 1
  BY <1>1, <1>2, <1>4, <1>5
<1>7. IsOrigin(g, s, row.number, first, row.start - 1, row.origin)
  BY <1>2, OriginKept DEF WaveOK
<1>8. row.upLow = g[row.origin].low /\ row.upHigh = g[row.peak].high
  BY <1>1, <1>4, <1>6 DEF WaveOK
<1>9. EarliestTop(g, row.origin, row.start - 1, row.peak)
  BY <1>2, <1>4, StretchKept DEF WaveOK
<1>10. Top(g, row.peak, row.start, row.downHigh) /\ Bottom(g, row.peak, row.start, row.downLow)
  BY <1>2, <1>6, StretchKept DEF WaveOK
<1>11. WaveOK(g, row, s, first)
  BY <1>3, <1>7, <1>8, <1>9, <1>10 DEF WaveOK
<1> QED BY <1>11, Zenon DEF WaveOK, SameTouch

\* The forming wave becomes that of the touch that ends it.
LEMMA WaveTouched ==
  ASSUME NEW h, NEW g, NEW b, Longer(h, g, b), NEW s \in 1..Len(h), HasLeft(h, s),
         NEW f, WaveFrom(h, f), NEW number, NEW first,
         IsOrigin(h, s, number, first, Len(h), f.origin),
         NEW row, row.number = number, row.start = Len(g),
         row.origin = f.origin, row.upLow = f.low, row.peak = f.peak, row.upHigh = f.high,
         row.downHigh = Greatest(f.high, b.high), row.downLow = Least(f.down, b.low)
  PROVE  WaveOK(g, row, s, first)
<1>1. Len(h) \in Nat /\ Len(g) = Len(h) + 1 /\ \A l \in 1..Len(h) : g[l] = h[l]
  BY DEF Longer
<1>2. /\ f \in Formings /\ f.origin \in 1..Len(h) /\ f.peak \in 1..Len(h) /\ f.origin <= f.peak
      /\ f.low = h[f.origin].low /\ f.high = h[f.peak].high
      /\ EarliestTop(h, f.origin, Len(h), f.peak) /\ Bottom(h, f.peak, Len(h), f.down)
  BY <1>1, WaveFacts DEF WaveFrom
<1>3. row.start - 1 = Len(h) /\ Len(h) \in 1..Len(h) /\ Len(h) \in 0..Len(h)
      /\ f.origin \in 1..Len(h) + 1
  BY <1>1, <1>2
<1>4. IsOrigin(g, s, number, first, Len(h), f.origin)
  BY <1>3, OriginKept
<1>5. f.low = g[f.origin].low /\ f.high = g[f.peak].high
  BY <1>1, <1>2
<1>6. EarliestTop(g, f.origin, Len(h), f.peak)
  BY <1>2, <1>3, StretchKept
<1>7. Bottom(g, f.peak, Len(g), Least(f.down, b.low))
  <2>1. f.down \in Int
    BY <1>2 DEF Formings
  <2> QED BY <1>2, <2>1, BottomGrows
<1>8. Top(g, f.peak, Len(g), Greatest(f.high, b.high))
  <2>1. f.high \in Int
    BY <1>2 DEF Formings
  <2>2. Top(h, f.peak, Len(h), f.high)
    <3>1. f.peak \in f.peak..Len(h) /\ \A k \in f.peak..Len(h) : k \in f.origin..Len(h)
      BY <1>1, <1>2
    <3> QED BY <1>2, <3>1 DEF Top, EarliestTop
  <2> QED BY <1>2, <2>1, <2>2, TopGrows
<1> QED BY <1>2, <1>3, <1>4, <1>5, <1>6, <1>7, <1>8, Zenon DEF WaveOK

LEMMA FormingStep ==
  ASSUME TouchInv, Bounds, FormingOK, NEW b \in Candles, Step(b)
  PROVE  FormingOK'
<1> DEFINE E == Len(episodes)
<1>1. Core /\ Types /\ Control /\ Table /\ OpenAsPhase /\ RowRanges
  BY DEF TouchInv, RangesInv, Past, Ranges, RowRanges, Core
<1>2. /\ E \in Nat /\ Project(b) /\ Longer(hist, hist', b) /\ BarsOK /\ Extremes(hist)
      /\ Extremes(hist') /\ Len(hist) \in Nat /\ Len(hist) = Len(bars)
      /\ Now = Len(hist') /\ touchNumber \in Nat
  BY <1>1, StepFacts DEF Core, Types
<1>3. active => E \in 1..E
  BY <1>1, <1>2, EmptySeq DEF Control, Types
<1>4. \A e \in 1..E : episodes[e].start \in 1..Len(hist) /\ HasLeft(hist, episodes[e].start)
  BY DEF Bounds, EpisodeOK, HasLeft
<1>5. CASE ~ active'
  BY <1>5 DEF FormingOK
<1>6. CASE StartEpisode(b)
  <2>1. /\ Len(episodes') = E + 1 /\ episodes'[E + 1].start = Now
    BY <1>1, <1>6, EpisodesStep
  <2>2. touchNumber' = 0 /\ forming' = SeededForming(b)
    BY <1>6 DEF StartEpisode
  <2>3. IsOrigin(hist', Len(hist'), 1, Len(hist'), Len(hist'), forming'.origin)
    BY <1>2, <2>2, SeededWave, OriginSeeded
  <2>4. FormingStart' = Len(hist')
    BY <1>2, <2>1, <2>2 DEF FormingStart
  <2>5. episodes'[Len(episodes')].start = Len(hist') /\ touchNumber' + 1 = 1
    BY <1>2, <2>1, <2>2
  <2> QED BY <2>3, <2>4, <2>5 DEF FormingOK
<1>7. CASE OpenZone(b)
  <2>1. /\ touches' = Append(touches, NewRow(b)) /\ touchNumber' = touchNumber + 1
        /\ forming' = NewForming(b)
    BY <1>7 DEF OpenZone
  <2>2. OpenRow' = NewRow(b)
    BY <1>1, <2>1, NewRowAdded DEF OpenRow
  <2>3. FormingStart' = Len(hist')
    BY <1>2, <2>1, <2>2 DEF FormingStart, NewRow
  <2>4. forming'.origin = Len(hist')
    BY <1>2, <2>1, NewWave
  <2>5. touchNumber' + 1 # 1
    BY <1>2, <2>1
  <2> QED BY <1>2, <2>3, <2>4, <2>5, OriginNew DEF FormingOK
<1>8. CASE StayAway(b) \/ InZone(b) \/ FalseBreakBar(b)
  <2>1. /\ active /\ episodes' = episodes /\ touchNumber' = touchNumber
        /\ forming' = UpdatedForming(b)
    BY <1>8 DEF StayAway, InZone, FalseBreakBar, Holding
  <2>2. FormingStart' = FormingStart
    <3>1. CASE touchNumber = 0
      BY <2>1, <3>1 DEF FormingStart
    <3>2. CASE touchNumber # 0
      <4>1. Len(touches) > 0 /\ touches \in Seq(Rows)
        BY <1>1, <1>2, <3>2 DEF Table, Types
      <4>2. RowsKept
        BY <1>1, <1>8, RowsStep DEF OpenZone, StayAway, InZone, FalseBreakBar
      <4>3. Len(touches) \in 1..Len(touches)
        BY <4>1
      <4>4. OpenRow'.start = OpenRow.start
        BY <4>2, <4>3 DEF OpenRow, RowsKept, SameTouch
      <4> QED BY <2>1, <3>2, <4>4 DEF FormingStart
    <3> QED BY <3>1, <3>2
  <2>3. /\ WaveFrom(hist, forming)
        /\ IsOrigin(hist, episodes[E].start, touchNumber + 1, FormingStart, Len(hist), forming.origin)
    BY <1>1, <2>1 DEF Core, FormingOK
  <2>4. forming.low = hist[forming.origin].low
    BY <2>3 DEF WaveFrom
  <2>5. forming'.origin = IF b.low < hist[forming.origin].low THEN Len(hist') ELSE forming.origin
    BY <1>2, <2>1, <2>3, <2>4, UpdatedWave
  <2>6. episodes[E].start \in 1..Len(hist) /\ HasLeft(hist, episodes[E].start)
    BY <1>3, <1>4, <2>1
  <2>7. IsOrigin(hist', episodes[E].start, touchNumber + 1, FormingStart, Len(hist'), forming'.origin)
    BY <1>2, <2>3, <2>5, <2>6, OriginGrows
  <2> QED BY <2>1, <2>2, <2>7 DEF FormingOK
<1>9. CASE Idle(b) \/ BreakStack(b)
  BY <1>5, <1>9 DEF Idle, BreakStack
<1> QED BY <1>2, <1>6, <1>7, <1>8, <1>9 DEF Project, ZoneAbove, ZoneBelow, ZoneContact

LEMMA WavesStep ==
  ASSUME TouchInv, Bounds, FormingOK, Waves, NEW b \in Candles, Step(b)
  PROVE  Waves'
<1> DEFINE T == Len(touches)
           E == Len(episodes)
<1>1. Core /\ Types /\ Control /\ Table /\ OpenAsPhase /\ RowRanges
  BY DEF TouchInv, RangesInv, Past, Ranges, RowRanges, Core
<1>2. /\ T \in Nat /\ E \in Nat /\ touches \in Seq(Rows) /\ Longer(hist, hist', b)
      /\ Len(hist) \in Nat /\ Now = Len(hist') /\ touchNumber \in Nat
  BY <1>1, StepFacts DEF Types
<1>3. \A e \in 1..E : episodes[e].start \in 1..Len(hist) /\ HasLeft(hist, episodes[e].start)
  BY DEF Bounds, EpisodeOK, HasLeft
<1>4. \A e \in 1..E : episodes'[e].start = episodes[e].start
  <2>1. CASE StartEpisode(b)
    BY <1>1, <2>1, EpisodesStep
  <2>2. CASE BreakStack(b)
    BY <1>1, <2>2, EpisodesStep
  <2>3. CASE ~ StartEpisode(b) /\ ~ BreakStack(b)
    BY <1>1, <2>3, EpisodesStep
  <2> QED BY <2>1, <2>2, <2>3
<1>5. ASSUME NEW r \in 1..T
      PROVE  WaveOK(hist', touches'[r], episodes'[touches'[r].episode].start, WaveStart(r)')
  <2> DEFINE s == episodes[touches[r].episode].start
  <2>1. SameTouch(touches[r], touches'[r]) /\ \A q \in 1..T : touches'[q].start = touches[q].start
    BY <1>1, RowsOnlyGrow DEF SameTouch
  <2>2. touches[r] \in Rows /\ touches[r].episode \in 1..E /\ touches[r].number \in 1..r
    BY <1>1, <1>2 DEF Table
  <2>3. touches[r].start \in 2..Len(hist)
    BY <1>1 DEF RowRanges, ZoneOK
  <2>4. touches'[r].episode = touches[r].episode /\ touches'[r].number = touches[r].number
    BY <2>1 DEF SameTouch
  <2>5. episodes'[touches'[r].episode].start = s
    BY <1>4, <2>2, <2>4
  <2>6. WaveStart(r)' = WaveStart(r)
    <3>1. CASE touches[r].number = 1
      BY <2>4, <2>5, <3>1 DEF WaveStart
    <3>2. CASE touches[r].number # 1
      <4>1. r - 1 \in 1..T
        BY <1>2, <2>2, <3>2
      <4> QED BY <2>1, <2>4, <3>2, <4>1 DEF WaveStart
    <3> QED BY <3>1, <3>2
  <2>7. WaveOK(hist, touches[r], s, WaveStart(r))
    BY DEF Waves
  <2>8. s \in 1..Len(hist) /\ HasLeft(hist, s)
    BY <1>3, <2>2
  <2>9. WaveOK(hist', touches'[r], s, WaveStart(r))
    BY <1>2, <2>1, <2>2, <2>3, <2>7, <2>8, WaveStays
  <2> QED BY <2>5, <2>6, <2>9
<1>6. CASE OpenZone(b)
  <2>1. touches' = Append(touches, NewRow(b)) /\ active /\ episodes' = episodes
    BY <1>6 DEF OpenZone, Holding
  <2>2. /\ Len(touches') = T + 1 /\ touches'[T + 1] = NewRow(b)
        /\ NewRow(b).episode = E /\ NewRow(b).number = touchNumber + 1
        /\ \A r \in 1..T : touches'[r] = touches[r]
    BY <1>1, <2>1, NewRowAdded
  <2>3. E \in 1..E
    BY <1>1, <1>2, <2>1, EmptySeq DEF Control, Types
  <2>4. ASSUME NEW n, n = T + 1 PROVE WaveStart(n)' = FormingStart
    <3>1. touches'[n] = NewRow(b) /\ touches'[n].number = touchNumber + 1
      BY <2>2, <2>4
    <3>2. CASE touchNumber = 0
      BY <1>2, <2>1, <2>2, <3>1, <3>2 DEF WaveStart, FormingStart
    <3>3. CASE touchNumber # 0
      <4>1. T \in 1..T /\ n - 1 = T /\ touchNumber + 1 # 1
        BY <1>1, <1>2, <2>4, <3>3 DEF Table
      <4>2. touches'[T].start = OpenRow.start
        BY <2>2, <4>1 DEF OpenRow
      <4>3. touches'[n].number # 1
        BY <3>1, <4>1
      <4>4. WaveStart(n)' = touches'[n - 1].start
        BY <4>3, Zenon DEF WaveStart
      <4> QED BY <3>3, <4>1, <4>2, <4>4 DEF FormingStart
    <3> QED BY <3>2, <3>3
  <2>5. /\ WaveFrom(hist, forming)
        /\ IsOrigin(hist, episodes[E].start, touchNumber + 1, FormingStart, Len(hist), forming.origin)
    BY <1>1, <2>1 DEF Core, FormingOK
  <2>6. /\ NewRow(b).start = Len(hist') /\ NewRow(b).origin = forming.origin
        /\ NewRow(b).upLow = forming.low /\ NewRow(b).peak = forming.peak
        /\ NewRow(b).upHigh = forming.high
        /\ NewRow(b).downHigh = Greatest(forming.high, b.high)
        /\ NewRow(b).downLow = Least(forming.down, b.low)
    BY <1>2 DEF NewRow
  <2>7. WaveOK(hist', NewRow(b), episodes[E].start, FormingStart)
    BY <1>2, <1>3, <2>2, <2>3, <2>5, <2>6, WaveTouched, Zenon
  <2>8. ASSUME NEW r \in 1..Len(touches')
        PROVE  WaveOK(hist', touches'[r], episodes'[touches'[r].episode].start, WaveStart(r)')
    <3>1. r \in 1..T \/ r = T + 1
      BY <1>2, <2>2
    <3>2. CASE r = T + 1
      <4>1. touches'[r] = NewRow(b) /\ WaveStart(r)' = FormingStart
        BY <2>2, <2>4, <3>2
      <4>2. episodes'[touches'[r].episode].start = episodes[E].start
        BY <2>1, <2>2, <4>1
      <4> QED BY <2>7, <4>1, <4>2
    <3> QED BY <1>5, <3>1, <3>2
  <2> QED BY <2>8 DEF Waves
<1>7. CASE ~ OpenZone(b)
  <2>1. Len(touches') = T
    BY <1>1, <1>7, RowsStep DEF RowsKept
  <2> QED BY <1>5, <2>1 DEF Waves
<1> QED BY <1>6, <1>7

WavesInv ==
  TouchInv /\ Bounds /\ Followed /\ Counted /\ Ended /\ FormingOK /\ Waves

LEMMA WavesAlways ==
  /\ Init => WavesInv
  /\ WavesInv /\ [Next]_vars => WavesInv'
<1>1. ASSUME Init PROVE WavesInv
  <2>1. RangesInv
    BY <1>1, RangesAlways
  <2>2. Len(bars) = 0 /\ Len(touches) = 0 /\ Len(episodes) = 0 /\ ~ active /\ BarsOK
    BY <1>1, <2>1 DEF Init, RangesInv, Past, Core, Types
  <2>3. Len(hist) = 0
    BY <2>2, HistoryOK
  <2> QED BY <2>1, <2>2, <2>3
          DEF WavesInv, TouchInv, Unmarked, Bounds, Covered, Followed, Counted, Ended,
              FormingOK, Waves
<1>2. ASSUME WavesInv, Next PROVE WavesInv'
  <2>1. PICK b \in Candles : Step(b)
    BY <1>2, NextIsStep
  <2>2. RangesInv' /\ Core
    BY <1>2, RangesAlways DEF WavesInv, TouchInv, RangesInv, Past
  <2> QED BY <1>2, <2>1, <2>2, UnmarkedStep, BoundsStep, FollowedStep, CountedStep, EndedStep,
             FormingStep, WavesStep
          DEF WavesInv, TouchInv
<1>3. ASSUME WavesInv, UNCHANGED vars PROVE WavesInv'
  <2>1. hist' = hist
    BY <1>3 DEF vars, hist, Bar, Mirror
  <2>2. RangesInv'
    BY <1>3, RangesAlways DEF WavesInv, TouchInv
  <2>3. Unmarked' /\ Bounds' /\ Followed' /\ Counted' /\ Ended'
    BY <1>3, <2>1 DEF vars, WavesInv, TouchInv, Unmarked, Bounds, Followed, Counted, Ended
  <2>4. FormingOK' /\ Waves'
    BY <1>3, <2>1 DEF vars, WavesInv, FormingOK, FormingStart, OpenRow, Waves, WaveStart
  <2> QED BY <2>2, <2>3, <2>4 DEF WavesInv, TouchInv
<1> QED BY <1>1, <1>2, <1>3

\* An origin is one of the definition.
LEMMA OriginIs ==
  ASSUME BarsOK, NEW e, NEW number, NEW first, NEW last \in 1..Len(bars), NEW o,
         episodes[e].start \in 1..Len(bars), HasLeft(hist, episodes[e].start),
         IsOrigin(hist, episodes[e].start, number, first, last, o),
         number = 1 => first = episodes[e].start
  PROVE  o \in Origins(e, number, first, last)
<1> DEFINE s == episodes[e].start
           left == LeftContact(hist, s)
<1>1. /\ hist \in Seq(Candles) /\ Len(hist) = Len(bars) /\ Len(bars) \in Nat
      /\ \A k \in 1..Len(bars) : hist[k] = Bar(k)
  BY HistoryOK
<1>2. \A k \in 1..s - 1 : k \in 1..Len(bars)
  BY <1>1
<1>3. LeftContacts(s) = Contacts(hist, s - 1)
  BY <1>1, <1>2 DEF LeftContacts, Contacts
<1>4. Max(LeftContacts(s)) = left
  BY <1>3 DEF LeftContact
<1>5. LeftContacts(s) # {} => Bar(left) = hist[left]
  <2>1. LeftContacts(s) # {} => left \in 1..s - 1
    BY <1>3 DEF HasLeft, Contacts
  <2> QED BY <1>1, <1>2, <2>1
<1>6. PICK k \in first..last : /\ EarliestBottom(hist, first, last, k)
                               /\ o = IF FromLeft(hist, s, number, k) THEN left ELSE k
  BY DEF IsOrigin
<1>7. first \in 1..last /\ (\A l \in first..last : l \in 1..Len(bars)) /\ first \in Int /\ last \in Int
  <2>1. first \in 1..last
    BY DEF IsOrigin
  <2> QED BY <1>1, <2>1
<1>8. Lowest(first, last) = k
  <2>1. \A l \in first..last : hist[l] = Bar(l) /\ hist[l].low \in Int
    BY <1>1, <1>7, CandleAt
  <2>2. {m \in first..last : \A l \in first..last : Bar(l).low >= Bar(m).low}
          = {m \in first..last : \A l \in first..last : hist[l].low >= hist[m].low}
    BY <2>1
  <2>3. Min({m \in first..last : \A l \in first..last : hist[l].low >= hist[m].low}) = k
    BY <1>6, <1>7, <2>1, EarliestBottomIsMin
  <2> QED BY <2>2, <2>3, Zenon DEF Lowest
<1>9. Bar(k) = hist[k] /\ Bar(s) = hist[s]
  BY <1>1, <1>6, <1>7
<1> DEFINE candidates == (IF number = 1 /\ LeftContacts(s) # {} THEN {left} ELSE {}) \union {k}
<1>10. Origins(e, number, first, last)
         = {m \in candidates : \A l \in candidates : Bar(m).low <= Bar(l).low}
  BY <1>4, <1>8, Zenon DEF Origins
<1> HIDE DEF left
<1>11. /\ Bar(k).low \in Int /\ Bar(s).low \in Int
       /\ LeftContacts(s) # {} => Bar(left).low \in Int
  <2>1. k \in 1..Len(hist) /\ s \in 1..Len(hist)
    BY <1>1, <1>6, <1>7
  <2>2. LeftContacts(s) # {} => left \in 1..Len(hist)
    BY <1>1, <1>2, <1>3 DEF HasLeft, Contacts, left
  <2> QED BY <1>1, <1>5, <1>9, <2>1, <2>2, CandleAt
<1>12. CASE FromLeft(hist, s, number, k)
  <2>1. o = left /\ candidates = {left, k} /\ Bar(left).low <= Bar(k).low
    BY <1>3, <1>5, <1>6, <1>9, <1>12 DEF FromLeft, left
  <2> HIDE DEF candidates
  <2> QED BY <1>3, <1>10, <1>11, <1>12, <2>1 DEF FromLeft
<1>13. CASE ~ FromLeft(hist, s, number, k)
  <2>1. o = k
    BY <1>6, <1>13
  <2>2. CASE number = 1 /\ LeftContacts(s) # {}
    <3>1. Bar(k).low <= Bar(s).low
      BY <1>6, <1>7, <1>9, <2>2 DEF EarliestBottom
    <3>2. Bar(k).low <= Bar(left).low
      BY <1>3, <1>5, <1>9, <1>11, <1>13, <2>2, <3>1 DEF FromLeft, left
    <3>3. candidates = {left, k}
      BY <2>2
    <3> HIDE DEF candidates
    <3> QED BY <1>10, <1>11, <2>1, <3>2, <3>3
  <2>3. CASE ~ (number = 1 /\ LeftContacts(s) # {})
    <3>1. candidates = {k}
      BY <2>3
    <3> HIDE DEF candidates
    <3> QED BY <1>10, <1>11, <2>1, <3>1
  <2> QED BY <2>2, <2>3
<1> QED BY <1>12, <1>13

\* A peak is the one of the definition.
LEMMA HighestIs ==
  ASSUME BarsOK, NEW i \in 1..Len(bars), NEW j \in 1..Len(bars), NEW k,
         EarliestTop(hist, i, j, k)
  PROVE  Highest(i, j) = k /\ k \in 1..Len(bars) /\ Bar(k) = hist[k] /\ Bar(i) = hist[i]
<1>1. /\ hist \in Seq(Candles) /\ Len(hist) = Len(bars) /\ Len(bars) \in Nat
      /\ \A l \in 1..Len(bars) : hist[l] = Bar(l)
  BY HistoryOK
<1>2. (\A l \in i..j : l \in 1..Len(bars)) /\ i \in Int /\ j \in Int /\ k \in i..j
  BY <1>1 DEF EarliestTop
<1>3. \A l \in i..j : hist[l] = Bar(l) /\ hist[l].high \in Int
  BY <1>1, <1>2, CandleAt
<1>4. {m \in i..j : \A l \in i..j : Bar(l).high <= Bar(m).high}
        = {m \in i..j : \A l \in i..j : hist[l].high <= hist[m].high}
  BY <1>3
<1>5. Min({m \in i..j : \A l \in i..j : hist[l].high <= hist[m].high}) = k
  BY <1>2, <1>3, EarliestTopIsMin
<1>6. Highest(i, j) = k
  BY <1>4, <1>5, Zenon DEF Highest
<1> QED BY <1>1, <1>2, <1>6

\* The low of a down leg is the one of the definition.
LEMMA DownIs ==
  ASSUME BarsOK, NEW i \in 1..Len(bars), NEW v, Bottom(hist, i, Len(bars), v)
  PROVE  Min({Bar(k).low : k \in i..Len(bars)}) = v
<1>1. /\ hist \in Seq(Candles) /\ Len(hist) = Len(bars) /\ Len(bars) \in Nat
      /\ \A l \in 1..Len(bars) : hist[l] = Bar(l)
  BY HistoryOK
<1>2. \A k \in i..Len(bars) : Bar(k) = hist[k] /\ hist[k].low \in Int
  BY <1>1, CandleAt
<1>3. {Bar(k).low : k \in i..Len(bars)} = {hist[k].low : k \in i..Len(bars)}
  BY <1>2
<1>4. Min({hist[k].low : k \in i..Len(bars)}) = v
  BY <1>1, <1>2, BottomIsMin
<1> QED BY <1>3, <1>4, Zenon

LEMMA WavesAreAsDefined == WavesInv => WaveGeometry
<1> SUFFICES ASSUME WavesInv PROVE WaveGeometry
  OBVIOUS
<1> DEFINE E == Len(episodes)
<1>1. /\ Core /\ Types /\ Control /\ Table /\ RowRanges /\ BarsOK /\ Bounds /\ Waves /\ FormingOK
  BY DEF WavesInv, TouchInv, RangesInv, Past, Ranges, RowRanges, Core, Types
<1>2. Len(hist) = Len(bars) /\ Len(bars) \in Nat /\ E \in Nat
  BY <1>1, HistoryOK DEF Types
<1>3. \A e \in 1..E : episodes[e].start \in 1..Len(bars) /\ HasLeft(hist, episodes[e].start)
  BY <1>1, <1>2 DEF Bounds, EpisodeOK, HasLeft
<1>4. DOMAIN touches = 1..Len(touches)
  BY <1>1 DEF Types
<1>5. ASSUME NEW r \in 1..Len(touches)
      PROVE  LET w == touches[r]
                 peak == Highest(w.origin, w.start - 1)
             IN  /\ w.origin \in Origins(w.episode, w.number, WaveStart(r), w.start - 1)
                 /\ w.upLow = Bar(w.origin).low
                 /\ w.peak = peak /\ w.upHigh = Bar(peak).high
                 /\ Wave(w).downHigh = HighOf(peak, w.start)
                 /\ Wave(w).downLow = LowOf(peak, w.start)
  <2> DEFINE w == touches[r]
             s == episodes[w.episode].start
  <2>1. WaveOK(hist, w, s, WaveStart(r))
    BY <1>1 DEF Waves
  <2>2. w.start \in 2..Len(bars)
    BY <1>1, <1>2 DEF RowRanges, ZoneOK
  <2>3. w.episode \in 1..E
    BY <1>1 DEF Table
  <2>4. w.start \in 1..Len(bars) /\ w.start - 1 \in 1..Len(bars)
    BY <1>2, <2>2
  <2>5. s \in 1..Len(bars) /\ HasLeft(hist, s)
    BY <1>3, <2>3
  <2> HIDE DEF w
  <2>6. w.origin \in Origins(w.episode, w.number, WaveStart(r), w.start - 1)
    <3>1. IsOrigin(hist, s, w.number, WaveStart(r), w.start - 1, w.origin)
      BY <2>1 DEF WaveOK
    <3>2. BarsOK
      BY <1>1
    <3>3. w.number = 1 => WaveStart(r) = s
      BY DEF WaveStart, w
    <3> QED BY <2>4, <2>5, <3>1, <3>2, <3>3, OriginIs
  <2>7. w.origin \in 1..Len(bars)
    <3>1. w.origin \in 1..w.start - 1
      BY <2>1 DEF WaveOK
    <3> QED BY <1>2, <2>4, <3>1
  <2>8. /\ Highest(w.origin, w.start - 1) = w.peak /\ w.peak \in 1..Len(bars)
        /\ Bar(w.peak) = hist[w.peak] /\ Bar(w.origin) = hist[w.origin]
    BY <1>1, <2>1, <2>4, <2>7, HighestIs DEF WaveOK
  <2>9. /\ Wave(w).downHigh = HighOf(w.peak, w.start)
        /\ Wave(w).downLow = LowOf(w.peak, w.start)
    <3>1. /\ Upper(w.downHigh, w.downLow) = HighOf(w.peak, w.start)
          /\ Lower(w.downHigh, w.downLow) = LowOf(w.peak, w.start)
      BY <1>1, <2>1, <2>4, <2>8, Traded DEF WaveOK
    <3> QED BY <3>1 DEF Wave
  <2>10. w.upLow = hist[w.origin].low /\ w.upHigh = hist[w.peak].high
    BY <2>1 DEF WaveOK
  <2> QED BY <2>6, <2>8, <2>9, <2>10 DEF w
<1>6. ASSUME active
      PROVE  LET first == IF touchNumber = 0 THEN episodes[E].start ELSE OpenRow.start
                 peak == Highest(forming.origin, Len(bars))
             IN  /\ forming.origin \in Origins(E, touchNumber + 1, first, Len(bars))
                 /\ forming = [origin |-> forming.origin, low |-> Bar(forming.origin).low,
                               peak |-> peak, high |-> Bar(peak).high,
                               down |-> Min({Bar(k).low : k \in peak..Len(bars)})]
  <2>1. /\ WaveFrom(hist, forming)
        /\ IsOrigin(hist, episodes[E].start, touchNumber + 1, FormingStart, Len(hist), forming.origin)
    BY <1>1, <1>6 DEF Core, FormingOK
  <2>2. /\ forming \in Formings /\ forming.origin \in 1..Len(bars)
        /\ forming.low = hist[forming.origin].low /\ forming.high = hist[forming.peak].high
        /\ EarliestTop(hist, forming.origin, Len(bars), forming.peak)
        /\ Bottom(hist, forming.peak, Len(bars), forming.down)
    BY <1>2, <2>1 DEF WaveFrom
  <2>3. E \in 1..E /\ Len(bars) \in 1..Len(bars)
    BY <1>1, <1>2, <1>6, <2>2, EmptySeq DEF Control, Types
  <2>4. forming.origin \in Origins(E, touchNumber + 1, FormingStart, Len(bars))
    <3>1. touchNumber + 1 = 1 => FormingStart = episodes[E].start
      BY <1>1 DEF FormingStart, Types
    <3> QED BY <1>1, <1>2, <1>3, <2>1, <2>3, <3>1, OriginIs, Zenon
  <2>5. /\ Highest(forming.origin, Len(bars)) = forming.peak /\ forming.peak \in 1..Len(bars)
        /\ Bar(forming.peak) = hist[forming.peak] /\ Bar(forming.origin) = hist[forming.origin]
    BY <1>1, <2>2, <2>3, HighestIs
  <2>6. Min({Bar(k).low : k \in forming.peak..Len(bars)}) = forming.down
    BY <1>1, <2>2, <2>5, DownIs
  <2>7. forming = [origin |-> forming.origin, low |-> forming.low, peak |-> forming.peak,
                   high |-> forming.high, down |-> forming.down]
    BY <2>2 DEF Formings
  <2> QED BY <2>2, <2>4, <2>5, <2>6, <2>7, Zenon DEF FormingStart
<1> QED BY <1>4, <1>5, <1>6 DEF WaveGeometry

LEMMA BoundsAreAsDefined == WavesInv => EpisodeBounds
<1> SUFFICES ASSUME WavesInv PROVE EpisodeBounds
  OBVIOUS
<1> DEFINE last(e) == IF episodes[e].end = None THEN Len(bars) ELSE episodes[e].end
           violated(first, k) == \A l \in first..k : ~ Bar(l).order
<1>1. Types /\ Control /\ BarsOK /\ Bounds
  BY DEF WavesInv, TouchInv, RangesInv, Past, Core, Types
<1>2. /\ Len(hist) = Len(bars) /\ Len(bars) \in Nat /\ DOMAIN bars = 1..Len(bars)
      /\ \A k \in 1..Len(bars) : hist[k] = Bar(k)
  BY <1>1, HistoryOK DEF BarsOK
<1>3. DOMAIN episodes = 1..Len(episodes)
  BY <1>1 DEF Types
<1>4. BreakBars \in Nat /\ BreakBars > 0
  BY LengthsAreNat
<1>5. \A e \in 1..Len(episodes) : EpisodeOK(hist, episodes[e])
  BY <1>1 DEF Bounds
<1>6. ASSUME NEW e \in 1..Len(episodes), NEW k \in episodes[e].start + 1..last(e)
      PROVE  violated(Greatest(1, k - BreakBars), k) <=> k = episodes[e].end
  <2> DEFINE ep == episodes[e]
  <2>1. /\ ep.start \in 1..Len(bars) /\ hist[ep.start].order
        /\ ep.end # None => /\ ep.end \in ep.start + BreakBars + 1..Len(bars)
                            /\ Disordered(hist, ep.end - BreakBars, ep.end)
                            /\ \A l \in ep.start + BreakBars..ep.end - 1 :
                                  ~ Disordered(hist, l - BreakBars, l)
    BY <1>2, <1>5 DEF EpisodeOK
  <2>2. k \in Nat /\ k <= Len(bars) /\ k > ep.start /\ (ep.end # None => k <= ep.end) /\ k # None
    <3>1. ep.end # None => ep.end \in Nat /\ ep.end <= Len(bars)
      BY <1>2, <1>4, <2>1
    <3> QED BY <1>2, <2>1, <3>1, NoneIsApart
  <2> HIDE DEF ep
  <2>3. CASE k <= ep.start + BreakBars
    <3>1. ep.start \in Greatest(1, k - BreakBars)..k /\ Bar(ep.start).order
      BY <1>2, <1>4, <2>1, <2>2, <2>3 DEF Greatest
    <3>2. k # ep.end
      <4>1. ep.end # None => ep.end > ep.start + BreakBars
        BY <1>2, <1>4, <2>1
      <4> QED BY <1>4, <2>1, <2>2, <2>3, <4>1
    <3> QED BY <3>1, <3>2 DEF ep
  <2>4. CASE k > ep.start + BreakBars
    <3>1. /\ Greatest(1, k - BreakBars) = k - BreakBars /\ k \in ep.start + BreakBars..Len(bars)
          /\ \A l \in k - BreakBars..k : l \in 1..Len(bars)
      BY <1>2, <1>4, <2>1, <2>2, <2>4 DEF Greatest
    <3>2. violated(Greatest(1, k - BreakBars), k) <=> Disordered(hist, k - BreakBars, k)
      BY <1>2, <3>1 DEF Disordered
    <3>3. CASE ep.end = None
      <4>1. active /\ e = Len(episodes)
        BY <1>1, <3>3 DEF Control, ep
      <4>2. ~ Disordered(hist, k - BreakBars, k)
        BY <1>1, <1>2, <3>1, <4>1 DEF Bounds, GoingOn, ep
      <4> QED BY <2>2, <3>2, <3>3, <4>2 DEF ep
    <3>4. CASE ep.end # None /\ k = ep.end
      BY <2>1, <3>2, <3>4 DEF ep
    <3>5. CASE ep.end # None /\ k # ep.end
      <4>1. k \in ep.start + BreakBars..ep.end - 1
        <5>1. ep.end \in Nat
          BY <1>2, <1>4, <2>1, <3>5
        <5> QED BY <1>4, <2>1, <2>2, <2>4, <3>5, <5>1
      <4> QED BY <2>1, <3>2, <3>5, <4>1 DEF ep
    <3> QED BY <3>3, <3>4, <3>5
  <2> QED BY <1>4, <2>1, <2>2, <2>3, <2>4
<1>7. ASSUME NEW k \in 1..Len(bars), Bar(k).order
      PROVE  \E e \in 1..Len(episodes) : k \in episodes[e].start..last(e)
  <2>1. PICK e \in 1..Len(episodes) :
          episodes[e].start <= k /\ (episodes[e].end = None \/ k <= episodes[e].end)
    BY <1>1, <1>2, <1>7 DEF Bounds, Covered
  <2>2. /\ episodes[e].start \in 1..Len(bars)
        /\ episodes[e].end # None =>
             episodes[e].end \in episodes[e].start + BreakBars + 1..Len(bars)
    BY <1>2, <1>5 DEF EpisodeOK
  <2>3. k \in episodes[e].start..last(e)
    BY <1>2, <1>4, <2>1, <2>2
  <2> QED BY <2>3
<1>8. \A e \in 1..Len(episodes) : Bar(episodes[e].start).order
  BY <1>2, <1>5 DEF EpisodeOK
<1> QED BY <1>2, <1>3, <1>6, <1>7, <1>8 DEF EpisodeBounds

LEMMA TouchesAreCounted == WavesInv => TouchesCounted
<1> SUFFICES ASSUME WavesInv PROVE TouchesCounted
  OBVIOUS
<1>1. /\ Types /\ Table /\ RowRanges /\ BarsOK /\ Bounds /\ Followed /\ Counted
  BY DEF WavesInv, TouchInv, RangesInv, Past, Ranges, RowRanges, Core, Types
<1>2. /\ Len(hist) = Len(bars) /\ Len(bars) \in Nat
      /\ \A k \in 1..Len(bars) : hist[k] = Bar(k)
  BY <1>1, HistoryOK
<1>3. /\ DOMAIN episodes = 1..Len(episodes) /\ DOMAIN touches = 1..Len(touches)
      /\ Len(touches) \in Nat
  BY <1>1 DEF Types
<1>4. ASSUME NEW r \in 1..Len(touches)
      PROVE  LET row == touches[r]
             IN  /\ Above(Bar(row.start - 1)) /\ Contact(Bar(row.start))
                 /\ row.number = 1 \/ /\ touches[r-1].episode = row.episode
                                      /\ touches[r-1].number = row.number - 1
                                      /\ ClosedAt(touches[r-1]) \in 1..row.start - 1
  <2> DEFINE row == touches[r]
  <2>1. row.start \in 2..Len(bars) /\ Above(hist[row.start - 1]) /\ Contact(hist[row.start])
    BY <1>1, <1>2 DEF RowRanges, ZoneOK
  <2>2. row.start \in 1..Len(bars) /\ row.start - 1 \in 1..Len(bars)
    BY <1>2, <2>1
  <2>3. ASSUME row.number # 1
        PROVE  /\ touches[r-1].episode = row.episode
               /\ touches[r-1].number = row.number - 1
               /\ ClosedAt(touches[r-1]) \in 1..row.start - 1
    <3>1. row.number \in 1..r
      BY <1>1 DEF Table
    <3>2. r \in 2..Len(touches) /\ r - 1 \in 1..r /\ r - 1 > r - row.number
      BY <1>3, <2>3, <3>1
    <3>3. /\ touches[r-1].episode = row.episode <=> r - 1 > r - row.number
          /\ r - 1 > r - row.number => touches[r-1].number = row.number - (r - (r - 1))
      BY <1>1, <3>2 DEF Table
    <3>4. row.number - (r - (r - 1)) = row.number - 1
      BY <3>1
    <3> QED BY <1>1, <3>2, <3>3, <3>4 DEF Followed
  <2> QED BY <1>2, <2>1, <2>2, <2>3
<1>5. ASSUME NEW e \in 1..Len(episodes),
             NEW t \in episodes[e].start + 1..
                       IF episodes[e].end = None THEN Len(bars) ELSE episodes[e].end - 1,
             Above(Bar(t - 1)), Contact(Bar(t))
      PROVE  \E r \in 1..Len(touches) :
                /\ touches[r].episode = e /\ touches[r].start <= t
                /\ \/ touches[r].start = t
                   \/ ClosedAt(touches[r]) = None
                   \/ ClosedAt(touches[r]) > t
  <2>1. /\ episodes[e].start \in 1..Len(bars)
        /\ episodes[e].end # None =>
             episodes[e].end \in episodes[e].start + BreakBars + 1..Len(bars)
    BY <1>1, <1>2 DEF Bounds, EpisodeOK
  <2>2. t \in 1..Len(bars) /\ t - 1 \in 1..Len(bars)
    BY <1>2, <2>1, LengthsAreNat, SMTT(30)
  <2>3. Approach(hist, t)
    BY <1>2, <1>5, <2>2 DEF Approach
  <2>4. t \in episodes[e].start + 1..LastOf(episodes[e], hist)
    BY <1>2 DEF LastOf
  <2> QED BY <1>1, <2>3, <2>4 DEF Counted, Accounted
<1> QED BY <1>3, <1>4, <1>5 DEF TouchesCounted

LEMMA NothingIsOpenAfterBreak == WavesInv => NothingOpenAfterBreak
<1> SUFFICES ASSUME WavesInv PROVE NothingOpenAfterBreak
  OBVIOUS
<1>1. Types /\ Ended
  BY DEF WavesInv, TouchInv, RangesInv, Past, Core
<1>2. DOMAIN touches = 1..Len(touches)
  BY <1>1 DEF Types
<1> QED BY <1>1, <1>2 DEF Ended, EndOK, NothingOpenAfterBreak

\* Waves, episodes and touches, kept incrementally, are those of the definition
\* over the whole history on every bar (update_forming, reset_forming,
\* seed_first_wave, violation, phase).
THEOREM EpisodesAreAsDefined == Spec => []EpisodesAsDefined
<1>1. WavesInv => EpisodesAsDefined
  BY WavesAreAsDefined, BoundsAreAsDefined, TouchesAreCounted, NothingIsOpenAfterBreak
     DEF EpisodesAsDefined
<1> QED BY <1>1, WavesAlways, PTL DEF Spec
=============================================================================
