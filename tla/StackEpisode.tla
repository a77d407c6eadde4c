---------------------------- MODULE StackEpisode ----------------------------
(***************************************************************************)
(* The causal projection of an EMA stack episode, one side of it           *)
(* (strategies/ema_pullback/stack_episode.py): a single pass over the bars *)
(* that records episodes, the touch zones against the anchor, their false  *)
(* breaks and the waves between the touches.                               *)
(*                                                                         *)
(* A bar carries what the machine reads: its prices, the anchor EMA and    *)
(* whether the side's order of the three EMAs holds.  An EMA column is an  *)
(* exponential mean of finite closes and is never missing.  Bars count     *)
(* from 1.  d_high is always p_high, and fb_low, fb_high are always the    *)
(* fields of the zone's row, so they are not kept apart here; a depth is   *)
(* the difference of two fields.                                           *)
(***************************************************************************)
EXTENDS Integers, SequencesExt

CONSTANTS
    Sides,          \* subset of {"long", "short"}
    FirstBars,      \* the bars a history may begin with
    Bars,           \* the bars it may go on with
    Window,         \* window_bars
    BreakBars,      \* break_bars
    CensorBefore,   \* the slow EMA's warm-up
    MaxBars,        \* bound: the length of a history
    None

ASSUME ParameterAssumption ==
    /\ Sides \subseteq {"long", "short"}
    /\ Window \in Nat \ {0} /\ BreakBars \in Nat \ {0} /\ CensorBefore \in Nat
    /\ MaxBars \in Nat
    /\ None \notin Int /\ None \notin {"comeback", "stack_break"}

ASSUME BarAssumption ==
    \A b \in FirstBars \union Bars :
          /\ b \in [low : Int, high : Int, close : Int, anchor : Int, order : BOOLEAN]
          /\ b.low <= b.close /\ b.close <= b.high

VARIABLES
    side, bars,
    active, censored,     \* of the episode in progress
    violation,            \* consecutive bars without the order
    touchNumber, falseBreaks,
    phase,                \* "away", "zone", "false_break"; "broken" at the end
    span,                 \* the open zone: last contact, extremes, below-run
    forming,              \* the wave in progress
    touches,              \* the touch table: a zone, its false break, its wave
    episodes,
    seen                  \* per bar: what the operands of that bar may read

vars == <<side, bars, active, censored, violation, touchNumber, falseBreaks, phase,
          span, forming, touches, episodes, seen>>

\* The short side runs on mirrored prices.
Mirror(bar) ==
    IF side = "long" THEN bar
    ELSE [bar EXCEPT !.low = -bar.high, !.high = -bar.low, !.close = -bar.close,
                     !.anchor = -bar.anchor]

Bar(k) == Mirror(bars[k])
Now == Len(bars) + 1

Above(b) == b.low > b.anchor
Below(b) == b.high < b.anchor
Contact(b) == ~ Above(b) /\ ~ Below(b)

Least(a, b) == IF a < b THEN a ELSE b
Greatest(a, b) == IF a < b THEN b ELSE a

-----------------------------------------------------------------------------
(* The forming wave: its origin, its peak and the low of its down leg.     *)

NewForming(b) ==
    [origin |-> Now, low |-> b.low, peak |-> Now, high |-> b.high, down |-> b.low]

\* The first wave of an episode may begin at the nearest contact left of it.
SeededForming(b) ==
    LET contacts == {k \in 1..Len(bars) : Contact(Bar(k))}
        j == Max(contacts)
        path == [k \in j..Now |-> IF k = Now THEN b ELSE Bar(k)]
        peak == Min({k \in j..Now : \A l \in j..Now : path[l].high <= path[k].high})
    IN  IF contacts = {} \/ Bar(j).low >= b.low THEN NewForming(b)
        ELSE [origin |-> j, low |-> path[j].low, peak |-> peak, high |-> path[peak].high,
              down |-> Min({path[k].low : k \in peak..Now})]

\* Mutant: a new low moves the origin and leaves the peak behind.
UpdatedFormingKeepsPeak(b) ==
    IF b.low < forming.low THEN [forming EXCEPT !.origin = Now, !.low = b.low, !.down = b.low]
    ELSE IF b.high > forming.high
    THEN [forming EXCEPT !.peak = Now, !.high = b.high, !.down = b.low]
    ELSE [forming EXCEPT !.down = Least(@, b.low)]

UpdatedForming(b) ==
    IF b.low < forming.low THEN NewForming(b)
    ELSE IF b.high > forming.high
    THEN [forming EXCEPT !.peak = Now, !.high = b.high, !.down = b.low]
    ELSE [forming EXCEPT !.down = Least(@, b.low)]

-----------------------------------------------------------------------------
Violation(b) == IF b.order THEN 0 ELSE violation + 1

\* No episode, and this bar starts none.
Idle(b) ==
    /\ ~ active /\ ~ b.order
    /\ UNCHANGED <<active, censored, violation, touchNumber, falseBreaks, phase,
                   span, forming, touches, episodes>>

StartEpisode(b) ==
    /\ ~ active /\ b.order
    /\ active' = TRUE /\ censored' = (Len(bars) < CensorBefore)
    /\ violation' = 0 /\ touchNumber' = 0 /\ falseBreaks' = 0 /\ phase' = "away"
    /\ forming' = SeededForming(b)
    /\ episodes' = Append(episodes,
                          [start |-> Now, end |-> None, censored |-> censored', wave |-> None])
    /\ UNCHANGED <<span, touches>>

\* The order has been missing for longer than break_bars: the zone rules do
\* not run on this bar, and what is open becomes final on it.
Breaking(b) == active /\ Violation(b) > BreakBars
Holding(b) == active /\ Violation(b) <= BreakBars

OpenRow == touches[Len(touches)]
Rewrite(row) == touches' = [touches EXCEPT ![Len(touches)] = row]

WithFalseBreakBar(row, b) ==
    [row EXCEPT !.fbEnd = Now, !.fbLow = Least(@, b.low), !.fbHigh = Greatest(@, b.high)]

CloseOpen(b) ==
    CASE phase = "zone" -> Rewrite([OpenRow EXCEPT !.final = TRUE, !.knownAt = Now])
      [] phase = "false_break" ->
           Rewrite([WithFalseBreakBar(OpenRow, b) EXCEPT
                       !.outcome = "stack_break", !.fbFinal = TRUE, !.fbKnownAt = Now])
      [] OTHER -> UNCHANGED touches

BreakStack(b) ==
    /\ Breaking(b)
    /\ violation' = Violation(b)
    /\ forming' = UpdatedForming(b)
    /\ CloseOpen(b)
    /\ episodes' = [episodes EXCEPT ![Len(episodes)].end = Now,
                                    ![Len(episodes)].wave = forming']
    /\ phase' = "broken" /\ active' = FALSE
    /\ UNCHANGED <<censored, touchNumber, falseBreaks, span>>

-----------------------------------------------------------------------------
\* A bar wholly above the anchor, then one that reaches it.
Touches(b) == Above(Bar(Len(bars))) /\ b.low <= b.anchor /\ b.anchor <= b.high

NewRow(b) ==
    [episode |-> Len(episodes), number |-> touchNumber + 1,
     start |-> Now, end |-> Now, high |-> b.high, low |-> b.low,
     final |-> FALSE, knownAt |-> None,
     broken |-> FALSE, fbStart |-> None, fbEnd |-> None, fbHigh |-> None, fbLow |-> None,
     outcome |-> None, fbFinal |-> FALSE, fbKnownAt |-> None,
     origin |-> forming.origin, upLow |-> forming.low,
     peak |-> forming.peak, upHigh |-> forming.high,
     price |-> b.low, downHigh |-> Greatest(forming.high, b.high),
     downLow |-> Least(forming.down, b.low)]

\* Mutant: any contact touches, as after a comeback.
OpenZoneOnContact(b) ==
    /\ Holding(b) /\ phase = "away" /\ Contact(b)
    /\ violation' = Violation(b) /\ touchNumber' = touchNumber + 1
    /\ touches' = Append(touches, NewRow(b))
    /\ span' = [contact |-> Now, low |-> b.low, high |-> b.high,
                run |-> 0, runLow |-> b.low, runHigh |-> b.high]
    /\ phase' = "zone" /\ forming' = NewForming(b)
    /\ UNCHANGED <<active, censored, falseBreaks, episodes>>

OpenZone(b) ==
    /\ Holding(b) /\ phase = "away" /\ Touches(b)
    /\ violation' = Violation(b) /\ touchNumber' = touchNumber + 1
    /\ touches' = Append(touches, NewRow(b))
    /\ span' = [contact |-> Now, low |-> b.low, high |-> b.high,
                run |-> 0, runLow |-> b.low, runHigh |-> b.high]
    /\ phase' = "zone" /\ forming' = NewForming(b)
    /\ UNCHANGED <<active, censored, falseBreaks, episodes>>

StayAway(b) ==
    /\ Holding(b) /\ phase = "away" /\ ~ Touches(b)
    /\ violation' = Violation(b) /\ forming' = UpdatedForming(b)
    /\ UNCHANGED <<active, censored, touchNumber, falseBreaks, phase, span, touches, episodes>>

\* What every bar inside a zone does first.
InZone(b) ==
    /\ Holding(b) /\ phase = "zone"
    /\ violation' = Violation(b) /\ forming' = UpdatedForming(b)
    /\ UNCHANGED <<active, censored, touchNumber, episodes>>

Widened(b) == [span EXCEPT !.low = Least(@, b.low), !.high = Greatest(@, b.high)]

ZoneAbove(b) ==
    /\ InZone(b) /\ Above(b)
    /\ span' = [Widened(b) EXCEPT !.run = 0]
    /\ IF Now - span.contact > Window
       THEN /\ Rewrite([OpenRow EXCEPT !.final = TRUE, !.knownAt = Now])
            /\ phase' = "away"
       ELSE UNCHANGED <<touches, phase>>
    /\ UNCHANGED falseBreaks

\* Mutant: the false break begins where its run was noticed.
ZoneBelowLateStart(b) ==
    LET run == span.run + 1
        low == IF run = 1 THEN b.low ELSE Least(span.runLow, b.low)
        high == IF run = 1 THEN b.high ELSE Greatest(span.runHigh, b.high)
    IN  /\ InZone(b) /\ Below(b)
        /\ span' = [Widened(b) EXCEPT !.run = run, !.runLow = low, !.runHigh = high]
        /\ IF run > Window
           THEN /\ Rewrite([OpenRow EXCEPT
                       !.final = TRUE, !.knownAt = Now, !.broken = TRUE,
                       !.fbStart = Now - run, !.fbEnd = Now, !.fbLow = low, !.fbHigh = high])
                /\ falseBreaks' = falseBreaks + 1 /\ phase' = "false_break"
           ELSE UNCHANGED <<touches, falseBreaks, phase>>

ZoneBelow(b) ==
    LET run == span.run + 1
        low == IF run = 1 THEN b.low ELSE Least(span.runLow, b.low)
        high == IF run = 1 THEN b.high ELSE Greatest(span.runHigh, b.high)
    IN  /\ InZone(b) /\ Below(b)
        /\ span' = [Widened(b) EXCEPT !.run = run, !.runLow = low, !.runHigh = high]
        /\ IF run > Window
           THEN /\ Rewrite([OpenRow EXCEPT
                       !.final = TRUE, !.knownAt = Now, !.broken = TRUE,
                       !.fbStart = Now - run + 1, !.fbEnd = Now, !.fbLow = low, !.fbHigh = high])
                /\ falseBreaks' = falseBreaks + 1 /\ phase' = "false_break"
           ELSE UNCHANGED <<touches, falseBreaks, phase>>

ZoneContact(b) ==
    /\ InZone(b) /\ Contact(b)
    /\ span' = [Widened(b) EXCEPT !.contact = Now, !.run = 0]
    /\ Rewrite([OpenRow EXCEPT !.end = Now, !.low = span'.low, !.high = span'.high])
    /\ UNCHANGED <<falseBreaks, phase>>

\* Inside a false break; a close beyond the anchor is the comeback.
FalseBreakBar(b) ==
    LET row == WithFalseBreakBar(OpenRow, b)
    IN  /\ Holding(b) /\ phase = "false_break"
        /\ violation' = Violation(b) /\ forming' = UpdatedForming(b)
        /\ IF b.close > b.anchor
           THEN /\ Rewrite([row EXCEPT !.outcome = "comeback", !.fbFinal = TRUE, !.fbKnownAt = Now])
                /\ phase' = "away"
           ELSE Rewrite(row) /\ UNCHANGED phase
        /\ UNCHANGED <<active, censored, touchNumber, falseBreaks, span, episodes>>

Project(b) ==
    \/ Idle(b) \/ StartEpisode(b) \/ BreakStack(b) \/ OpenZone(b) \/ StayAway(b)
    \/ ZoneAbove(b) \/ ZoneBelow(b) \/ ZoneContact(b) \/ FalseBreakBar(b)

\* The per-bar series: nothing without an episode, nothing in a censored one.
Snapshot ==
    IF censored' \/ ~ (active \/ active') THEN None
    ELSE [episode |-> Len(episodes'), number |-> touchNumber', phase |-> phase',
          zone |-> IF touchNumber' = 0 THEN None ELSE touches'[Len(touches')],
          forming |-> forming']

\* The short side is fed the mirror images of the long side's bars.
NextBar(raw) ==
    /\ Len(bars) < MaxBars
    /\ bars' = Append(bars, raw)
    /\ Project(Mirror(raw))
    /\ seen' = Append(seen, Snapshot)
    /\ UNCHANGED side

-----------------------------------------------------------------------------
Init ==
    /\ side \in Sides
    /\ bars = <<>> /\ touches = <<>> /\ episodes = <<>> /\ seen = <<>>
    /\ active = FALSE /\ censored = FALSE
    /\ violation = 0 /\ touchNumber = 0 /\ falseBreaks = 0 /\ phase = "away"
    /\ span = [contact |-> 0, low |-> 0, high |-> 0, run |-> 0, runLow |-> 0, runHigh |-> 0]
    /\ forming = [origin |-> 0, low |-> 0, peak |-> 0, high |-> 0, down |-> 0]

Next == \E b \in IF bars = <<>> THEN FirstBars ELSE Bars : NextBar(Mirror(b))

Spec == Init /\ [][Next]_vars

-----------------------------------------------------------------------------
(* What a reader of the projection sees, in the side's own prices.         *)

Sign == IF side = "long" THEN 1 ELSE -1

\* A high and a low of mirrored prices, unmirrored.
Upper(high, low) == IF side = "long" THEN high ELSE -low
Lower(high, low) == IF side = "long" THEN low ELSE -high

Zone(row) ==
    [start |-> row.start, end |-> row.end, final |-> row.final, broken |-> row.broken,
     high |-> Upper(row.high, row.low), low |-> Lower(row.high, row.low)]

FalseBreak(row) ==
    IF ~ row.broken THEN None
    ELSE [start |-> row.fbStart, end |-> row.fbEnd, final |-> row.fbFinal,
          outcome |-> row.outcome, depth |-> row.low - row.fbLow,
          high |-> Upper(row.fbHigh, row.fbLow), low |-> Lower(row.fbHigh, row.fbLow)]

Wave(row) ==
    [origin |-> row.origin, originPrice |-> Sign * row.upLow,
     peak |-> row.peak, peakPrice |-> Sign * row.upHigh,
     touch |-> row.start, price |-> Sign * row.price,
     downHigh |-> Upper(row.downHigh, row.downLow), downLow |-> Lower(row.downHigh, row.downLow)]

\* first_row: where zone 1 of an episode is in the touch table.
FirstRow(e) == Min({r \in DOMAIN touches : touches[r].episode = e})

\* Mutant: every zone is read from the table.
OperandFromTable(t, number) ==
    LET now == seen[t]
        row == touches[FirstRow(now.episode) + number - 1]
    IN  IF now = None \/ number \notin 1..now.number THEN None
        ELSE [zone |-> Zone(row), falseBreak |-> FalseBreak(row), wave |-> Wave(row)]

\* The zone, false break and wave of a number as of bar t: the current zone
\* from the series of the bar, the others from the table.
Operand(t, number) ==
    LET now == seen[t]
        row == touches[FirstRow(now.episode) + number - 1]
        current == IF number = now.number THEN now.zone ELSE row
    IN  IF now = None \/ number \notin 1..now.number THEN None
        ELSE [zone |-> Zone(current), falseBreak |-> FalseBreak(current), wave |-> Wave(row)]

-----------------------------------------------------------------------------
TypeOK ==
    /\ side \in Sides /\ active \in BOOLEAN /\ censored \in BOOLEAN
    /\ Len(bars) \in 0..MaxBars /\ Len(seen) = Len(bars)
    /\ violation \in 0..BreakBars + 1
    /\ touchNumber \in Nat /\ falseBreaks \in 0..touchNumber
    /\ phase \in {"away", "zone", "false_break", "broken"}
    /\ span.run \in 0..Window + 1 /\ span.contact \in 0..Len(bars)
    /\ forming.origin <= forming.peak /\ forming.peak \in 0..Len(bars)
    /\ \A r \in DOMAIN touches : touches[r].episode \in DOMAIN episodes

\* The price extremes of a run of bars, as the market traded them.
HighOf(first, last) == Max({bars[k].high : k \in first..last})
LowOf(first, last) == Min({bars[k].low : k \in first..last})

\* A zone's high and low are the extremes of all its bars, from the touch to
\* the last contact, whatever lay between two contacts; and its end is the
\* last contact before it was final (zone running values).
ZoneRanges ==
    \A r \in DOMAIN touches :
        LET z == Zone(touches[r])
            last == IF z.final THEN touches[r].knownAt - 1 ELSE Len(bars)
        IN  /\ z.high = HighOf(z.start, z.end) /\ z.low = LowOf(z.start, z.end)
            /\ Contact(Bar(z.end))
            /\ \A k \in z.end + 1..last : ~ Contact(Bar(k))

\* A false break is made of the whole run below the anchor that revealed it
\* and everything up to the first close beyond the anchor or the break of the
\* stack, and its extremes are theirs (run, fb_low, fb_high).
FalseBreakRanges ==
    \A r \in DOMAIN touches :
        LET f == FalseBreak(touches[r])
            revealed == touches[r].knownAt
        IN  touches[r].broken =>
            /\ f.high = HighOf(f.start, f.end) /\ f.low = LowOf(f.start, f.end)
            /\ revealed = f.start + Window
            /\ \A k \in f.start..revealed : Below(Bar(k))
            /\ ~ Below(Bar(f.start - 1))
            /\ \A k \in revealed..f.end - 1 : Bar(k).close <= Bar(k).anchor
            /\ f.outcome = "comeback" => Bar(f.end).close > Bar(f.end).anchor
            /\ ~ f.final => r = Len(touches) /\ f.end = Len(bars)

\* Zones and false breaks are what the market traded, whatever the running
\* values were reset to on the way.
RangesAsTraded == ZoneRanges /\ FalseBreakRanges

(* The waves by their definition over the whole history.                   *)

\* The earliest of the lowest lows, and of the highest highs.
Lowest(first, last) ==
    Min({k \in first..last : \A l \in first..last : Bar(l).low >= Bar(k).low})
Highest(first, last) ==
    Min({k \in first..last : \A l \in first..last : Bar(l).high <= Bar(k).high})

LeftContacts(start) == {k \in 1..start - 1 : Contact(Bar(k))}

\* The bars where wave `number` of episode e may originate if it is read at
\* bar `last`: the lowest low of its interval or, for the first wave, the
\* nearest contact left of the episode, whichever is lower.  On a tie either
\* will do: the specification of the geometry and the code then differ
\* (FirstWaveTie).
Origins(e, number, first, last) ==
    LET contacts == LeftContacts(episodes[e].start)
        left == IF number = 1 /\ contacts # {} THEN {Max(contacts)} ELSE {}
        candidates == left \union {Lowest(first, last)}
    IN  {k \in candidates : \A l \in candidates : Bar(k).low <= Bar(l).low}

WaveStart(r) ==
    IF touches[r].number = 1 THEN episodes[touches[r].episode].start ELSE touches[r-1].start

\* A wave runs from the lowest low of its interval (the first one also from
\* the contact left of the episode) to the highest high after it and down to
\* the touch: incremental updates, resets and the seed come to the
\* definition over the whole history, final or forming (update_forming,
\* reset_forming, seed_first_wave).  Which origin a tie of the first wave has
\* is left open here.
WaveGeometry ==
    /\ \A r \in DOMAIN touches :
          LET w == touches[r]
              peak == Highest(w.origin, w.start - 1)
          IN  /\ w.origin \in Origins(w.episode, w.number, WaveStart(r), w.start - 1)
              /\ w.upLow = Bar(w.origin).low
              /\ w.peak = peak /\ w.upHigh = Bar(peak).high
              /\ Wave(w).downHigh = HighOf(peak, w.start)
              /\ Wave(w).downLow = LowOf(peak, w.start)
    /\ active =>
          LET first == IF touchNumber = 0 THEN episodes[Len(episodes)].start ELSE OpenRow.start
              peak == Highest(forming.origin, Len(bars))
          IN  /\ forming.origin \in Origins(Len(episodes), touchNumber + 1, first, Len(bars))
              /\ forming = [origin |-> forming.origin, low |-> Bar(forming.origin).low,
                            peak |-> peak, high |-> Bar(peak).high,
                            down |-> Min({Bar(k).low : k \in peak..Len(bars)})]

\* The specification of the first wave: the lower of the two candidates, "a
\* tie going to the running lowest low".  seed_first_wave decides it on the
\* first bar of the episode and update_forming moves the origin only to a
\* strictly lower low, so a later tie stays with the contact on the left.
FirstWaveTie ==
    \A r \in DOMAIN touches :
        LET w == touches[r]
            start == episodes[w.episode].start
            left == Max(LeftContacts(start))
            lowest == Lowest(start, w.start - 1)
        IN  w.number = 1 /\ LeftContacts(start) # {} /\ Bar(left).low = Bar(lowest).low =>
                w.origin = lowest

\* Episodes are delimited by the order alone: every bar with the order is in
\* one, none survives break_bars violations in a row, and none ends before
\* (violation).
EpisodeBounds ==
    LET last(e) == IF episodes[e].end = None THEN Len(bars) ELSE episodes[e].end
        violated(first, k) == \A l \in first..k : ~ Bar(l).order
    IN  /\ \A e \in DOMAIN episodes :
              /\ Bar(episodes[e].start).order
              /\ \A k \in episodes[e].start + 1..last(e) :
                    violated(Greatest(1, k - BreakBars), k) <=> k = episodes[e].end
        /\ \A k \in DOMAIN bars :
              Bar(k).order => \E e \in DOMAIN episodes : k \in episodes[e].start..last(e)

ClosedAt(row) == IF row.broken THEN row.fbKnownAt ELSE row.knownAt

\* The touches of an episode are counted once each and none is missed: an
\* approach from above opens the next zone unless the last one, or its false
\* break, is still open, and nothing else does (phase).
TouchesCounted ==
    /\ \A r \in DOMAIN touches :
          LET row == touches[r] IN
          /\ Above(Bar(row.start - 1)) /\ Contact(Bar(row.start))
          /\ row.number = 1 \/ /\ touches[r-1].episode = row.episode
                               /\ touches[r-1].number = row.number - 1
                               /\ ClosedAt(touches[r-1]) \in 1..row.start - 1
    /\ \A e \in DOMAIN episodes :
          \A t \in episodes[e].start + 1..
                   IF episodes[e].end = None THEN Len(bars) ELSE episodes[e].end - 1 :
              Above(Bar(t - 1)) /\ Contact(Bar(t)) =>
                  \E r \in DOMAIN touches :
                      /\ touches[r].episode = e /\ touches[r].start <= t
                      /\ \/ touches[r].start = t
                         \/ ClosedAt(touches[r]) = None
                         \/ ClosedAt(touches[r]) > t

\* When the stack breaks nothing of the episode stays open, and a false break
\* that had no comeback is marked so (stack break).
NothingOpenAfterBreak ==
    \A r \in DOMAIN touches :
        LET row == touches[r]
            end == episodes[row.episode].end
        IN  end # None =>
                /\ row.final /\ row.knownAt <= end
                /\ row.broken => /\ row.fbFinal
                                 /\ row.outcome = "stack_break" <=> row.fbKnownAt = end

\* Waves, episodes and touches are those of the definition, read off the whole
\* history on every bar.
EpisodesAsDefined == WaveGeometry /\ EpisodeBounds /\ TouchesCounted /\ NothingOpenAfterBreak

\* What an operand reads on bar t never depends on a bar after t, though the
\* operands read a table that later bars rewrite: evaluating a longer history
\* changes no past value (truncation invariance, episode_operand_values).  A
\* zone or false break that is final, a wave once touched and an episode once
\* ended never change again: what a page of the history returned stays
\* (zone_known_at, fb_known_at).
PastUnchanged ==
    [][/\ \A t \in DOMAIN seen : \A n \in 1..Len(touches) : Operand(t, n)' = Operand(t, n)
       /\ \A r \in DOMAIN touches :
             LET old == touches[r]
                 new == touches'[r]
             IN  /\ Wave(new) = Wave(old)
                 /\ old.final => Zone(new) = Zone(old) /\ new.knownAt = old.knownAt
                 /\ old.fbFinal => FalseBreak(new) = FalseBreak(old)
                                   /\ new.fbKnownAt = old.fbKnownAt
       /\ \A e \in DOMAIN episodes : episodes[e].end # None => episodes'[e] = episodes[e]]_vars
=============================================================================
