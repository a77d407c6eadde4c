----------------------------- MODULE ManagedReplay -----------------------------
(***************************************************************************)
(* The managed replay of one open trade: bar after bar, the phase rules,   *)
(* the stop rules, the take rules and the runtime exits of a strategy are  *)
(* walked in order, each reading the state the ones before it left.  The   *)
(* projection of the same strategy (Project...) is what a consumer reads   *)
(* instead; Parity says the two agree on every bar of every trade.         *)
(* A bar carries the prices and what the frame holds for the trade's side: *)
(* an ATR, the operand of change_since_entry, and the set of market        *)
(* conditions (ADX/DI gates, predicates, RSI and EMA signals) that hold.   *)
(* A phase is its rank in _PHASES; mfe_pct thresholds are given as the     *)
(* price distance they stand for.                                          *)
(***************************************************************************)
EXTENDS Integers, Sequences, FiniteSets, SequencesExt

CONSTANTS
  None,      \* absent
  Entry,     \* entry price of the trade
  Configs,   \* the strategies: their phase, stop, take and runtime rules
  Bars,      \* the bars the market may print
  Stops,     \* distance of the initial stop from the entry, or None
  MaxBars    \* bound: evaluated bars of a trade

ASSUME ReplayAssumption ==
  /\ Entry \in Int /\ MaxBars \in Nat
  /\ None \notin Int /\ None \notin STRING /\ Stops \subseteq Nat \cup {None}

Phases == 0..4

\* What an accepted strategy and a frame of finite prices guarantee: an initial-R
\* stop acts no further than its trigger (resolve_initial_r_stop).
ASSUME ConfigAssumption ==
  /\ \A bar \in Bars : bar.high \in Int /\ bar.low \in Int /\ bar.atr \in Int \cup {None}
  /\ \A c \in Configs :
       /\ c.phase \in Seq([id : STRING, to : Phases, condition : {r.condition : r \in ToSet(c.phase)}])
       /\ c.take \in Seq([id : STRING, at : Phases, action : STRING])
       /\ c.stop \in Seq({r \in ToSet(c.stop) :
            /\ r.id \in STRING /\ r.at \in Phases /\ r.action \in Int
            /\ r.kind \in {"initial_r_lock_stop", "initial_r_trailing_stop"} =>
                 r.trigger \in Nat /\ r.action \in 0..r.trigger})
       /\ c.runtime \in Seq({r \in ToSet(c.runtime) : r.id \in STRING /\ r.at \in Phases})

VARIABLES
  config,      \* the rules of the strategy
  side,        \* side of the trade
  initialStop, \* initial_stop_price, or None
  offset,      \* evaluation_start_offset: 0 for /managed-replay, 1 for an open trade
  bars,        \* the frame from the entry bar to the current bar
  stage,       \* "bar", then the section being walked: "phase", "stop", "take", "runtime"
  at,          \* position in that section
  trade,       \* ManagedTradeState
  candidates,  \* stops offered on this bar
  armed,       \* runtime exits triggered on this bar
  events,      \* ManagedPolicyEvent log
  decisions    \* ManagedBarDecision per evaluated bar

inputs == <<config, side, initialStop, offset>>
vars == <<inputs, bars, stage, at, trade, candidates, armed, events, decisions>>

Away(price, d) == IF side = "long" THEN price + d ELSE price - d
Back(price, d) == IF side = "long" THEN price - d ELSE price + d
Better(a, b) == IF side = "long" THEN a > b ELSE a < b
Larger(a, b) == IF a > b THEN a ELSE b
Smaller(a, b) == IF a < b THEN a ELSE b
Distance(a, b) == IF a > b THEN a - b ELSE b - a

Bar == bars[Len(bars)]

\* state.initial_risk, frozen at entry.
InitialRisk == IF initialStop = None THEN None ELSE Distance(Entry, initialStop)

RiskKnown == InitialRisk # None /\ InitialRisk > 0

\* mfe_price; worst_price and what is derived from it are reported only.
MfePrice == trade.best
Excursion == Distance(MfePrice, Entry)

\* The entry bar of a live trade is not evaluated: bars_in_trade starts at 1.
InitialTrade ==
  [phase |-> 0, maxPhase |-> 0, barsInTrade |-> offset, best |-> Entry,
   stop |-> initialStop, stopRule |-> None, profile |-> "initial", takeRule |-> None,
   armed |-> <<>>]

Init ==
  /\ config \in Configs
  /\ side \in {"long", "short"}
  /\ offset \in {0, 1}
  /\ \E s \in Stops :
       /\ offset = 1 => s # None /\ s > 0   \* the geometry of a valid receipt
       /\ initialStop = IF s = None THEN None ELSE Back(Entry, s)
  /\ bars = <<>> /\ stage = "bar" /\ at = 1
  /\ trade = InitialTrade
  /\ candidates = <<>> /\ armed = <<>> /\ events = <<>> /\ decisions = <<>>

--------------------------------------------------------------------------------
(* Phase conditions. *)

Compare(op, a, b) ==
  CASE op = ">=" -> a >= b [] op = ">" -> a > b [] op = "<=" -> a <= b [] op = "<" -> a < b

MarketKinds == {"adx_di_threshold", "predicate"}

MarketMet(c, bar) == c.name \in bar.market

\* ChangeSinceEntry.met: unmet when either point is missing.
ChangeMet(c) ==
  /\ Bar.value # None /\ bars[1].value # None
  /\ Compare(c.op, Bar.value - bars[1].value, c.threshold)

AtomMet(c) ==
  \/ c.kind = "bars_in_trade" /\ trade.barsInTrade >= c.threshold
  \/ c.kind = "mfe_pct" /\ Excursion >= c.threshold
  \/ c.kind = "mfe_atr" /\ Bar.atr # None /\ Bar.atr > 0 /\ Excursion >= c.threshold * Bar.atr
  \/ c.kind = "mfe_r" /\ RiskKnown /\ Excursion >= c.threshold * InitialRisk
  \/ c.kind = "change_since_entry" /\ ChangeMet(c)
  \/ c.kind \in MarketKinds /\ MarketMet(c, Bar)

\* fold_phase_paths: the market children of a path, and an at_least of market
\* children only, become one mask; the trade children are left to the bar.
Market(c, refs) == {ref \in refs : c.children[ref].kind \in MarketKinds}
VoteFolds(c, path) == path.k > 0 /\ Market(c, path.of) = path.of
HasMarketPart(c, path) == Market(c, path.require) # {} \/ VoteFolds(c, path)

FoldedMask(c, path, bar) ==
  /\ \A ref \in Market(c, path.require) : MarketMet(c.children[ref], bar)
  /\ VoteFolds(c, path) =>
       Cardinality({ref \in path.of : MarketMet(c.children[ref], bar)}) >= path.k

TradeRequire(c, path) == path.require \ Market(c, path.require)

PathMet(c, path) ==
  /\ HasMarketPart(c, path) => FoldedMask(c, path, Bar)
  /\ \A ref \in TradeRequire(c, path) : AtomMet(c.children[ref])
  /\ (path.k > 0 /\ ~VoteFolds(c, path)) =>
       Cardinality({ref \in path.of : AtomMet(c.children[ref])}) >= path.k

MetPaths(c) == {p \in DOMAIN c.paths : PathMet(c, c.paths[p])}

ConditionMet(c) ==
  IF c.kind = "composite_phase_condition" THEN MetPaths(c) # {} ELSE AtomMet(c)

\* The first true path in declared order wins.
WinningPath(c) ==
  IF c.kind = "composite_phase_condition"
  THEN CHOOSE p \in MetPaths(c) : \A q \in MetPaths(c) : p <= q ELSE None

--------------------------------------------------------------------------------
(* The bar loop. *)

Event(type, rule, detail) == [bar |-> Len(bars), type |-> type, rule |-> rule, detail |-> detail]

\* The entry bar of a live trade enters the frame but is not evaluated.
SkipEntryBar(bar) ==
  /\ stage = "bar" /\ Len(bars) < offset
  /\ bars' = Append(bars, bar)
  /\ UNCHANGED <<inputs, stage, at, trade, candidates, armed, events, decisions>>

\* _update_extremes.
NextBar(bar) ==
  /\ stage = "bar" /\ Len(bars) >= offset /\ Len(bars) < offset + MaxBars
  /\ bars' = Append(bars, bar)
  /\ trade' = [trade EXCEPT !.barsInTrade = Len(bars) + 1,
                            !.best = IF side = "long" THEN Larger(@, bar.high)
                                                      ELSE Smaller(@, bar.low)]
  /\ stage' = "phase" /\ at' = 1
  /\ UNCHANGED <<inputs, candidates, armed, events, decisions>>

\* A rule that does not lead beyond the current phase is not looked at.
PhaseRule ==
  /\ stage = "phase" /\ at <= Len(config.phase)
  /\ LET r == config.phase[at]
     IN  IF r.to > trade.phase /\ ConditionMet(r.condition)
         THEN /\ trade' = [trade EXCEPT !.phase = r.to, !.maxPhase = Larger(@, r.to)]
              /\ events' = Append(events, Event("phase_changed", r.id,
                             [from |-> trade.phase, to |-> r.to, path |-> WinningPath(r.condition)]))
         ELSE UNCHANGED <<trade, events>>
  /\ at' = at + 1
  /\ UNCHANGED <<inputs, bars, stage, candidates, armed, decisions>>

PhasesDone ==
  /\ stage = "phase" /\ at > Len(config.phase)
  /\ stage' = "stop" /\ at' = 1 /\ candidates' = <<>>
  /\ UNCHANGED <<inputs, bars, trade, armed, events, decisions>>

\* Mutant: trails before the trigger is reached.
InitialROfferEarly(r) ==
  IF ~RiskKnown THEN None
  ELSE IF r.kind = "initial_r_lock_stop" THEN Away(Entry, r.action * InitialRisk)
  ELSE Back(MfePrice, r.action * InitialRisk)

InitialROffer(r) ==
  IF ~RiskKnown THEN None
  ELSE IF Excursion < r.trigger * InitialRisk THEN None
  ELSE IF r.kind = "initial_r_lock_stop" THEN Away(Entry, r.action * InitialRisk)
  ELSE Back(MfePrice, r.action * InitialRisk)

\* The price a stop rule offers on this bar, or None: no ATR, no initial risk,
\* or an excursion short of the trigger.
StopOffer(r) ==
  IF r.kind = "break_even_stop" /\ r.buffer = "none" THEN Away(Entry, r.action)
  ELSE IF r.kind \in {"break_even_stop", "lock_profit_stop"}
  THEN IF Bar.atr = None THEN None ELSE Away(Entry, r.action * Bar.atr)
  ELSE InitialROffer(r)

\* Mutant: takes an offer that is not ready for one.
StopRuleUnready ==
  /\ stage = "stop" /\ at <= Len(config.stop)
  /\ LET r == config.stop[at]
     IN  candidates' = IF trade.phase >= r.at
                       THEN Append(candidates, [price |-> StopOffer(r), rule |-> r.id])
                       ELSE candidates
  /\ at' = at + 1
  /\ UNCHANGED <<inputs, bars, stage, trade, armed, events, decisions>>

StopRule ==
  /\ stage = "stop" /\ at <= Len(config.stop)
  /\ LET r == config.stop[at]
     IN  candidates' = IF trade.phase >= r.at /\ StopOffer(r) # None
                       THEN Append(candidates, [price |-> StopOffer(r), rule |-> r.id])
                       ELSE candidates
  /\ at' = at + 1
  /\ UNCHANGED <<inputs, bars, stage, trade, armed, events, decisions>>

\* max(candidates, key=price): the first of the best.
IsBest(n) == \A m \in DOMAIN candidates : ~Better(candidates[m].price, candidates[n].price)
IsFirstBest(n) == IsBest(n) /\ \A m \in DOMAIN candidates : IsBest(m) => n <= m
Chosen == candidates[CHOOSE n \in DOMAIN candidates : IsFirstBest(n)]

\* Mutant: the best candidate of the bar replaces a better stop.
LatestStop == Chosen.price

Tightened ==
  IF trade.stop = None \/ Better(Chosen.price, trade.stop) THEN Chosen.price ELSE trade.stop

\* Mutant: the attribution follows the candidate even when the stop does not move.
ChooseStopRenames ==
  /\ stage = "stop" /\ at > Len(config.stop)
  /\ IF candidates # <<>>
     THEN /\ trade' = [trade EXCEPT !.stop = Tightened, !.stopRule = Chosen.rule]
          /\ events' = IF Tightened = trade.stop THEN events
                       ELSE Append(events, Event("active_stop_updated", Chosen.rule,
                                                 [price |-> Tightened]))
     ELSE UNCHANGED <<trade, events>>
  /\ stage' = "take" /\ at' = 1
  /\ UNCHANGED <<inputs, bars, candidates, armed, decisions>>

\* The stop moves, and is attributed, only when that tightens it.
ChooseStop ==
  /\ stage = "stop" /\ at > Len(config.stop)
  /\ IF candidates # <<>> /\ Tightened # trade.stop
     THEN /\ trade' = [trade EXCEPT !.stop = Tightened, !.stopRule = Chosen.rule]
          /\ events' = Append(events, Event("active_stop_updated", Chosen.rule,
                                            [price |-> Tightened]))
     ELSE UNCHANGED <<trade, events>>
  /\ stage' = "take" /\ at' = 1
  /\ UNCHANGED <<inputs, bars, candidates, armed, decisions>>

\* The take profile an action of the specification stands for.
Profile(action) ==
  IF action = "disable_fixed_tp" THEN "disable_initial_tp"
  ELSE IF action = "keep_initial" THEN "initial" ELSE action

TakeRule ==
  /\ stage = "take" /\ at <= Len(config.take)
  /\ LET r == config.take[at]
     IN  IF trade.phase >= r.at /\ Profile(r.action) # trade.profile
         THEN /\ trade' = [trade EXCEPT !.profile = Profile(r.action), !.takeRule = r.id]
              /\ events' = Append(events, Event("active_take_updated", r.id,
                                                [profile |-> Profile(r.action)]))
         ELSE UNCHANGED <<trade, events>>
  /\ at' = at + 1
  /\ UNCHANGED <<inputs, bars, stage, candidates, armed, decisions>>

\* Mutant: the exits of the bar before stay armed.
TakesDoneKeepsArmed ==
  /\ stage = "take" /\ at > Len(config.take)
  /\ stage' = "runtime" /\ at' = 1
  /\ UNCHANGED <<inputs, bars, trade, candidates, armed, events, decisions>>

TakesDone ==
  /\ stage = "take" /\ at > Len(config.take)
  /\ stage' = "runtime" /\ at' = 1 /\ armed' = <<>>
  /\ UNCHANGED <<inputs, bars, trade, candidates, events, decisions>>

WindowStart(r) == Len(bars) - r.confirm + 1

\* Mutant: the window may start on an entry bar that is not evaluated.
RuntimeSignalFromEntry(r) ==
  IF r.kind = "phase_runtime_exit" THEN r.close
  ELSE /\ WindowStart(r) >= 1
       /\ \A j \in WindowStart(r)..Len(bars) : r.signal \in bars[j].market

\* _runtime_signal: a phase exit ignores confirm_bars; the window of a signal
\* exit may not reach back beyond the first evaluated bar.
RuntimeSignal(r) ==
  IF r.kind = "phase_runtime_exit" THEN r.close
  ELSE /\ WindowStart(r) >= 1 + offset
       /\ \A j \in WindowStart(r)..Len(bars) : r.signal \in bars[j].market

RuntimeRule ==
  /\ stage = "runtime" /\ at <= Len(config.runtime)
  /\ LET r == config.runtime[at]
     IN  IF trade.phase >= r.at /\ RuntimeSignal(r)
         THEN /\ armed' = Append(armed, r.id)
              /\ events' = Append(events, Event("runtime_exit_triggered", r.id, None))
         ELSE UNCHANGED <<armed, events>>
  /\ at' = at + 1
  /\ UNCHANGED <<inputs, bars, stage, trade, candidates, decisions>>

FinishBar ==
  /\ stage = "runtime" /\ at > Len(config.runtime)
  /\ trade' = [trade EXCEPT !.armed = armed]
  /\ decisions' = Append(decisions, [phase |-> trade.phase, stop |-> trade.stop,
                                     profile |-> trade.profile, armed |-> armed])
  /\ stage' = "bar" /\ at' = 1
  /\ UNCHANGED <<inputs, bars, candidates, armed, events>>

Next ==
  \/ \E bar \in Bars : SkipEntryBar(bar) \/ NextBar(bar)
  \/ PhaseRule \/ PhasesDone
  \/ StopRule \/ ChooseStop
  \/ TakeRule \/ TakesDone
  \/ RuntimeRule \/ FinishBar

Spec == Init /\ [][Next]_vars

\* desired_stop_price of a live trade.
DesiredStop == IF trade.stopRule = None THEN initialStop ELSE trade.stop

--------------------------------------------------------------------------------
(* Properties. *)

Price == Int \cup {None}

\* The take profiles a trade of this strategy can have.
Profiles == {"initial", "disable_initial_tp"} \cup {r.action : r \in ToSet(config.take)}

\* The shape of the replay's state (ManagedTradeState and the locals of the loop).
TypeOK ==
  /\ config \in Configs /\ side \in {"long", "short"} /\ initialStop \in Price
  /\ offset \in {0, 1}
  /\ bars \in Seq(Bars) /\ at \in Nat \ {0}
  /\ stage \in {"bar", "phase", "stop", "take", "runtime"}
  /\ stage # "bar" => bars # <<>>
  /\ trade \in [phase : Phases, maxPhase : Phases, barsInTrade : Nat, best : Int,
                stop : Price, stopRule : STRING \cup {None}, profile : Profiles,
                takeRule : STRING \cup {None}, armed : Seq(STRING)]
  /\ candidates \in Seq([price : Int, rule : STRING]) /\ armed \in Seq(STRING)

\* Whatever the rules and the market do, no step of a replay moves the phase back or
\* lets the stop out (docs/10_managed_policy_replay.md: tighten-only stop changes).
NeverRegresses ==
  [][/\ trade'.phase >= trade.phase
     /\ trade.stop # None => trade'.stop # None /\ ~Better(trade.stop, trade'.stop)]_vars

\* The stop and what the replay attributes it to move together: no attribution exactly
\* while the stop is the one of the receipt, so desired_stop_price, which picks one of
\* the two by the attribution, is the active stop; and a rule is named only when its
\* phase has been reached.
ProtectionAttributed ==
  /\ (trade.stopRule = None) <=> (trade.stop = initialStop)
  /\ DesiredStop = trade.stop
  /\ trade.stopRule # None =>
       \E n \in DOMAIN config.stop :
         config.stop[n].id = trade.stopRule /\ trade.phase >= config.stop[n].at

\* An offer of an initial-R rule is at or beyond the entry price, on the first bar that
\* qualifies as on every later one (resolve_initial_r_stop bounds the distances); said
\* of rules that share their identity with no other, for offers carry only that.
InitialRBeyondEntry ==
  \A n \in DOMAIN candidates : \A r \in ToSet(config.stop) :
    /\ candidates[n].rule = r.id
    /\ r.kind \in {"initial_r_lock_stop", "initial_r_trailing_stop"}
    /\ \A q \in ToSet(config.stop) : q.id = r.id => q = r
    => ~Better(Entry, candidates[n].price)

\* What the events say of a field on a bar, to a reader who has only them: what the last
\* event of the type on or before that bar carries.
EventsOf(type, bar) == {e \in DOMAIN events : events[e].type = type /\ events[e].bar <= bar}
Told(type, field, bar, initial) ==
  LET of == EventsOf(type, bar)
  IN  IF of = {} THEN initial ELSE events[CHOOSE e \in of : \A f \in of : f <= e].detail[field]

\* The event log tells the whole story: the phase, stop, take profile and armed exits
\* of every per-bar decision are those a reader of the events alone reconstructs (the
\* exits of a bar stand together in the log, in the order of the rules), and consecutive
\* phase events chain (the response publishes both).
EventsTellTheState ==
  /\ \A n \in DOMAIN decisions :
       LET bar == n + offset
           exits == {e \in DOMAIN events :
                       events[e].type = "runtime_exit_triggered" /\ events[e].bar = bar}
           now == decisions[n]
       IN  /\ now.phase = Told("phase_changed", "to", bar, 0)
           /\ now.stop = Told("active_stop_updated", "price", bar, initialStop)
           /\ now.profile = Told("active_take_updated", "profile", bar, "initial")
           /\ \E k \in 0..Len(events) :
                /\ exits = k + 1..k + Len(now.armed)
                /\ \A i \in DOMAIN now.armed : now.armed[i] = events[k + i].rule
  /\ \A e, f \in DOMAIN events :
       /\ events[e].type = "phase_changed" /\ events[f].type = "phase_changed" /\ e < f
       /\ \A g \in DOMAIN events : e < g /\ g < f => events[g].type # "phase_changed"
       => events[f].detail.from = events[e].detail.to
================================================================================
