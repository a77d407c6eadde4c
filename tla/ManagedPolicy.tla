----------------------------- MODULE ManagedPolicy -----------------------------
(***************************************************************************)
(* What a candidate-wide managed projection promises for one trade: the    *)
(* policy a consumer derives, bar by bar, from projected rules, condition  *)
(* series and distance series alone.  One step applies one whole bar, and  *)
(* each part of the decision is given in closed form: which phases the bar *)
(* reaches, the best stop on offer, the last take profile, the confirmed   *)
(* exits.  A phase is its rank in _PHASES.  A distance that is None is the *)
(* NaN of the wire: no comparison with it holds.                           *)
(***************************************************************************)
EXTENDS Integers, Sequences, FiniteSets, FiniteSetsExt

CONSTANTS
  None,    \* absent: no stop, no reading, no threshold
  Entry    \* the price at which the trade was entered

VARIABLES
  side,         \* "long" or "short"
  initialStop,  \* the stop of the receipt, or None
  offset,       \* 0: the entry bar is evaluated too; 1: evaluation starts after it
  rules,        \* the projected rules, in order
  readings,     \* per bar since entry: high, low, conditions, distances
  decision      \* what the policy decided on the last bar

vars == <<side, initialStop, offset, rules, readings, decision>>

Better(a, b) == IF side = "long" THEN a > b ELSE a < b
Away(price, d) == IF side = "long" THEN price + d ELSE price - d
Back(price, d) == IF side = "long" THEN price - d ELSE price + d

InitialRisk ==
  IF initialStop = None THEN None
  ELSE IF initialStop > Entry THEN initialStop - Entry ELSE Entry - initialStop

RiskKnown == InitialRisk # None /\ InitialRisk > 0

\* The best price of the bars evaluated so far, the entry price included.
Best(rs) ==
  IF side = "long" THEN Max({Entry} \cup {rs[j].high : j \in (1 + offset)..Len(rs)})
                   ELSE Min({Entry} \cup {rs[j].low : j \in (1 + offset)..Len(rs)})

Excursion(rs) == IF side = "long" THEN Best(rs) - Entry ELSE Entry - Best(rs)

Reached(metric, threshold, rs) ==
  CASE metric = "bars_since_entry" -> Len(rs) >= threshold
    [] metric \in {"mfe_pct", "mfe_distance"} -> Excursion(rs) >= threshold
    [] metric = "mfe_r" -> RiskKnown /\ Excursion(rs) >= threshold * InitialRisk

Compare(op, a, b) ==
  CASE op = ">=" -> a >= b [] op = ">" -> a > b [] op = "<=" -> a <= b [] op = "<" -> a < b

Holds(id, rs, j) == id \in rs[j].conditions

TermMet(t, rs) ==
  \/ t.type = "condition" /\ Holds(t.id, rs, Len(rs))
  \/ /\ t.type = "threshold"
     /\ rs[Len(rs)].distances[t.id] # None
     /\ Reached(t.metric, rs[Len(rs)].distances[t.id], rs)
  \/ /\ t.type = "change"
     /\ rs[Len(rs)].distances[t.id] # None /\ rs[1].distances[t.id] # None
     /\ Compare(t.op, rs[Len(rs)].distances[t.id] - rs[1].distances[t.id], t.value)

PathMet(p, rs) ==
  /\ p.condition # None => Holds(p.condition, rs, Len(rs))
  /\ \A t \in p.all : TermMet(t, rs)
  /\ Cardinality({t \in p.terms : TermMet(t, rs)}) >= p.k

Paths(r, rs) == {p \in DOMAIN r.paths : PathMet(r.paths[p], rs)}

RuleMet(r, rs) ==
  \/ r.term # None /\ TermMet(r.term, rs)
  \/ Paths(r, rs) # {}

OfKind(kind) == {n \in DOMAIN rules : rules[n].kind = kind}

Met(rs) == {n \in OfKind("phase_transition") : RuleMet(rules[n], rs)}

PhaseAfter(phase, rs) == Max({phase} \cup {rules[n].to : n \in Met(rs)})

\* The transitions of a bar: a met rule fires when it leads beyond the phase
\* of the bar before and beyond every met rule in front of it.
Fired(phase, rs) ==
  {[rule |-> rules[n].id,
    path |-> IF rules[n].term = None THEN Min(Paths(rules[n], rs)) ELSE None] :
     n \in {n \in Met(rs) : /\ rules[n].to > phase
                            /\ \A m \in Met(rs) : m < n => rules[m].to < rules[n].to}}

Active(kind, phase) == {n \in OfKind(kind) : phase >= rules[n].at}

Offer(r, rs) ==
  LET d == rs[Len(rs)].distances[r.distance]
  IN  IF d = None THEN None
      ELSE IF r.formula = None THEN Away(Entry, d)
      ELSE IF ~(RiskKnown /\ Reached("mfe_r", rs[Len(rs)].distances[r.trigger], rs)) THEN None
      ELSE IF r.formula = "initial_r_lock" THEN Away(Entry, d * InitialRisk)
      ELSE Back(Best(rs), d * InitialRisk)

StopAfter(stop, phase, rs) ==
  LET all == {Offer(rules[n], rs) : n \in Active("stop_action", phase)} \cup {stop}
      offers == all \ {None}
  IN  IF offers = {} THEN None ELSE CHOOSE p \in offers : \A q \in offers : ~Better(q, p)

ProfileAfter(profile, phase) ==
  LET active == Active("take_action", phase)
  IN  IF active = {} THEN profile ELSE rules[Max(active)].profile

\* A runtime exit is confirmed by an unbroken run of bars of this trade.
Armed(phase, rs) ==
  {rules[n].id : n \in {n \in Active("runtime_exit", phase) :
     /\ Len(rs) - rules[n].confirm + 1 >= 1 + offset
     /\ \A j \in (Len(rs) - rules[n].confirm + 1)..Len(rs) : Holds(rules[n].condition, rs, j)}}

Decide(last, rs) ==
  LET phase == PhaseAfter(last.phase, rs)
  IN  [phase |-> phase, fired |-> Fired(last.phase, rs),
       stop |-> StopAfter(last.stop, phase, rs),
       profile |-> ProfileAfter(last.profile, phase), armed |-> Armed(phase, rs)]

Opening ==
  [phase |-> 0, fired |-> {}, stop |-> initialStop, profile |-> "initial", armed |-> {}]

Init == readings = <<>> /\ decision = Opening

Bar ==
  /\ Len(readings') = Len(readings) + 1 /\ readings = SubSeq(readings', 1, Len(readings))
  /\ decision' = IF Len(readings') <= offset THEN decision ELSE Decide(decision, readings')
  /\ UNCHANGED <<side, initialStop, offset, rules>>

Spec == Init /\ [][Bar]_vars
================================================================================
