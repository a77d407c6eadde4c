--------------------------- MODULE ManagedProjection ---------------------------
(***************************************************************************)
(* The historical managed projection of a strategy: the rules, condition   *)
(* series and distance series a consumer gets once for a whole range, for  *)
(* every trade in it; and the properties that tie them to the replay.      *)
(* Series are dictionaries keyed by strings made of the rule identity, and *)
(* identities are not checked to be unique: an atomic rule overwrites what *)
(* an earlier rule of the same identity wrote, a child of a composite is   *)
(* written once.                                                           *)
(***************************************************************************)
EXTENDS ManagedReplay, FiniteSetsExt

Atomic(r) == r.condition.kind # "composite_phase_condition"
Gate(r) == r.condition.kind = "adx_di_threshold"

Metric(kind) ==
  CASE kind = "mfe_atr" -> "mfe_distance" [] kind = "mfe_pct" -> "mfe_pct"
    [] kind = "mfe_r" -> "mfe_r" [] kind = "bars_in_trade" -> "bars_since_entry"

ConditionTerm(id) == [type |-> "condition", id |-> id]

TradeTerm(id, c) ==
  IF c.kind = "change_since_entry"
  THEN [type |-> "change", id |-> id, op |-> c.op, value |-> c.threshold]
  ELSE [type |-> "threshold", id |-> id, metric |-> Metric(c.kind)]

ChildTerm(r, ref) ==
  IF r.condition.children[ref].kind \in MarketKinds
  THEN ConditionTerm(<<"child", r.id, ref>>)
  ELSE TradeTerm(<<"child", r.id, ref>>, r.condition.children[ref])

\* Mutant: keeps an at_least only when a market child is among its terms.
ProjectedPathDropsVote(r, p) ==
  LET c == r.condition
      path == c.paths[p]
      keeps == path.k > 0 /\ ~VoteFolds(c, path) /\ Market(c, path.of) # {}
  IN  [condition |-> IF HasMarketPart(c, path) THEN <<"path", r.id, p>> ELSE None,
       all |-> {ChildTerm(r, ref) : ref \in TradeRequire(c, path)},
       k |-> IF keeps THEN path.k ELSE 0,
       terms |-> IF keeps THEN {ChildTerm(r, ref) : ref \in path.of} ELSE {}]

\* _composite_paths: a path keeps its trade terms, and an at_least that holds one.
ProjectedPath(r, p) ==
  LET c == r.condition
      path == c.paths[p]
      keeps == path.k > 0 /\ ~VoteFolds(c, path)
  IN  [condition |-> IF HasMarketPart(c, path) THEN <<"path", r.id, p>> ELSE None,
       all |-> {ChildTerm(r, ref) : ref \in TradeRequire(c, path)},
       k |-> IF keeps THEN path.k ELSE 0,
       terms |-> IF keeps THEN {ChildTerm(r, ref) : ref \in path.of} ELSE {}]

ProjectedPhase(r) ==
  [kind |-> "phase_transition", id |-> r.id, to |-> r.to,
   term |-> IF ~Atomic(r) THEN None
            ELSE IF Gate(r) THEN ConditionTerm(<<"phase", r.id>>)
            ELSE TradeTerm(<<"phase", r.id>>, r.condition),
   paths |-> IF Atomic(r) THEN <<>>
             ELSE [p \in DOMAIN r.condition.paths |-> ProjectedPath(r, p)]]

InitialRKinds == {"initial_r_lock_stop", "initial_r_trailing_stop"}

ProjectedStop(r) ==
  [kind |-> "stop_action", id |-> r.id, at |-> r.at, distance |-> <<"stop", r.id>>,
   formula |-> CASE r.kind = "initial_r_lock_stop" -> "initial_r_lock"
                 [] r.kind = "initial_r_trailing_stop" -> "initial_r_trailing"
                 [] OTHER -> None,
   trigger |-> IF r.kind \in InitialRKinds THEN <<"trigger", r.id>> ELSE None]

\* What an accepted strategy guarantees (composite_spec.py, static_semantics.py): a
\* child is an atom or a predicate, a path references the children, a predicate or a
\* change is never the condition of a rule by itself; and None is apart from terms.
TradeKinds == {"bars_in_trade", "mfe_pct", "mfe_atr", "mfe_r"}

AtomAccepted(c, kinds) == c.kind \in kinds /\ (c.kind \notin MarketKinds => c.threshold \in Int)

CompositeAccepted(r) ==
  LET c == r.condition IN
  /\ \A ref \in DOMAIN c.children :
       AtomAccepted(c.children[ref], TradeKinds \cup MarketKinds \cup {"change_since_entry"})
  /\ DOMAIN c.paths \subseteq Nat
  /\ \A p \in DOMAIN c.paths :
       /\ c.paths[p].require \subseteq DOMAIN c.children
       /\ c.paths[p].of \subseteq DOMAIN c.children /\ IsFiniteSet(c.paths[p].of)
       /\ c.paths[p].k \in Nat
       /\ HasMarketPart(c, c.paths[p]) => ProjectedPath(r, p).condition # None

ASSUME ProjectionAssumption ==
  /\ None \notin {"initial_r_lock", "initial_r_trailing"}
  /\ \A c \in Configs :
       /\ \A r \in ToSet(c.phase) :
            IF Atomic(r)
            THEN /\ AtomAccepted(r.condition, TradeKinds \cup {"adx_di_threshold"})
                 /\ ProjectedPhase(r).term # None
            ELSE CompositeAccepted(r)
       /\ \A r \in ToSet(c.stop) :
            r.kind \in {"break_even_stop", "lock_profit_stop"} \cup InitialRKinds
       /\ \A r \in ToSet(c.runtime) :
            IF r.kind = "phase_runtime_exit" THEN r.close \in BOOLEAN ELSE r.confirm \in Int

ProjectedTake(r) ==
  [kind |-> "take_action", id |-> r.id, at |-> r.at, profile |-> Profile(r.action)]

ProjectedRuntime(r) ==
  [kind |-> "runtime_exit", id |-> r.id, at |-> r.at,
   condition |-> <<"runtime", r.id>>, confirm |-> r.confirm]

ProjectedRules ==
  [n \in DOMAIN config.phase |-> ProjectedPhase(config.phase[n])]
    \o [n \in DOMAIN config.stop |-> ProjectedStop(config.stop[n])]
    \o [n \in DOMAIN config.take |-> ProjectedTake(config.take[n])]
    \o [n \in DOMAIN config.runtime |-> ProjectedRuntime(config.runtime[n])]

--------------------------------------------------------------------------------
(* The series, one bar at a time. *)

\* The rule of an identity that wrote last, or first, among the writers of a section.
LastOf(section, id, writers) == section[Max({n \in writers : section[n].id = id})]
FirstOf(section, id, writers) == section[Min({n \in writers : section[n].id = id})]

Keys(section, tag, writers) == {<<tag, section[n].id>> : n \in writers}

Gates == {n \in DOMAIN config.phase : Gate(config.phase[n])}
TradeAtoms == {n \in DOMAIN config.phase : Atomic(config.phase[n])} \ Gates
Composed == {n \in DOMAIN config.phase : ~Atomic(config.phase[n])}
InitialRs == {n \in DOMAIN config.stop : config.stop[n].kind \in InitialRKinds}
WithChild(ref) == {n \in Composed : ref \in DOMAIN config.phase[n].condition.children}
WithPath(p) == {n \in Composed : p \in DOMAIN config.phase[n].condition.paths}

ChildKeys ==
  UNION {{<<"child", config.phase[n].id, ref>> : ref \in DOMAIN config.phase[n].condition.children} :
           n \in Composed}
PathKeys ==
  UNION {{<<"path", config.phase[n].id, p>> : p \in DOMAIN config.phase[n].condition.paths} :
           n \in Composed}

ChildOf(key) ==
  FirstOf(config.phase, key[2], WithChild(key[3])).condition.children[key[3]]

IsMarketChild(key) == ChildOf(key).kind \in MarketKinds

RuntimeCondition(r, bar) ==
  IF r.kind = "phase_runtime_exit" THEN r.close ELSE r.signal \in bar.market

PathMask(key, bar) ==
  LET c == LastOf(config.phase, key[2], WithPath(key[3])).condition
  IN  HasMarketPart(c, c.paths[key[3]]) /\ FoldedMask(c, c.paths[key[3]], bar)

ConditionsAt(bar) ==
  {k \in Keys(config.phase, "phase", Gates) :
     MarketMet(LastOf(config.phase, k[2], Gates).condition, bar)}
  \cup {k \in PathKeys : PathMask(k, bar)}
  \cup {k \in ChildKeys : IsMarketChild(k) /\ MarketMet(ChildOf(k), bar)}
  \cup {k \in Keys(config.runtime, "runtime", DOMAIN config.runtime) :
          RuntimeCondition(LastOf(config.runtime, k[2], DOMAIN config.runtime), bar)}

\* _trade_threshold: the price distance, count or multiple of R to reach.
Threshold(c, bar) ==
  IF c.kind = "change_since_entry" THEN bar.value
  ELSE IF c.kind # "mfe_atr" THEN c.threshold
  ELSE IF bar.atr # None /\ bar.atr > 0 THEN c.threshold * bar.atr ELSE None

StopDistance(r, bar) ==
  IF r.kind \in InitialRKinds \/ (r.kind = "break_even_stop" /\ r.buffer = "none") THEN r.action
  ELSE IF bar.atr = None THEN None ELSE r.action * bar.atr

DistanceAt(key, bar) ==
  CASE key[1] = "phase" ->
         Threshold(LastOf(config.phase, key[2], TradeAtoms).condition, bar)
    [] key[1] = "child" -> Threshold(ChildOf(key), bar)
    [] key[1] = "stop" -> StopDistance(LastOf(config.stop, key[2], DOMAIN config.stop), bar)
    [] key[1] = "trigger" -> LastOf(config.stop, key[2], InitialRs).trigger

DistanceKeys ==
  Keys(config.phase, "phase", TradeAtoms) \cup {k \in ChildKeys : ~IsMarketChild(k)}
    \cup Keys(config.stop, "stop", DOMAIN config.stop) \cup Keys(config.stop, "trigger", InitialRs)

Reading(bar) ==
  [high |-> bar.high, low |-> bar.low, conditions |-> ConditionsAt(bar),
   distances |-> [key \in DistanceKeys |-> DistanceAt(key, bar)]]

\* No two rules of a section have one identity.
Apart(section) == \A m, n \in DOMAIN section : section[m].id = section[n].id => m = n

\* A strategy whose series all have a name of their own, and whose phase exits, which the
\* replay does not delay, are not delayed by the projection either.
ToldApart(c) ==
  /\ Apart(c.phase) /\ Apart(c.stop) /\ Apart(c.runtime)
  /\ \A r \in ToSet(c.runtime) : r.kind = "phase_runtime_exit" => r.confirm = 1

--------------------------------------------------------------------------------
(* The replay against the policy a consumer derives from the projection. *)

\* The bars the replay has finished with.
Finished == IF stage = "bar" THEN bars ELSE Front(bars)

FiredOn(n) ==
  {[rule |-> events[e].rule, path |-> events[e].detail.path] :
     e \in {e \in DOMAIN events : events[e].bar = n /\ events[e].type = "phase_changed"}}

DecisionOn(n) ==
  [phase |-> decisions[n].phase, fired |-> FiredOn(n + offset), stop |-> decisions[n].stop,
   profile |-> decisions[n].profile, armed |-> ToSet(decisions[n].armed)]

Undecided ==
  [phase |-> 0, fired |-> {}, stop |-> initialStop, profile |-> "initial", armed |-> {}]

DecisionAfter(n) == IF n = 0 THEN Undecided ELSE DecisionOn(n)

Policy == INSTANCE ManagedPolicy WITH
  rules <- ProjectedRules,
  readings <- [n \in DOMAIN Finished |-> Reading(Finished[n])],
  decision <- DecisionAfter(Len(decisions))

\* The replay of a trade and the policy a consumer derives from the candidate-wide
\* projection agree on every bar: transitions with their path, stop, take profile
\* and armed exits (historical_managed_projection.py says it stays
\* parity-equivalent with managed.py's single-trade replay).
Parity == Policy!Spec

\* What the consumer decides on the last finished bar.
Consumed ==
  Policy!Decide(DecisionAfter(Len(decisions) - 1), [n \in DOMAIN Finished |-> Reading(Finished[n])])

\* The exits armed on a bar are those the projection arms.
ArmedAsProjected ==
  stage = "bar" /\ decisions # <<>> => ToSet(Last(decisions).armed) = Consumed.armed

\* The phase reached on a bar is the one the projection reaches.
PhaseAsProjected ==
  stage = "bar" /\ decisions # <<>> => Last(decisions).phase = Consumed.phase
================================================================================
