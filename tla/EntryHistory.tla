---------------------------- MODULE EntryHistory ----------------------------
(***************************************************************************)
(* A history that grows bar by bar, over which the specifications Specs    *)
(* are evaluated whole after every bar, as the historical and the live     *)
(* projection do.                                                          *)
(***************************************************************************)
EXTENDS EntryNodes

CONSTANTS
    Specs,          \* specifications, the same on every history
    Beginnings,     \* the bars a history may begin with
    Shapes,         \* the bars a history may go on with
    MaxBars         \* the length of the longest history

-----------------------------------------------------------------------------
(* What bars and specifications are assumed to be: what the validation of  *)
(* a specification and the policy itself insist on, and the exactness of   *)
(* the ratios, which are whole Units here.                                 *)

Printed == Shapes \union UNION {ToSet(h) : h \in Beginnings}
Listed(s) == s \in Seq(ToSet(s))
Numeric(c) == \A b \in Printed : b[c] \in Int \union {NaN}

DistanceRules == {"stop_loss", "take_profit", "partial_take"}
AtrRules == {"atr_stop_loss", "atr_take_profit", "atr_partial_take"}

Exact(b, distance) == (Unit * distance) % b.close = 0
DistanceAssumed(r) ==
    CASE r.id = "pct_partial_take" -> r.pct \in Int /\ \A b \in Printed : (b.close * r.pct) % Unit = 0
      [] r.id \in AtrRules -> Numeric(r.atr) /\ \A b \in Printed : b[r.atr] # NaN => Exact(b, b[r.atr])
      [] OTHER -> r.usd \in Int /\ \A b \in Printed : Exact(b, r.usd)

RuleAssumed(r) ==
    /\ r.instance # None
    /\ r.kind \in DistanceRules => DistanceAssumed(r)
    /\ r.kind \in {"stop_loss", "take_profit"} => r.id # "pct_partial_take"
    /\ r.kind = "partial_take" => r.fraction \in Int
    /\ r.kind = "signal" => r.id \in Signals
    /\ r.id = "ema_cross_loss_exit" => r.confirm \in Nat \ {0} /\ Numeric(r.fast) /\ Numeric(r.slow)

BlockerAssumed(b) ==
    /\ b.id \in {"no_blockers", "counter_candle_blocker", "rsi_lookback_extreme_blocker",
                 "trend_strength_episode_blocker"}
    /\ b.id \in {"rsi_lookback_extreme_blocker", "trend_strength_episode_blocker"} => b.lookback \in Nat \ {0}
    /\ b.id = "trend_strength_episode_blocker" => b.age \in Int

Triggers == {"touch_anchor", "reclaim_anchor", "strong_reclaim_anchor"}
Consumed(spec) == {g.context : g \in Gates(spec)} \union ({spec.profile} \ {None})

\* The nodes that may be left out are not what stands for their absence.
NodesApart(spec) ==
    /\ \A g \in Gates(spec), s \in Sides : GateNode(spec, g, s) # None
    /\ \A ref \in Consumed(spec) :
          LET c == spec.contexts[ref]
          IN  \A name \in {c.fast, c.anchor, c.slow} : FeatureNode(name) # None

SpecAssumed(spec) ==
    /\ Listed(spec.sides) /\ ToSet(spec.sides) \subseteq Sides
    /\ Listed(spec.setups) /\ Listed(spec.blockers)
    /\ spec.trigger.id \in Triggers
    /\ NodesApart(spec)
    /\ \A g \in Groups : Listed(spec.exits[g]) /\ \A r \in ToSet(spec.exits[g]) : RuleAssumed(r)
    /\ \A b \in ToSet(spec.blockers) : BlockerAssumed(b)
    /\ spec.trigger.id # "touch_anchor" => spec.trigger.lookback \in Nat \ {0}

\* What an opportunity, prices and a plan may be, None apart.
Instances == UNION {{r.instance : r \in ToSet(Rules(spec))} : spec \in Specs}
Legs == [ratio : Int, rule : Instances]
Opportunities == [side : Sides, bar : Nat, profile : Profiles, stop : Legs \union {None}, take : Legs \union {None},
                  partial : Seq([take : Instances, ratio : Int, fraction : Int])]
Prices == [entry : Int, stop : Int, take : Int]
PlanLegs == Seq([take : Instances, fraction : Int, distance : Int])
Plans == [entry : Int, stop : Int, take : Int, side : Sides, bar : Nat, profile : Profiles, partial : PlanLegs]

ASSUME EntryAssumption ==
    /\ NaN \notin Int
    /\ None \notin Opportunities /\ None \notin Prices /\ None \notin PlanLegs /\ None \notin Plans
    /\ Unit \in Nat \ {0}
    /\ \A h \in Beginnings : Listed(h)
    /\ \A b \in Printed : b.close \in Nat \ {0}
    /\ Numeric("fast") /\ Numeric("anchor") /\ Numeric("slow")
    /\ IsFiniteSet(Specs) /\ \A spec \in Specs : SpecAssumed(spec)

-----------------------------------------------------------------------------
VARIABLE bars

vars == bars
World == [n |-> Len(bars), bars |-> bars]
Now == Len(bars)

Init == bars \in Beginnings
Next == /\ Len(bars) < MaxBars
        /\ \E b \in Shapes : bars' = Append(bars, b)
Spec == Init /\ [][Next]_vars

-----------------------------------------------------------------------------
(* Properties.                                                             *)

\* Two nodes of one frame that are equal stand for equal columns, whichever
\* specification, side, role or declared order asked for them: a candidate
\* is never served another's column (resolve_* of direction_blockers.py,
\* context_consumption.py, triggers.py and exits.py).
SameNodeSameColumn ==
    LET asked == UNION {ToSet(Evaluation(spec, World)) : spec \in Specs}
    IN  Cardinality(asked) = Cardinality({a.node : a \in asked})

\* An evaluation asks the context for exactly the nodes, as often, as the
\* pre-pass predicts it to (memoized_stage_consumptions).  A setup is one
\* column here: what it asks for within is left out.
ConsumedAsPredicted ==
    \A spec \in Specs :
       LET evaluation == Evaluation(spec, World)
           asked == [i \in DOMAIN evaluation |-> evaluation[i].node]
           predicted == Predicted(spec)
           times(nodes, x) == Cardinality({i \in DOMAIN nodes : nodes[i] = x})
       IN  \A x \in ToSet(asked) \union ToSet(predicted) : times(asked, x) = times(predicted, x)

\* What the projections assert of an accepted specification holds: no bar
\* has an executable entry, or a live plan, on both sides; the legs of an
\* opportunity are attributed and its partial takes have a ratio; a profile
\* whose signal fired has a rule that fired
\* (historical_execution_projection.py, project_live_entry.py).
AssertionsHold ==
    Now > 0 =>
    \A spec \in {x \in Specs : Accepted(x)} :
       LET opportunity == [s \in Sides |-> Opportunity(spec, s, Now, World)]
       IN  /\ \E s \in Sides : opportunity[s] = None
           /\ \A mode \in {"ema_anchor", "touch_trigger"} :
                 \E s \in Sides : LivePlan(mode, spec, s, Now, World) = None
           /\ \A s \in {x \in Sides : opportunity[x] # None} :
                 /\ \A leg \in {opportunity[s].stop, opportunity[s].take} \ {None} : leg.rule # None
                 /\ \A i \in DOMAIN opportunity[s].partial : opportunity[s].partial[i].ratio # NaN
           /\ \A p \in Profiles, s \in Sides :
                 AnySignal(spec, p, s, World)[Now] <=> Candidates(spec, p, s, Now, World) # <<>>

\* The vectorised masks agree with a scan of the bars: the trend blocker finds
\* no peak exactly if none of the last peak_lookback bars is strong, and judges
\* by the latest strong one of them otherwise; a cross exit fires on the
\* confirm-th adverse bar from a crossing on, once for each crossing
\* (_trend_strength_blocker, _signal_rule).
ScannedAsSpecified ==
    Now > 0 =>
    \A spec \in Specs, s \in Sides :
       /\ \A b \in {x \in ToSet(spec.blockers) : x.id = "trend_strength_episode_blocker"} :
             LET window == Max({1, Now - b.lookback + 1})..Now
                 strong == {u \in window : Strong(b, s, World, u)}
             IN  Blocked(b, s, World, Now) # "indicator_not_ready" =>
                    /\ Blocked(b, s, World, Now) = "no_recent_adx_peak" <=> strong = {}
                    /\ strong # {} => (Blocked(b, s, World, Now) # "peak_too_old" <=> Now - Max(strong) <= b.age)
       /\ \A r \in {x \in ToSet(Rules(spec)) : x.id = "ema_cross_loss_exit"} :
             LET adverse(u) == Ahead(s, At(World, r.slow, u), At(World, r.fast, u))
                 crossed(u) == u > 1 /\ adverse(u) /\ AheadOrOn(s, At(World, r.fast, u - 1), At(World, r.slow, u - 1))
                 from == Now - r.confirm + 1
             IN  s \in ToSet(spec.sides) =>
                    (Signal(spec, r, s, World)[Now]
                        <=> from > 1 /\ crossed(from) /\ \A u \in from..Now : adverse(u))

\* What the live projection of touch_trigger plans on the last bar it sees
\* is what the historical projection of the longer history finds there, with
\* the same stop, take, profile and partial takes; with both initial legs
\* configured and positive one has an entry where the other has.
PlannedAsFound ==
    Now > 0 =>
       \A spec \in Specs, s \in Sides :
          LET plan == LivePlan("touch_trigger", spec, s, Now, World)
              found == Opportunity(spec, s, Now, World')
              close == At(World, "close", Now)
              stop == SelectedDistance(spec, "stop_loss", s, World)[Now]
              take == SelectedDistance(spec, "take_profit", s, World)[Now]
              room == Positive(stop) /\ Positive(take) /\ Positive(Toward(s, close, stop))
                      /\ Positive(Away(s, close, take))
          IN  /\ plan # None =>
                    /\ found # None
                    /\ found.profile = plan.profile
                    /\ found.stop.ratio * close = Unit * (IF s = "long" THEN close - plan.stop ELSE plan.stop - close)
                    /\ found.take.ratio * close = Unit * (IF s = "long" THEN plan.take - close ELSE close - plan.take)
                    /\ [i \in DOMAIN found.partial |-> found.partial[i].take]
                         = [i \in DOMAIN plan.partial |-> plan.partial[i].take]
              /\ spec.trigger.id = "touch_anchor" /\ room /\ found # None
                 /\ (\A i \in DOMAIN found.partial : found.partial[i].ratio \in 1..(Unit - 1))
                    => plan # None
LiveAsHistorical == [][PlannedAsFound]_vars
=============================================================================
