----------------------------- MODULE EntryNodes -----------------------------
(***************************************************************************)
(* The identity twin of the entry chain and the exit policy: the memo node *)
(* of every mask and column, the nodes the batch pre-pass predicts an      *)
(* evaluation to consume, and the evaluation itself as the sequence of     *)
(* nodes it asks the context for, each with the column computed for it.    *)
(***************************************************************************)
EXTENDS ExitPolicy

Node(kind, params, up, side) == <<kind, params, up, side>>

\* The node of a feature is known by the label of its column, that of a
\* setup by its side.
FeatureNode(column) == Node("feature", <<column>>, {}, None)
LocalNode(s) == Node("setup", <<>>, {}, s)
Stack == <<FeatureNode("fast"), FeatureNode("anchor"), FeatureNode("slow")>>

-----------------------------------------------------------------------------
(* Contexts, gates and profiles.                                           *)

\* The reference of a context is no part of its node.
EntryContextNode(spec, ref) ==
    LET c == spec.contexts[ref]
        of(column) == IF column = None THEN None ELSE FeatureNode(column)
    IN  Node("htf_context", <<>>, <<of(c.fast), of(c.anchor), of(c.slow)>>, None)

GateNode(spec, g, s) == Node("gate", g.regimes, EntryContextNode(spec, g.context), s)

NeutralProfileNode == Node("profile_neutral", <<>>, {}, None)
ProfileNode(spec, s) ==
    IF spec.profile = None \/ s \notin ToSet(spec.sides) THEN NeutralProfileNode
    ELSE Node("profile", <<>>, EntryContextNode(spec, spec.profile), s)

-----------------------------------------------------------------------------
(* Masks.                                                                  *)

DirectionNode(s) == Node("direction", <<>>, Stack, s)

IntrinsicNode(b, s) ==
    CASE b.id = "no_blockers" -> Node(b.id, <<>>, {}, None)
      [] b.id = "counter_candle_blocker" -> Node(b.id, <<>>, {}, s)
      [] b.id = "rsi_lookback_extreme_blocker" ->
            Node(b.id, <<b.lookback, IF s = "long" THEN b.above ELSE b.below>>, FeatureNode(b.rsi), s)
      [] b.id = "trend_strength_episode_blocker" ->
            Node(b.id, <<b.peak, b.lookback, b.age, b.current, b.aligned, b.flip, b.margin>>,
                 <<FeatureNode("adx"), FeatureNode("plus"), FeatureNode("minus")>>, s)

\* Mutant: the gate is left out of the node.
GatedNodeUngated(spec, role, instance, s, mask) == Node("mask_gated", <<>>, <<mask, None>>, None)

GatedNode(spec, role, instance, s, mask) ==
    LET mine == {g \in Gates(spec) : g.role = role /\ g.instance = instance}
    IN  Node("mask_gated", <<>>,
             <<mask, IF mine = {} THEN None ELSE GateNode(spec, CHOOSE g \in mine : TRUE, s)>>, None)

\* A conjunction does not know the order or the number of its masks.
AllNode(masks) == Node("mask_all", <<>>, masks, None)

AllowedNode(spec, b, s) == GatedNode(spec, "blocker", b.instance, s, IntrinsicNode(b, s))
BlockersNode(spec, s) == AllNode({AllowedNode(spec, b, s) : b \in ToSet(BlockerItems(spec))})
PreSetupNode(spec, s) == AllNode({DirectionNode(s), BlockersNode(spec, s)})
FinalNode(spec, u, s) == GatedNode(spec, "setup", u.instance, s, LocalNode(s))
SetupsNode(spec, s) == AllNode({FinalNode(spec, u, s) : u \in ToSet(spec.setups)})
PreTriggerNode(spec, s) == AllNode({PreSetupNode(spec, s), SetupsNode(spec, s)})

\* touch_anchor does not read the lookback.
TriggerNode(trigger, s) ==
    Node(trigger.id, IF trigger.id = "touch_anchor" THEN <<>> ELSE <<trigger.lookback>>,
         FeatureNode("anchor"), s)
PreRiskNode(spec, s) == AllNode({PreTriggerNode(spec, s), TriggerNode(spec.trigger, s)})

-----------------------------------------------------------------------------
(* Exits.                                                                  *)

SignalNode(spec, r, s) ==
    CASE s \notin ToSet(spec.sides) \/ r.id = "no_signal_exit" -> Node("constant_false", <<>>, {}, None)
      [] OTHER ->
            CASE r.id = "rsi_signal_exit" ->
                    Node(r.id, <<IF s = "long" THEN r.above ELSE r.below>>, FeatureNode(r.rsi), s)
              [] r.id = "ema_close_loss_exit" -> Node(r.id, <<r.confirm>>, FeatureNode(r.ema), s)
              [] r.id = "ema_cross_loss_exit" ->
                    Node(r.id, <<r.confirm>>, <<FeatureNode(r.fast), FeatureNode(r.slow)>>, s)

\* Stops, takes and partial takes at the same distance share a node.
DistanceNode(r) ==
    CASE r.id = "pct_partial_take" -> Node("distance_pct", <<r.pct>>, {}, None)
      [] r.id \in {"atr_stop_loss", "atr_take_profit", "atr_partial_take"} ->
            Node("distance_atr", <<>>, FeatureNode(r.atr), None)
      [] OTHER -> Node("distance_usd", <<r.usd>>, {}, None)

Aggregate(kind, nodes) == Node(kind, <<>>, nodes, None)
SignalsNode(spec, p, s) ==
    Aggregate("any_signal", {SignalNode(spec, r, s) : r \in ToSet(Applying(spec, p, "signal"))})
DistancesNode(spec, p, kind, what) ==
    Aggregate(what, {DistanceNode(r) : r \in ToSet(Applying(spec, p, kind))})
ReadyNode(spec, p) ==
    Node("ready",
         <<Applying(spec, p, "stop_loss") # <<>>, Applying(spec, p, "take_profit") # <<>> >>,
         <<DistancesNode(spec, p, "stop_loss", "min_ratio"),
           DistancesNode(spec, p, "take_profit", "min_ratio"),
           {DistanceNode(r) : r \in ToSet(Applying(spec, p, "partial_take"))}>>, None)
\* A selection by profile: its profile and its three columns.
SelectNode(kind, spec, s, byProfile) == Node(kind, <<>>, <<ProfileNode(spec, s), byProfile>>, None)
SignalSelectNode(spec, s) == SelectNode("select_bool", spec, s, [p \in Profiles |-> SignalsNode(spec, p, s)])
ReadySelectNode(spec, s) == SelectNode("select_bool", spec, s, [p \in Profiles |-> ReadyNode(spec, p)])
DistanceSelectNode(spec, s, kind, what) ==
    SelectNode("select_float", spec, s, [p \in Profiles |-> DistancesNode(spec, p, kind, what)])

-----------------------------------------------------------------------------
(* The consumption of the pre-pass.  The rules are kept by instance_id; a  *)
(* policy with two rules of one id is not memoized.                        *)

InOrder == <<"aligned", "countertrend", "neutral">>
TwoSides == <<"long", "short">>
Fields == <<"min_ratio", "min_distance">>
Kinds == <<"stop_loss", "take_profit">>

SideMasks(spec, s) ==
    LET items == BlockerItems(spec)
    IN  <<DirectionNode(s)>>
        \o FlattenSeq([i \in DOMAIN items |-> <<IntrinsicNode(items[i], s), AllowedNode(spec, items[i], s)>>])
        \o <<BlockersNode(spec, s), PreSetupNode(spec, s)>>
        \o FlattenSeq([i \in DOMAIN spec.setups |-> <<LocalNode(s), FinalNode(spec, spec.setups[i], s)>>])
        \o <<SetupsNode(spec, s), PreTriggerNode(spec, s), TriggerNode(spec.trigger, s), PreRiskNode(spec, s)>>

\* Mutant: a side that is off is left out.
RuleConsumptionsEnabled(spec, r) ==
    IF r.kind = "signal" THEN [i \in DOMAIN spec.sides |-> SignalNode(spec, r, spec.sides[i])]
    ELSE <<DistanceNode(r)>>

RuleConsumptions(spec, r) ==
    IF r.kind = "signal" THEN [i \in 1..2 |-> SignalNode(spec, r, TwoSides[i])]
    ELSE <<DistanceNode(r)>>

ProfileConsumptions(spec, p) ==
    [i \in 1..2 |-> SignalsNode(spec, p, TwoSides[i])]
    \o FlattenSeq([f \in 1..2 |-> [k \in 1..2 |-> DistancesNode(spec, p, Kinds[k], Fields[f])]])
    \o <<ReadyNode(spec, p)>>

SelectConsumptions(spec, s) ==
    <<SignalSelectNode(spec, s), ReadySelectNode(spec, s)>>
    \o FlattenSeq([f \in 1..2 |-> [k \in 1..2 |-> DistanceSelectNode(spec, s, Kinds[k], Fields[f])]])

ExitConsumptions(spec) ==
    FlattenSeq([i \in DOMAIN Rules(spec) |-> RuleConsumptions(spec, Rules(spec)[i])])
    \o FlattenSeq([i \in 1..3 |-> ProfileConsumptions(spec, InOrder[i])])
    \o FlattenSeq([i \in 1..2 |-> SelectConsumptions(spec, TwoSides[i])])

Predicted(spec) ==
    FlattenSeq([i \in DOMAIN spec.sides |-> SideMasks(spec, spec.sides[i])])
    \o (IF DistinctInstances(spec) THEN ExitConsumptions(spec) ELSE <<>>)

-----------------------------------------------------------------------------
(* The evaluation: what it asks for, each with what it computes.           *)

Asked(node, column) == [node |-> node, column |-> column]

EvaluateDirectionAndBlockers(spec, s, w) ==
    LET items == BlockerItems(spec)
    IN  <<Asked(DirectionNode(s), Direction(s, w))>>
        \o FlattenSeq([i \in DOMAIN items |->
              <<Asked(IntrinsicNode(items[i], s), Intrinsic(items[i], s, w)),
                Asked(AllowedNode(spec, items[i], s), BlockerAllowed(spec, items[i], s, w))>>])
        \o <<Asked(BlockersNode(spec, s), BlockersOk(spec, s, w)),
             Asked(PreSetupNode(spec, s), PreSetup(spec, s, w))>>

EvaluateSetups(spec, s, w) ==
    FlattenSeq([i \in DOMAIN spec.setups |->
        <<Asked(LocalNode(s), Local(w)),
          Asked(FinalNode(spec, spec.setups[i], s), SetupAllowed(spec, spec.setups[i], s, w))>>])
    \o <<Asked(SetupsNode(spec, s), SetupsOk(spec, s, w)),
         Asked(PreTriggerNode(spec, s), PreTrigger(spec, s, w))>>

EvaluateTriggers(spec, s, w) ==
    <<Asked(TriggerNode(spec.trigger, s), Triggered(spec.trigger, s, w)),
      Asked(PreRiskNode(spec, s), PreRisk(spec, s, w))>>

AskedRule(spec, r, w) ==
    IF r.kind = "signal"
    THEN [i \in 1..2 |-> Asked(SignalNode(spec, r, TwoSides[i]), Signal(spec, r, TwoSides[i], w))]
    ELSE <<Asked(DistanceNode(r), <<Distance(r, w), Ratio(r, w)>>)>>

AskedProfile(spec, p, w) ==
    [i \in 1..2 |-> Asked(SignalsNode(spec, p, TwoSides[i]), AnySignal(spec, p, TwoSides[i], w))]
    \o [k \in 1..2 |-> Asked(DistancesNode(spec, p, Kinds[k], "min_ratio"), RatioOf(spec, p, Kinds[k], w))]
    \o [k \in 1..2 |-> Asked(DistancesNode(spec, p, Kinds[k], "min_distance"), DistanceOf(spec, p, Kinds[k], w))]

AskedSignal(spec, s, w) == Asked(SignalSelectNode(spec, s), SelectedSignal(spec, s, w))
AskedReady(spec, s, w) == Asked(ReadySelectNode(spec, s), SelectedReady(spec, s, w))
AskedRatio(spec, kind, s, w) ==
    Asked(DistanceSelectNode(spec, s, kind, "min_ratio"), SelectedRatio(spec, kind, s, w))
AskedDistance(spec, kind, s, w) ==
    Asked(DistanceSelectNode(spec, s, kind, "min_distance"), SelectedDistance(spec, kind, s, w))

\* Rule by rule, profile by profile, then the selections around readiness.
EvaluateExitPolicy(spec, w) ==
    FlattenSeq([i \in DOMAIN Rules(spec) |-> AskedRule(spec, Rules(spec)[i], w)])
    \o FlattenSeq([i \in 1..3 |-> AskedProfile(spec, InOrder[i], w)])
    \o [i \in 1..2 |-> AskedSignal(spec, TwoSides[i], w)]
    \o FlattenSeq([k \in 1..2 |-> [i \in 1..2 |-> AskedRatio(spec, Kinds[k], TwoSides[i], w)]])
    \o FlattenSeq([k \in 1..2 |-> [i \in 1..2 |-> AskedDistance(spec, Kinds[k], TwoSides[i], w)]])
    \o [i \in 1..3 |-> Asked(ReadyNode(spec, InOrder[i]), Ready(spec, InOrder[i], w))]
    \o [i \in 1..2 |-> AskedReady(spec, TwoSides[i], w)]

\* The stages one after the other, each side by side; the exit policy
\* without the memo where its rules are ambiguous.
Evaluation(spec, w) ==
    FlattenSeq([i \in DOMAIN spec.sides |-> EvaluateDirectionAndBlockers(spec, spec.sides[i], w)])
    \o FlattenSeq([i \in DOMAIN spec.sides |-> EvaluateSetups(spec, spec.sides[i], w)])
    \o FlattenSeq([i \in DOMAIN spec.sides |-> EvaluateTriggers(spec, spec.sides[i], w)])
    \o (IF DistinctInstances(spec) THEN EvaluateExitPolicy(spec, w) ELSE <<>>)
=============================================================================
