--------------------------- MODULE PredicateNodes ---------------------------
(***************************************************************************)
(* The identity twin of the predicates (the last part of predicates.py):   *)
(* the memo node of an operand and of a predicate on one side, the nodes   *)
(* the pre-pass predicts their computation to consume, and the nodes the   *)
(* computation then asks the evaluation context for.                       *)
(***************************************************************************)
EXTENDS Predicates

\* A node: its kind, parameters, upstream nodes by role, and side.
Node(kind, params, up, side) == <<kind, params, up, side>>

\* The nodes of the plan and of the projected episodes are given.
EpisodeNode(s) == Node("episode", <<>>, <<>>, s)
ContextNode(ref) == Node("context", <<ref>>, <<>>, None)

ColumnNode(f) == Node("column", <<>>, "feature" :> f.node, None)
EpisodeOperandNode(o, s) == Node("episode_operand", <<o.field>>, "episode" :> EpisodeNode(s), s)

\* What a parent's parameters say of an operand below it.
Param(o) ==
    CASE o.k = "const" -> <<"const", o.value>>
      [] o.k = "price" -> <<"price", o.field>>
      [] OTHER         -> <<o.k>>

-----------------------------------------------------------------------------
\* The features a segment reads on a side.
SegmentReads(g, s) ==
    IF g.by_side THEN <<IF s = "long" THEN g.left ELSE g.right>>
    ELSE IF g.right = None THEN <<g.left>> ELSE <<g.left, g.right>>

\* Mutant: a series by side is named as a plain one.
SegmentNodeSideless(g, s) ==
    LET read == SegmentReads(g, s)
        columns == [i \in 1..Len(read) |-> ColumnNode(read[i])]
    IN  Node("segment",
             <<g.from, g.to, g.value, g.last, g.aggregate, g.negate, g.include_start, g.empty,
               g.span, g.touch, g.top, g.eligibility>>,
             "episode" :> EpisodeNode(s) @@ "columns" :> columns, s)

SegmentNode(g, s) ==
    LET read == SegmentReads(g, s)
        columns == [i \in 1..Len(read) |-> ColumnNode(read[i])]
    IN  Node("segment",
             <<g.from, g.to, g.value, g.last, g.aggregate, g.negate, g.include_start, g.empty,
               g.span, g.touch, g.by_side, g.top, g.eligibility>>,
             "episode" :> EpisodeNode(s) @@ "columns" :> columns, s)

CandleNode(o, s) ==
    Node("candle", <<o.leg, o.timeframe, o.direction>>,
         IF o.atr = None THEN "episode" :> EpisodeNode(s)
         ELSE "episode" :> EpisodeNode(s) @@ "atr" :> ColumnNode(o.atr), s)

\* Operands whose only upstream node is the episode.
LegNode(o, s) ==
    LET params ==
            CASE o.k \in {"leg_mean", "leg_sum"} -> <<o.leg, o.field>>
              [] o.k = "leg_top_mean" -> <<o.leg, o.field, o.share>>
              [] o.k = "leg_change"   -> <<o.leg, o.field, o.touch>>
              [] o.k \in {"anchor_follow"} -> <<>>
              [] o.k = "leg_bars"     -> <<o.leg>>
    IN  Node(o.k, params, "episode" :> EpisodeNode(s), s)

ShapeNode(o, s) ==
    Node(o.k, IF o.k = "pullback_depth" THEN <<o.touch>> ELSE <<o.leg>>,
         "episode" :> EpisodeNode(s), s)

AtrNode(o, s) ==
    Node(o.k, IF o.k = "forming_candle" THEN <<o.timeframe, o.field>> ELSE <<>>,
         "episode" :> EpisodeNode(s) @@ "atr" :> ColumnNode(o.atr), s)

WindowChangeNode(o, s) ==
    Node("window_change", <<o.last, o.form>>,
         "episode" :> EpisodeNode(s) @@ "series" :> ColumnNode(o.series), s)

LeafNode(o, s) ==
    CASE o.k \in {"const", "price"} -> None
      [] o.k = "feature" -> ColumnNode(o.feature)
      [] o.k = "episode" -> EpisodeOperandNode(o, s)
      [] o.k = "segment" -> SegmentNode(o, s)
      [] o.k = "candle"  -> CandleNode(o, s)
      [] o.k \in {"forming_candle", "impulse_atr"} -> AtrNode(o, s)
      [] o.k \in {"leg_speed", "leg_efficiency", "pullback_depth"} -> ShapeNode(o, s)
      [] o.k = "window_change" -> WindowChangeNode(o, s)
      [] OTHER -> LegNode(o, s)

-----------------------------------------------------------------------------
(* Operands over operands.                                                 *)

Present(up) == [r \in {q \in DOMAIN up : up[q] # None} |-> up[r]]

\* Each is given the nodes below it, by role.
ScaledNode(o, s, below) ==
    IF o.k = "scale"
    THEN Node("scale", <<o.factor, Param(o.operand)>>, Present(below), IF NeedsEpisode(o) THEN s ELSE None)
    ELSE Node("interval_change",
              <<o.operation, o.interval.kind, o.interval.bars, o.interval.ref, o.interval.leg,
                o.interval.last, Param(o.of)>>,
              Present(below @@ "episode" :> IF o.interval.kind = "episode" THEN EpisodeNode(s) ELSE None),
              IF NeedsEpisode(o) THEN s ELSE None)

PairNode(o, s, below) ==
    Node(o.k,
         IF o.k = "ratio" THEN <<Param(o.left), Param(o.right), o.floor, o.mode>>
         ELSE <<Param(o.left), Param(o.right)>>,
         Present(below), IF NeedsEpisode(o) THEN s ELSE None)

AbsNode(o, s, below) ==
    Node("abs", <<Param(o.abs)>>, Present("operand" :> below["abs"]),
         IF NeedsEpisode(o) THEN s ELSE None)

AtPointNode(o, s, below) ==
    Node("at_point", <<o.point, Param(o.operand)>>, Present("episode" :> EpisodeNode(s) @@ below), s)

SignedNode(o, s, below) == Node("signed", <<o.center, Param(o.operand)>>, Present(below), s)

OnlyIfNode(o, s, below) ==
    Node("only_if",
         <<Param(o.operand), Param(o.require.operand), o.require.min, o.require.max, o.require.bounds>>,
         Present(below), s)

RECURSIVE NodeOf(_, _)
NodeOf(o, s) ==
    LET below == [r \in DOMAIN Children(o) |-> NodeOf(Children(o)[r], s)]
    IN  CASE o.k \in {"scale", "interval_change"} -> ScaledNode(o, s, below)
          [] o.k \in {"ratio", "difference"} -> PairNode(o, s, below)
          [] o.k = "abs"      -> AbsNode(o, s, below)
          [] o.k = "at_point" -> AtPointNode(o, s, below)
          [] o.k = "signed"   -> SignedNode(o, s, below)
          [] o.k = "only_if"  -> OnlyIfNode(o, s, below)
          [] OTHER            -> LeafNode(o, s)

\* Mutant: the ATR of a candle is left out.
ColumnsOfWithoutAtr(o, s) ==
    CASE o.k = "segment" -> [i \in 1..Len(SegmentReads(o, s)) |-> ColumnNode(SegmentReads(o, s)[i])]
      [] o.k \in {"forming_candle", "impulse_atr"} -> <<ColumnNode(o.atr)>>
      [] o.k = "window_change" -> <<ColumnNode(o.series)>>
      [] OTHER -> <<>>

\* The columns an operand reads besides the operands below it.
ColumnsOf(o, s) ==
    CASE o.k = "segment" -> [i \in 1..Len(SegmentReads(o, s)) |-> ColumnNode(SegmentReads(o, s)[i])]
      [] o.k = "candle" -> IF o.atr = None THEN <<>> ELSE <<ColumnNode(o.atr)>>
      [] o.k \in {"forming_candle", "impulse_atr"} -> <<ColumnNode(o.atr)>>
      [] o.k = "window_change" -> <<ColumnNode(o.series)>>
      [] OTHER -> <<>>

\* The nodes the pre-pass counts for an operand, its own first.
RECURSIVE Predicted(_, _)
Predicted(o, s) ==
    LET roles == SetToSeq(DOMAIN Children(o))
        below == FlattenSeq([i \in 1..Len(roles) |-> Predicted(Children(o)[roles[i]], s)])
    IN  IF NodeOf(o, s) = None THEN <<>> ELSE <<NodeOf(o, s)>> \o ColumnsOf(o, s) \o below

\* The nodes of the operands by path, for the operands that have one so.
RECURSIVE Ids(_, _, _)
Ids(o, s, path) ==
    LET below == [r \in DOMAIN Children(o) |-> Ids(Children(o)[r], s, Append(path, r))]
        all == UNION {{<<p, below[r][p]>> : p \in DOMAIN below[r]} : r \in DOMAIN below}
                 \union (IF o.k \in Composed \union OfWave THEN {<<path, NodeOf(o, s)>>} ELSE {})
    IN  [p \in {e[1] : e \in all} |-> (CHOOSE e \in all : e[1] = p)[2]]

-----------------------------------------------------------------------------
(* What the evaluation asks the context for.                               *)

Asked(ids, path) == IF path \in DOMAIN ids THEN <<ids[path]>> ELSE <<>>

RECURSIVE Consumed(_, _, _, _)
Consumed(o, s, path, ids) ==
    LET child(r) == Consumed(Children(o)[r], s, Append(path, r), ids)
    IN  CASE o.k \in {"const", "price"} -> <<>>
          [] o.k = "feature" -> <<ColumnNode(o.feature)>>
          [] o.k = "episode" -> <<EpisodeOperandNode(o, s)>>
          [] o.k = "segment" ->
                Asked(ids, path) \o
                (IF o.by_side THEN <<ColumnNode(IF s = "long" THEN o.left ELSE o.right)>>
                 ELSE <<ColumnNode(o.left)>> \o (IF o.right = None THEN <<>> ELSE <<ColumnNode(o.right)>>))
          [] o.k \in {"candle", "forming_candle", "impulse_atr"} ->
                Asked(ids, path) \o (IF o.atr = None THEN <<>> ELSE <<ColumnNode(o.atr)>>)
          [] o.k = "window_change" -> Asked(ids, path) \o <<ColumnNode(o.series)>>
          [] o.k \in {"ratio", "difference"} -> Asked(ids, path) \o child("left") \o child("right")
          [] o.k = "interval_change" -> Asked(ids, path) \o child("of")
          [] o.k = "abs"     -> Asked(ids, path) \o child("abs")
          [] o.k \in {"scale", "at_point", "signed"} -> Asked(ids, path) \o child("operand")
          [] o.k = "only_if" -> Asked(ids, path) \o child("require") \o child("operand")
          [] OTHER           -> Asked(ids, path)

-----------------------------------------------------------------------------
(* Predicates.                                                             *)

Role(c, i) == IF c.k = "compare" THEN IF i = 1 THEN "left" ELSE "right" ELSE "operand"

\* Without a short override and without an episode operand both sides share.
ConditionNode(p, s) ==
    LET c == ForSide(p, s)
        read == Operands(c)
        params == CASE c.k = "compare" -> <<c.op, Param(c.left), Param(c.right)>>
                    [] c.k = "change"  -> <<c.op, c.value, c.lookback>>
                    [] c.k = "range"   -> <<Param(c.operand), c.min, c.max, c.bounds, c.empty>>
    IN  Node(c.k, params,
             Present([r \in {Role(c, i) : i \in 1..Len(read)} |->
                        NodeOf(IF r = "right" THEN c.right ELSE read[1], s)]),
             IF p.short # None \/ (\E i \in 1..Len(read) : NeedsEpisode(read[i])) THEN s ELSE None)

RECURSIVE LocalNode(_, _), Nested(_, _), Asks(_, _)

LocalNode(p, s) ==
    CASE p.k = "state" ->
            Node("state", <<p.regimes>>, "context" :> ContextNode(p.context), s)
      [] p.k = "temporal" ->
            Node("temporal", <<p.mode, p.bars>>, "of" :> LocalNode(p.of, s), LocalNode(p.of, s)[4])
      [] OTHER -> ConditionNode(p, s)

\* The nodes counted once per computation of the predicate.
Nested(p, s) ==
    CASE p.k = "state"    -> <<>>
      [] p.k = "temporal" -> <<LocalNode(p.of, s)>> \o Nested(p.of, s)
      [] OTHER -> LET read == Operands(ForSide(p, s))
                  IN  FlattenSeq([i \in 1..Len(read) |-> Predicted(read[i], s)])

\* The nodes its computation asks for.
Asks(p, s) ==
    CASE p.k = "state"    -> <<>>
      [] p.k = "temporal" -> <<LocalNode(p.of, s)>> \o Asks(p.of, s)
      [] OTHER -> LET c == ForSide(p, s)
                      read == Operands(c)
                  IN  FlattenSeq([i \in 1..Len(read) |->
                          Consumed(read[i], s, <<Role(c, i)>>, Ids(read[i], s, <<Role(c, i)>>))])
=============================================================================
