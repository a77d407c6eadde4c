--------------------------- MODULE EvaluationMemo ---------------------------
(***************************************************************************)
(* The evaluation context of a range batch                                 *)
(* (indicators/evaluation_context.py, strategies/application/              *)
(* evaluate_range_batch.py): an identity memo over the nodes the variants  *)
(* consume, with reference counts planned before the first variant runs.   *)
(*                                                                         *)
(* A variant is a root: the sequence of nodes its evaluation consumes.  A  *)
(* node's computation consumes its children, in order, then yields a value *)
(* or raises; an exception of a child propagates.  A prediction counts the *)
(* consumptions the pre-pass expects of a root, and may be wrong in either *)
(* direction.                                                              *)
(***************************************************************************)
EXTENDS Integers, SequencesExt

CONSTANTS
    Nodes,        \* resolved node identities, numbered
    Children,     \* the nodes a node's computation consumes, in order
    Own,          \* how a node's own computation ends: value, engine, other
    Meaning,      \* what a node evaluates to without any memo
    Anonymous,    \* nodes whose identity cannot be resolved
    Capturable,   \* nodes whose failure a FailureRecord can replay
    Batches,      \* the batches considered
    None

VARIABLES
    batch,        \* the request: variants, predictions, the memo toggle
    memo,         \* _memo
    refcount,     \* _refcounts; 0 is an absent key
    pending,      \* _pending; <<>> before plan_roots
    root,         \* the active root, 0 when there is none
    stack,        \* what is being evaluated: the root, then the computations
                  \* in progress, each with the consumptions it has made
    raised,       \* the exception in flight
    outcomes,     \* what has been streamed
    broken,       \* the stream ended on an exception outside the boundary
    computes, unforeseen   \* EvaluationStats

stats == <<computes, unforeseen>>
vars == <<batch, memo, refcount, pending, root, stack, raised, outcomes, broken, stats>>

Kinds == {"value", "engine", "other"}
Results == [kind : Kinds, node : Nodes \union {None}]
Done == [kind |-> "value", node |-> None]      \* a variant's projection
Rejected == [kind |-> "engine", node |-> None] \* _prepare refuses the variant

Variants == [nodes : Seq(Nodes), valid : BOOLEAN]

Failed(result) == result.kind # "value"

\* What consuming the nodes in order comes to: the first failure, or `last`.
Evaluate(nodes, last) ==
    IF \E i \in DOMAIN nodes : Failed(Meaning[nodes[i]])
    THEN Meaning[nodes[CHOOSE i \in DOMAIN nodes :
                          /\ Failed(Meaning[nodes[i]])
                          /\ \A j \in 1..i-1 : ~ Failed(Meaning[nodes[j]])]]
    ELSE last

\* A variant evaluated by itself.
Alone(variant) ==
    IF variant.valid THEN Evaluate(variant.nodes, Done) ELSE Rejected

\* The counts of all roots together.
SumOver(counts, n) == FoldFunction(LAMBDA c, total : c[n] + total, 0, counts)

ASSUME GraphAssumption ==
    /\ Nodes \subseteq Nat /\ None \notin Nodes /\ None \notin Results
    /\ Children \in [Nodes -> Seq(Nodes)]
    /\ \A n \in Nodes : \A i \in DOMAIN Children[n] : Children[n][i] < n
    /\ Own \in [Nodes -> Kinds]
    /\ Meaning \in [Nodes -> Results]
    /\ \A n \in Nodes :
          Meaning[n] = Evaluate(Children[n], [kind |-> Own[n], node |-> n])
    /\ Anonymous \subseteq Nodes /\ Capturable \subseteq Nodes

ASSUME BatchAssumption ==
    \A b \in Batches :
        /\ b.memoEnabled \in BOOLEAN
        /\ b.variants \in Seq(Variants)
        /\ b.variants # <<>>
        /\ b.predicted \in [DOMAIN b.variants -> [Nodes -> Nat]]

Roots == DOMAIN batch.variants

-----------------------------------------------------------------------------
\* plan_roots: before the first root, every predicted consumption counts.
PlanRoots ==
    /\ pending = <<>>
    /\ pending' = batch.predicted
    /\ refcount' = [n \in Nodes |-> SumOver(batch.predicted, n)]
    /\ UNCHANGED <<batch, memo, root, stack, raised, outcomes, broken, stats>>

\* Enter the next root; a strategy that _prepare rejects raises at once.
EnterRoot ==
    LET r == Len(outcomes) + 1
    IN  /\ pending # <<>> /\ root = 0 /\ ~ broken /\ r \in Roots
        /\ root' = r
        /\ stack' = <<[node |-> None, made |-> 0, retain |-> FALSE]>>
        /\ raised' = IF batch.variants[r].valid THEN None ELSE Rejected
        /\ UNCHANGED <<batch, memo, refcount, pending, outcomes, broken, stats>>

-----------------------------------------------------------------------------
Predicted(n) == pending[root][n] > 0

\* The value _consume returns, and its effect on the counts.
Remaining(n) ==
    IF Predicted(n) /\ refcount[n] > 0 THEN refcount[n] - 1 ELSE refcount[n]

\* Mutant: counts down consumptions nobody predicted.
ConsumeUnpredicted(n) ==
    /\ pending' = [pending EXCEPT ![root][n] = @ - 1]
    /\ refcount' = [refcount EXCEPT ![n] = @ - 1]
    /\ UNCHANGED unforeseen

\* Mutant: forgets the count of the whole batch.
ConsumeRootOnly(n) ==
    IF Predicted(n)
    THEN pending' = [pending EXCEPT ![root][n] = @ - 1] /\ UNCHANGED <<refcount, unforeseen>>
    ELSE unforeseen' = unforeseen + 1 /\ UNCHANGED <<pending, refcount>>

Consume(n) ==
    IF Predicted(n)
    THEN /\ pending' = [pending EXCEPT ![root][n] = @ - 1]
         /\ refcount' = [refcount EXCEPT ![n] = Remaining(n)]
         /\ UNCHANGED unforeseen
    ELSE unforeseen' = unforeseen + 1 /\ UNCHANGED <<pending, refcount>>

\* What a frame consumes: the nodes of the root, or a node's children.
Consumes(frame) ==
    IF frame.node = None THEN batch.variants[root].nodes ELSE Children[frame.node]

Top == stack[Len(stack)]
Waiting == Top.made < Len(Consumes(Top))
Awaited == Consumes(Top)[Top.made + 1]
Stepped == [stack EXCEPT ![Len(stack)].made = @ + 1]

\* Mutant: a hit never evicts.
HitKeeps(n) ==
    /\ n \notin Anonymous /\ memo[n] # None
    /\ Consume(n)
    /\ raised' = IF Failed(memo[n]) THEN memo[n] ELSE None
    /\ stack' = Stepped
    /\ UNCHANGED <<batch, memo, root, outcomes, broken, computes>>

\* Mutant: a memoized failure is served as if it were a value.
HitSwallows(n) ==
    /\ n \notin Anonymous /\ memo[n] # None
    /\ Consume(n)
    /\ memo' = IF Remaining(n) = 0 THEN [memo EXCEPT ![n] = None] ELSE memo
    /\ stack' = Stepped
    /\ UNCHANGED <<batch, root, raised, outcomes, broken, computes>>

Hit(n) ==
    /\ n \notin Anonymous /\ memo[n] # None
    /\ Consume(n)
    /\ memo' = IF Remaining(n) = 0 THEN [memo EXCEPT ![n] = None] ELSE memo
    /\ raised' = IF Failed(memo[n]) THEN memo[n] ELSE None
    /\ stack' = Stepped
    /\ UNCHANGED <<batch, root, outcomes, broken, computes>>

Compute(n, retain) ==
    /\ stack' = Append(Stepped, [node |-> n, made |-> 0, retain |-> retain])
    /\ UNCHANGED <<batch, memo, root, raised, outcomes, broken>>

\* Mutant: retains only for two more consumers.
MissRetainsLate(n) ==
    /\ n \notin Anonymous /\ memo[n] = None
    /\ Consume(n)
    /\ computes' = [computes EXCEPT ![n] = @ + 1]
    /\ Compute(n, batch.memoEnabled /\ Remaining(n) > 1)

\* A miss decides before it computes whether the result will be retained.
Miss(n) ==
    /\ n \notin Anonymous /\ memo[n] = None
    /\ Consume(n)
    /\ computes' = [computes EXCEPT ![n] = @ + 1]
    /\ Compute(n, batch.memoEnabled /\ Remaining(n) > 0)

\* compute_through without an identity: no bookkeeping at all.
Direct(n) ==
    /\ n \in Anonymous
    /\ Compute(n, FALSE)
    /\ UNCHANGED <<pending, refcount, stats>>

ConsumeNext ==
    /\ root # 0 /\ raised = None /\ Waiting
    /\ Hit(Awaited) \/ Miss(Awaited) \/ Direct(Awaited)

-----------------------------------------------------------------------------
\* The end of the innermost computation: a value, or an exception on its way
\* out, is stored if it is retained and can be replayed.
Return(result) ==
    /\ memo' = IF Top.retain /\ (Failed(result) => result.node \in Capturable)
               THEN [memo EXCEPT ![Top.node] = result] ELSE memo
    /\ raised' = IF Failed(result) THEN result ELSE None
    /\ stack' = SubSeq(stack, 1, Len(stack) - 1)
    /\ UNCHANGED <<batch, refcount, pending, root, outcomes, broken, stats>>

\* The computation has all it consumes, and ends by itself.
FinishCompute ==
    /\ Len(stack) > 1 /\ raised = None /\ ~ Waiting
    /\ Return([kind |-> Own[Top.node], node |-> Top.node])

\* Mutant: a child's exception is recorded as the node's own.
UnwindAsOwn ==
    /\ Len(stack) > 1 /\ raised # None
    /\ Return([raised EXCEPT !.node = Top.node])

\* The exception of a child leaves the computation around it.
Unwind ==
    /\ Len(stack) > 1 /\ raised # None
    /\ Return(raised)

-----------------------------------------------------------------------------
\* root()'s finally: the consumptions the root never made are released.
ReleaseLeftovers ==
    LET released(n) == pending[root][n] > 0 /\ refcount[n] <= pending[root][n]
    IN  /\ refcount' = [n \in Nodes |->
                           IF released(n) THEN 0 ELSE refcount[n] - pending[root][n]]
        /\ memo' = [n \in Nodes |-> IF released(n) THEN None ELSE memo[n]]
        /\ pending' = [pending EXCEPT ![root] = [n \in Nodes |-> 0]]

\* The root ends, with its projection or on an exception; the stream goes on
\* only over an engine error.
LeaveRoot ==
    /\ Len(stack) = 1 /\ (raised = None => ~ Waiting)
    /\ ReleaseLeftovers
    /\ root' = 0 /\ stack' = <<>> /\ raised' = None
    /\ IF raised # None /\ raised.kind = "other"
       THEN broken' = TRUE /\ UNCHANGED outcomes
       ELSE /\ outcomes' = Append(outcomes, IF raised = None THEN Done ELSE raised)
            /\ UNCHANGED broken
    /\ UNCHANGED <<batch, stats>>

-----------------------------------------------------------------------------
Init ==
    /\ batch \in Batches
    /\ memo = [n \in Nodes |-> None]
    /\ refcount = [n \in Nodes |-> 0]
    /\ pending = <<>>
    /\ root = 0 /\ stack = <<>> /\ raised = None
    /\ outcomes = <<>> /\ broken = FALSE
    /\ computes = [n \in Nodes |-> 0] /\ unforeseen = 0

Next == PlanRoots \/ EnterRoot \/ ConsumeNext \/ FinishCompute \/ Unwind \/ LeaveRoot

\* One thread runs the whole batch; nothing in it waits.
Spec == Init /\ [][Next]_vars /\ WF_vars(Next)

-----------------------------------------------------------------------------
Frames == [node : Nodes \union {None}, made : Nat, retain : BOOLEAN]

TypeOK ==
    /\ batch \in Batches
    /\ memo \in [Nodes -> Results \union {None}]
    /\ refcount \in [Nodes -> Nat]
    /\ pending = <<>> \/ pending \in [Roots -> [Nodes -> Nat]]
    /\ root \in Roots \union {0}
    /\ stack \in Seq(Frames)
    /\ raised \in Results \union {None}
    /\ outcomes \in Seq(Results)
    /\ broken \in BOOLEAN
    /\ computes \in [Nodes -> Nat] /\ unforeseen \in Nat

\* A memo entry always has a consumer still to come: no result outlives its
\* last expected read, whether the reads happened, failed or were released
\* (memoized, _release).
NoEntryWithoutConsumer ==
    \A n \in Nodes : memo[n] # None => refcount[n] > 0

\* The reference counts are the consumptions still expected, of all roots,
\* through every hit, miss, failure and early end of a root (_consume).
CountsAgree ==
    pending # <<>> => \A n \in Nodes : refcount[n] = SumOver(pending, n)

\* A finished batch keeps nothing, however wrong the predictions were
\* (root()'s finally).
NothingLeft ==
    Len(outcomes) = Len(batch.variants) =>
        \A n \in Nodes : memo[n] = None /\ refcount[n] = 0

\* The books of a batch balance at every moment and close empty.
CountsKept == CountsAgree /\ NothingLeft

\* What the memo serves, value or replayed failure, is what the node
\* evaluates to by itself (memoized, FailureRecord.replay).
MemoMeaning ==
    \A n \in Nodes : memo[n] # None => memo[n] = Meaning[n]

\* While the pre-pass has foreseen every consumption so far, no identity is
\* computed twice in the batch, failures included (a failure that no
\* FailureRecord can replay excepted): the claim of EvaluationStats.
ComputedOnce ==
    batch.memoEnabled /\ unforeseen = 0 =>
        \A n \in Nodes :
            (Failed(Meaning[n]) => Meaning[n].node \in Capturable) => computes[n] <= 1

\* With or without the memo, and however wrong the predictions are, the
\* stream is the one of variants evaluated alone, in order, and it ends.
Reference == INSTANCE BatchOutcomes WITH variants <- batch.variants
StreamsAsAlone == Reference!Spec
=============================================================================
