------------------------ MODULE EvaluationMemo_proofs ------------------------
(* Proofs about EvaluationMemo, for every graph of nodes, every batch of   *)
(* variants and every prediction, right or wrong.                          *)
EXTENDS EvaluationMemo, InductionLemmas, SequenceTheorems

(* The root is at the bottom of the stack; a node computed for another one *)
(* is smaller, so that no frame is entered twice and a result that will be *)
(* retained keeps its consumer until it is stored.                         *)
StackShape ==
    /\ root # 0 <=> stack # <<>>
    /\ root # 0 => root \in Roots /\ root = Len(outcomes) + 1 /\ pending # <<>>
    /\ root = 0 => raised = None
    /\ root # 0 => ~ broken
    /\ pending = <<>> => \A n \in Nodes : memo[n] = None
    /\ \A i \in 1..Len(stack) :
          /\ stack[i].node = None <=> i = 1
          /\ stack[i].made <= Len(Consumes(stack[i]))
          /\ stack[i].retain => i > 1 /\ refcount[stack[i].node] > 0
    /\ \A i, j \in 2..Len(stack) : i < j => stack[j].node < stack[i].node

(* What a frame has consumed so far ended in values, but for the last one, *)
(* which the frame above it is still computing or whose exception is in    *)
(* flight.                                                                 *)
Consumption ==
    \A i \in 1..Len(stack) :
        LET f == stack[i]
            c == Consumes(f)
        IN  /\ \A k \in 1..f.made - 1 : ~ Failed(Meaning[c[k]])
            /\ i < Len(stack) => f.made > 0 /\ c[f.made] = stack[i+1].node
            /\ i = Len(stack) /\ raised = None /\ f.made > 0 => ~ Failed(Meaning[c[f.made]])

(* The exception in flight is what the last consumption evaluates to, or   *)
(* the refusal of the whole variant.                                       *)
Raising ==
    raised # None =>
        /\ Failed(raised)
        /\ IF batch.variants[root].valid
           THEN /\ Top.made > 0
                /\ raised = Meaning[Consumes(Top)[Top.made]]
           ELSE Len(stack) = 1 /\ raised = Rejected

Invalid == root # 0 /\ ~ batch.variants[root].valid => raised = Rejected

MInv == TypeOK /\ StackShape /\ NoEntryWithoutConsumer

TInv == MInv /\ MemoMeaning /\ Consumption /\ Raising /\ Invalid

-----------------------------------------------------------------------------
(* The sum of the counts of all roots, by induction over sets of roots.    *)

\* One step of the fold.
PartialSum(c, n, f, s) == IF s = {} THEN 0 ELSE c[Some(s)][n] + f[s \ {Some(s)}]

Sums(c, n, S, f) == f = [s \in SUBSET S |-> PartialSum(c, n, f, s)]

LEMMA SumExists ==
    ASSUME NEW S, IsFiniteSet(S), NEW c \in [S -> [Nodes -> Nat]], NEW n \in Nodes
    PROVE  \E f : Sums(c, n, S, f)
<1> DEFINE Upto(f, k) == \A s \in SUBSET S : Cardinality(s) <= k => f[s] = PartialSum(c, n, f, s)
           T == {k \in Nat : \E f \in [SUBSET S -> Nat] : Upto(f, k)}
<1>1. 0 \in T
  <2> DEFINE f == [s \in SUBSET S |-> 0]
  <2>1. ASSUME NEW s \in SUBSET S, Cardinality(s) <= 0 PROVE f[s] = PartialSum(c, n, f, s)
    <3>1. s = {}
      <4>1. Cardinality(s) \in Nat /\ (Cardinality(s) = 0 <=> s = {})
        BY SubsetSizes
      <4> QED
        BY <2>1, <4>1
    <3> QED
      BY <3>1 DEF PartialSum
  <2>2. f \in [SUBSET S -> Nat]
    OBVIOUS
  <2> HIDE DEF f
  <2> QED
    BY <2>1, <2>2
<1>2. ASSUME NEW k \in Nat, k \in T PROVE k + 1 \in T
  <2>1. PICK f \in [SUBSET S -> Nat] : Upto(f, k)
    BY <1>2
  <2> DEFINE g == [s \in SUBSET S |-> PartialSum(c, n, f, s)]
  <2>2. g \in [SUBSET S -> Nat]
    <3> SUFFICES ASSUME NEW s \in SUBSET S PROVE PartialSum(c, n, f, s) \in Nat
      OBVIOUS
    <3>1. s # {} => Some(s) \in S /\ s \ {Some(s)} \in SUBSET S
      BY SubsetSizes
    <3> QED
      BY <3>1 DEF PartialSum
  <2>3. ASSUME NEW s \in SUBSET S, Cardinality(s) <= k + 1
        PROVE  g[s] = PartialSum(c, n, g, s)
    <3>1. CASE s = {}
      BY <3>1 DEF PartialSum
    <3>2. CASE s # {}
      <4> DEFINE r == s \ {Some(s)}
      <4>1. r \in SUBSET S /\ Cardinality(r) <= k
        <5>1. Cardinality(s) \in Nat /\ Cardinality(r) = Cardinality(s) - 1
          BY <3>2, SubsetSizes
        <5> QED
          BY <2>3, <5>1
      <4>2. f[r] = PartialSum(c, n, f, r)
        BY <2>1, <4>1
      <4>3. g[r] = f[r]
        BY <4>1, <4>2
      <4>4. g[s] = PartialSum(c, n, f, s)
        OBVIOUS
      <4> HIDE DEF g
      <4> QED
        BY <3>2, <4>3, <4>4 DEF PartialSum
    <3> QED
      BY <3>1, <3>2
  <2> HIDE DEF g
  <2>4. Upto(g, k + 1)
    BY <2>3
  <2> QED
    BY <2>2, <2>4
<1> HIDE DEF T
<1>3. Cardinality(S) \in T
  <2>1. Nat \subseteq T
    BY <1>1, <1>2, NumbersFrom0
  <2> QED
    BY <2>1, FS_CardinalityType
<1>4. PICK f \in [SUBSET S -> Nat] : Upto(f, Cardinality(S))
  BY <1>3 DEF T
<1>5. \A s \in SUBSET S : f[s] = PartialSum(c, n, f, s)
  BY <1>4, FS_Subset
<1>6. f = [s \in SUBSET S |-> PartialSum(c, n, f, s)]
  BY <1>5
<1> QED
  BY <1>6 DEF Sums

\* f holds the sums of all sets of roots.
SumsOf(c, n, S, f) ==
    /\ SumOver(c, n) = f[S] /\ f[{}] = 0
    /\ \A s \in SUBSET S : s # {} => f[s] = c[Some(s)][n] + f[s \ {Some(s)}]

LEMMA SumIsSum ==
    ASSUME NEW S, IsFiniteSet(S), NEW c \in [S -> [Nodes -> Nat]], NEW n \in Nodes
    PROVE  \E f : SumsOf(c, n, S, f)
<1> DEFINE f == CHOOSE g : Sums(c, n, S, g)
<1>1. Sums(c, n, S, f)
  BY SumExists
<1>2. SumOver(c, n) = (CHOOSE g : Sums(c, n, DOMAIN c, g))[DOMAIN c]
  BY Zenon DEF SumOver, FoldFunction, FoldFunctionOnSet, MapThenFoldSet, Sums, PartialSum, Some
<1>3. DOMAIN c = S
  OBVIOUS
<1>4. SumOver(c, n) = f[S]
  BY <1>2, <1>3
<1> HIDE DEF f
<1>5. \A s \in SUBSET S : f[s] = PartialSum(c, n, f, s)
  BY <1>1 DEF Sums
<1>6. f[{}] = 0
  BY <1>5 DEF PartialSum
<1>7. \A s \in SUBSET S : s # {} => f[s] = c[Some(s)][n] + f[s \ {Some(s)}]
  BY <1>5 DEF PartialSum
<1> QED
  BY <1>4, <1>6, <1>7 DEF SumsOf

LEMMA SumType ==
    ASSUME NEW S, IsFiniteSet(S), NEW c \in [S -> [Nodes -> Nat]], NEW n \in Nodes
    PROVE  SumOver(c, n) \in Nat
<1>1. PICK f : SumsOf(c, n, S, f)
  BY SumIsSum
<1> DEFINE T == {s \in SUBSET S : f[s] \in Nat}
<1>2. ASSUME NEW s \in SUBSET S, s # {}, s \ {Some(s)} \in T PROVE s \in T
  <2>1. Some(s) \in S
    BY <1>2, SubsetSizes
  <2>2. c[Some(s)][n] \in Nat
    BY <2>1
  <2>3. f[s] = c[Some(s)][n] + f[s \ {Some(s)}]
    BY <1>1, <1>2 DEF SumsOf
  <2> QED
    BY <1>2, <2>2, <2>3
<1>3. {} \in T
  BY <1>1 DEF SumsOf
<1> HIDE DEF T
<1>4. SUBSET S \subseteq T
  BY <1>2, <1>3, SubsetInduction
<1>5. S \in T
  BY <1>4
<1> QED
  BY <1>1, <1>5 DEF T, SumsOf

\* No root expects more than all roots together.
LEMMA SumAtLeast ==
    ASSUME NEW S, IsFiniteSet(S), NEW c \in [S -> [Nodes -> Nat]], NEW n \in Nodes, NEW r \in S
    PROVE  c[r][n] <= SumOver(c, n)
<1>1. PICK f : SumsOf(c, n, S, f)
  BY SumIsSum
<1> DEFINE T == {s \in SUBSET S : f[s] \in Nat /\ (r \in s => c[r][n] <= f[s])}
<1>2. ASSUME NEW s \in SUBSET S, s # {}, s \ {Some(s)} \in T PROVE s \in T
  <2>1. Some(s) \in S
    BY <1>2, SubsetSizes
  <2>2. c[Some(s)][n] \in Nat /\ c[r][n] \in Nat
    BY <2>1
  <2>3. f[s] = c[Some(s)][n] + f[s \ {Some(s)}]
    BY <1>1, <1>2 DEF SumsOf
  <2>4. r \in s => r = Some(s) \/ r \in s \ {Some(s)}
    OBVIOUS
  <2> QED
    BY <1>2, <2>2, <2>3, <2>4
<1>3. {} \in T
  BY <1>1 DEF SumsOf
<1> HIDE DEF T
<1>4. SUBSET S \subseteq T
  BY <1>2, <1>3, SubsetInduction
<1>5. S \in T
  BY <1>4
<1> QED
  BY <1>1, <1>5 DEF T, SumsOf

SameElsewhere(c, d, n, S, r) == \A q \in S \ {r} : d[q][n] = c[q][n]

\* What one root's count changes by, the sum changes by.
LEMMA SumChange ==
    ASSUME NEW S, IsFiniteSet(S), NEW n \in Nodes, NEW r \in S,
           NEW c \in [S -> [Nodes -> Nat]], NEW d \in [S -> [Nodes -> Nat]],
           SameElsewhere(c, d, n, S, r)
    PROVE  SumOver(d, n) = SumOver(c, n) - c[r][n] + d[r][n]
<1>1. PICK f : SumsOf(c, n, S, f)
  BY SumIsSum
<1>2. PICK g : SumsOf(d, n, S, g)
  BY SumIsSum
<1> DEFINE T == {s \in SUBSET S : /\ f[s] \in Int
                                  /\ g[s] = IF r \in s THEN f[s] - c[r][n] + d[r][n] ELSE f[s]}
<1>3. ASSUME NEW s \in SUBSET S, s # {}, s \ {Some(s)} \in T PROVE s \in T
  <2> DEFINE q == Some(s)
             t == s \ {q}
  <2>1. q \in S /\ q \in s
    BY <1>3, SubsetSizes
  <2>2. c[q][n] \in Nat /\ c[r][n] \in Nat /\ d[q][n] \in Nat /\ d[r][n] \in Nat
    BY <2>1
  <2>3. f[s] = c[q][n] + f[t] /\ g[s] = d[q][n] + g[t]
    BY <1>1, <1>2, <1>3 DEF SumsOf
  <2>4. f[t] \in Int /\ g[t] = IF r \in t THEN f[t] - c[r][n] + d[r][n] ELSE f[t]
    BY <1>3
  <2>5. CASE q = r
    <3>1. r \in s /\ r \notin t
      BY <2>1, <2>5
    <3>2. g[t] = f[t]
      BY <2>4, <3>1
    <3> HIDE DEF q, t
    <3> QED
      BY <2>2, <2>3, <2>4, <2>5, <3>1, <3>2
  <2>6. CASE q # r
    <3>1. r \in s <=> r \in t
      BY <2>6
    <3>2. d[q][n] = c[q][n]
      BY <2>1, <2>6 DEF SameElsewhere
    <3> HIDE DEF q, t
    <3> QED
      BY <2>2, <2>3, <2>4, <3>1, <3>2
  <2> QED
    BY <2>5, <2>6
<1>4. {} \in T
  BY <1>1, <1>2 DEF SumsOf
<1> HIDE DEF T
<1>5. SUBSET S \subseteq T
  BY <1>3, <1>4, SubsetInduction
<1>6. S \in T
  BY <1>5
<1> QED
  BY <1>1, <1>2, <1>6 DEF T, SumsOf

\* The same, under a name.
Moved(c, d, n, r) == SumOver(d, n) = SumOver(c, n) - c[r][n] + d[r][n]

LEMMA SumMoved ==
    ASSUME NEW S, IsFiniteSet(S), NEW r \in S, NEW n \in Nodes,
           NEW c \in [S -> [Nodes -> Nat]], NEW d \in [S -> [Nodes -> Nat]],
           SameElsewhere(c, d, n, S, r)
    PROVE  Moved(c, d, n, r)
BY SumChange DEF Moved

LEMMA SumZero ==
    ASSUME NEW S, IsFiniteSet(S), NEW c \in [S -> [Nodes -> Nat]], NEW n \in Nodes,
           \A r \in S : c[r][n] = 0
    PROVE  SumOver(c, n) = 0
<1>1. PICK f : SumsOf(c, n, S, f)
  BY SumIsSum
<1> DEFINE T == {s \in SUBSET S : f[s] = 0}
<1>2. ASSUME NEW s \in SUBSET S, s # {}, s \ {Some(s)} \in T PROVE s \in T
  <2>1. c[Some(s)][n] = 0
    BY <1>2, SubsetSizes
  <2>2. f[s] = c[Some(s)][n] + f[s \ {Some(s)}]
    BY <1>1, <1>2 DEF SumsOf
  <2> QED
    BY <1>2, <2>1, <2>2
<1>3. {} \in T
  BY <1>1 DEF SumsOf
<1> HIDE DEF T
<1>4. SUBSET S \subseteq T
  BY <1>2, <1>3, SubsetInduction
<1>5. S \in T
  BY <1>4
<1> QED
  BY <1>1, <1>5 DEF T, SumsOf

-----------------------------------------------------------------------------
LEMMA InitMInv == Init => MInv
<1> SUFFICES ASSUME Init PROVE MInv
  OBVIOUS
<1>1. TypeOK
  <2>1. <<>> \in Seq(Frames) /\ <<>> \in Seq(Results)
    OBVIOUS
  <2>2. /\ memo \in [Nodes -> Results \union {None}]
        /\ refcount \in [Nodes -> Nat] /\ computes \in [Nodes -> Nat]
    BY DEF Init
  <2> QED
    BY <2>1, <2>2 DEF Init, TypeOK
<1>2. StackShape
  <2>1. Len(stack) = 0 /\ 1..0 = {} /\ 2..0 = {}
    BY DEF Init
  <2> QED
    BY <2>1 DEF Init, StackShape
<1>3. NoEntryWithoutConsumer
  BY DEF Init, NoEntryWithoutConsumer
<1> QED
  BY <1>1, <1>2, <1>3 DEF MInv

LEMMA BatchFacts ==
    ASSUME batch \in Batches
    PROVE  /\ Roots = 1..Len(batch.variants) /\ Len(batch.variants) \in Nat \ {0}
           /\ batch.predicted \in [Roots -> [Nodes -> Nat]]
           /\ batch.predicted # <<>>
           /\ \A r \in Roots : /\ batch.variants[r].nodes \in Seq(Nodes)
                               /\ batch.variants[r].valid \in BOOLEAN
           /\ \A n \in Nodes : SumOver(batch.predicted, n) \in Nat
           /\ batch.memoEnabled \in BOOLEAN
<1>1. batch.variants \in Seq(Variants) /\ batch.variants # <<>>
  BY BatchAssumption
<1>2. Roots = 1..Len(batch.variants) /\ Len(batch.variants) \in Nat \ {0}
  BY <1>1 DEF Roots
<1>3. batch.predicted \in [Roots -> [Nodes -> Nat]]
  BY BatchAssumption DEF Roots
<1>4. batch.predicted # <<>>
  <2>1. DOMAIN batch.predicted = Roots /\ 1 \in Roots
    BY <1>2, <1>3
  <2>2. 1 \notin DOMAIN <<>>
    OBVIOUS
  <2> QED
    BY <2>1, <2>2
<1>5. ASSUME NEW r \in Roots
      PROVE  batch.variants[r].nodes \in Seq(Nodes) /\ batch.variants[r].valid \in BOOLEAN
  <2>1. batch.variants[r] \in Variants
    BY <1>1, <1>2
  <2> QED
    BY <2>1 DEF Variants
<1>6. \A n \in Nodes : SumOver(batch.predicted, n) \in Nat
  <2>1. IsFiniteSet(Roots)
    BY <1>2, FS_Interval
  <2> QED
    BY <1>3, <2>1, SumType
<1> QED
  BY <1>2, <1>3, <1>4, <1>5, <1>6, BatchAssumption

LEMMA PlanMInv == MInv /\ PlanRoots => MInv'
<1> SUFFICES ASSUME MInv, PlanRoots PROVE MInv'
  OBVIOUS
<1> USE DEF MInv
<1>1. batch \in Batches /\ pending = <<>> /\ root = 0 /\ stack = <<>> /\ Len(stack) = 0
      /\ \A n \in Nodes : memo[n] = None
  BY DEF PlanRoots, StackShape, TypeOK
<1>2. TypeOK'
  BY <1>1, BatchFacts DEF PlanRoots, TypeOK, stats, Roots
<1>3. StackShape'
  <2>1. stack' = stack /\ root' = root /\ raised' = raised /\ pending' # <<>>
    BY <1>1, BatchFacts DEF PlanRoots
  <2>2. Len(stack') = 0 /\ 1..0 = {} /\ 2..0 = {}
    BY <1>1, <2>1
  <2> QED
    BY <1>1, <2>1, <2>2 DEF StackShape
<1>4. NoEntryWithoutConsumer'
  BY <1>1 DEF PlanRoots, NoEntryWithoutConsumer
<1> QED
  BY <1>2, <1>3, <1>4

LEMMA EnterMInv == MInv /\ EnterRoot => MInv'
<1> SUFFICES ASSUME MInv, EnterRoot PROVE MInv'
  OBVIOUS
<1> USE DEF MInv
<1> DEFINE r == Len(outcomes) + 1
           f == [node |-> None, made |-> 0, retain |-> FALSE]
<1>1. r \in Roots /\ root' = r /\ stack' = <<f>> /\ pending # <<>> /\ r # 0
      /\ UNCHANGED <<batch, memo, refcount, pending, outcomes, broken, stats>>
  BY BatchFacts DEF EnterRoot, TypeOK
<1>2. f \in Frames /\ Rejected \in Results
  BY DEF Frames, Rejected, Results, Kinds
<1>3. <<f>> \in Seq(Frames) /\ Len(<<f>>) = 1 /\ <<f>>[1] = f
  BY <1>2
<1>4. raised' \in Results \union {None}
  BY <1>2 DEF EnterRoot
<1>5. TypeOK'
  BY <1>1, <1>3, <1>4 DEF TypeOK, stats, Roots
<1>6. StackShape'
  <2>1. Len(Consumes(f)') \in Nat
    BY <1>1, BatchFacts DEF Consumes, TypeOK
  <2>2. \A i \in 1..Len(stack') : i = 1 /\ stack'[i] = f
    <3>1. Len(stack') = 1 /\ stack'[1] = f
      BY <1>1, <1>3
    <3> HIDE DEF f
    <3> QED
      BY <3>1
  <2>3. 2..Len(stack') = {} /\ stack' # <<>>
    BY <1>1, <1>3
  <2> QED
    BY <1>1, <2>1, <2>2, <2>3 DEF EnterRoot, StackShape, Roots, Consumes
<1>7. NoEntryWithoutConsumer'
  BY <1>1 DEF NoEntryWithoutConsumer
<1> QED
  BY <1>5, <1>6, <1>7

(* What Consume leaves: the counts stay counts, and only n's may drop.     *)
LEMMA ConsumeFacts ==
    ASSUME TypeOK, pending # <<>>, root \in Roots, NEW n \in Nodes, Consume(n),
           batch' = batch
    PROVE  /\ pending' \in [Roots -> [Nodes -> Nat]] /\ unforeseen' \in Nat
           /\ pending' # <<>>
           /\ refcount' \in [Nodes -> Nat] /\ refcount'[n] = Remaining(n)
           /\ \A m \in Nodes \ {n} : refcount'[m] = refcount[m]
           /\ refcount[n] > 0 => Remaining(n) > 0 \/ refcount'[n] = 0
<1>1. pending \in [Roots -> [Nodes -> Nat]] /\ refcount \in [Nodes -> Nat] /\ unforeseen \in Nat
  BY DEF TypeOK
<1>2. DOMAIN <<>> = {}
  OBVIOUS
<1>3. Remaining(n) \in Nat
  BY <1>1 DEF Remaining
<1>4. CASE Predicted(n)
  <2>1. pending' = [pending EXCEPT ![root][n] = @ - 1] /\ refcount' = [refcount EXCEPT ![n] = Remaining(n)]
        /\ unforeseen' = unforeseen
    BY <1>4 DEF Consume
  <2>2. pending[root] \in [Nodes -> Nat] /\ pending[root][n] - 1 \in Nat
    BY <1>1, <1>4 DEF Predicted
  <2>3. [pending[root] EXCEPT ![n] = @ - 1] \in [Nodes -> Nat]
    BY <2>2
  <2>4. pending' \in [Roots -> [Nodes -> Nat]]
    BY <1>1, <2>1, <2>3
  <2> QED
    BY <1>1, <1>2, <1>3, <2>1, <2>4
<1>5. CASE ~ Predicted(n)
  BY <1>1, <1>5 DEF Consume, Remaining
<1> QED
  BY <1>4, <1>5

(* Where the evaluation stands when it is about to consume a node.         *)
LEMMA AwaitedFacts ==
    ASSUME TypeOK, StackShape, root # 0, Waiting
    PROVE  /\ root \in Roots /\ pending # <<>>
           /\ Len(stack) \in Nat \ {0} /\ Top \in Frames /\ Top = stack[Len(stack)]
           /\ Consumes(Top) \in Seq(Nodes)
           /\ Top.made + 1 \in 1..Len(Consumes(Top))
           /\ Awaited \in Nodes
           /\ \A j \in 2..Len(stack) : stack[j].node \in Nodes /\ Awaited < stack[j].node
<1>1. root \in Roots /\ pending # <<>> /\ stack # <<>> /\ stack \in Seq(Frames)
  BY DEF TypeOK, StackShape
<1>2. Len(stack) \in Nat \ {0} /\ Top \in Frames /\ Top = stack[Len(stack)]
  BY <1>1, EmptySeq DEF Top
<1>3. \A j \in 2..Len(stack) : stack[j].node \in Nodes
  <2> TAKE j \in 2..Len(stack)
  <2>1. stack[j] \in Frames /\ j \in 1..Len(stack) /\ j # 1
    BY <1>1, <1>2
  <2> QED
    BY <2>1 DEF Frames, StackShape
<1>4. Top.node # None => Top.node \in Nodes
  BY <1>2 DEF Frames
<1>5. Consumes(Top) \in Seq(Nodes)
  BY <1>1, <1>4, BatchFacts, GraphAssumption DEF Consumes, TypeOK
<1>6. Top.made \in Nat /\ Top.made + 1 \in 1..Len(Consumes(Top))
  BY <1>2, <1>5 DEF Frames, Waiting
<1>7. Awaited \in Nodes
  BY <1>5, <1>6 DEF Awaited
<1>8. ASSUME NEW j \in 2..Len(stack) PROVE Awaited < stack[j].node
  <2>1. Len(stack) \in 2..Len(stack) /\ Top.node \in Nodes /\ Top.node # None
    BY <1>2, <1>3, <1>4, <1>8, GraphAssumption
  <2>2. Awaited < Top.node
    <3>1. Consumes(Top) = Children[Top.node]
      BY <2>1 DEF Consumes
    <3>2. Top.made + 1 \in DOMAIN Children[Top.node]
      BY <1>5, <1>6, <3>1
    <3>3. Children[Top.node][Top.made + 1] < Top.node
      BY <2>1, <3>2, GraphAssumption
    <3> QED
      BY <3>1, <3>3 DEF Awaited
  <2>3. j = Len(stack) \/ Top.node < stack[j].node
    BY <1>2, <1>8, <2>1 DEF StackShape
  <2>4. Awaited \in Nat /\ Top.node \in Nat /\ stack[j].node \in Nat
    BY <1>3, <1>7, <2>1, GraphAssumption
  <2> QED
    BY <1>2, <2>2, <2>3, <2>4
<1> QED
  BY <1>1, <1>2, <1>3, <1>5, <1>6, <1>7, <1>8

(* The stack after the innermost frame has made one more consumption.      *)
LEMMA SteppedFacts ==
    ASSUME TypeOK, StackShape, root # 0, Waiting
    PROVE  /\ Stepped \in Seq(Frames) /\ Len(Stepped) = Len(stack)
           /\ \A i \in 1..Len(stack) :
                 /\ Stepped[i].node = stack[i].node /\ Stepped[i].retain = stack[i].retain
                 /\ Stepped[i].made = IF i = Len(stack) THEN stack[i].made + 1 ELSE stack[i].made
<1>1. stack \in Seq(Frames) /\ Len(stack) \in 1..Len(stack) /\ Len(stack) \in Nat
  BY AwaitedFacts DEF TypeOK
<1>2. stack[Len(stack)] \in Frames
  BY <1>1
<1> DEFINE g == [stack[Len(stack)] EXCEPT !.made = @ + 1]
<1>3. g \in Frames /\ g.node = stack[Len(stack)].node /\ g.retain = stack[Len(stack)].retain
      /\ g.made = stack[Len(stack)].made + 1
  BY <1>2 DEF Frames
<1>4. Stepped = [stack EXCEPT ![Len(stack)] = g]
  BY <1>1 DEF Stepped
<1> HIDE DEF g
<1>5. Stepped \in Seq(Frames) /\ Len(Stepped) = Len(stack)
  BY <1>1, <1>3, <1>4
<1>6. \A i \in 1..Len(stack) : Stepped[i] = IF i = Len(stack) THEN g ELSE stack[i]
  BY <1>1, <1>4
<1> QED
  BY <1>3, <1>5, <1>6

LEMMA HitMInv == MInv /\ root # 0 /\ raised = None /\ Waiting /\ Hit(Awaited) => MInv'
<1> SUFFICES ASSUME MInv, root # 0, raised = None, Waiting, Hit(Awaited) PROVE MInv'
  OBVIOUS
<1> USE DEF MInv
<1> DEFINE n == Awaited
<1>1. n \in Nodes /\ root \in Roots /\ pending # <<>> /\ Len(stack) \in Nat \ {0}
      /\ Top \in Frames /\ Consumes(Top) \in Seq(Nodes)
      /\ Top.made + 1 \in 1..Len(Consumes(Top))
      /\ \A j \in 2..Len(stack) : stack[j].node \in Nodes /\ n < stack[j].node
  BY AwaitedFacts
<1> HIDE DEF n
<1>2. /\ Consume(n) /\ memo[n] # None /\ stack' = Stepped
      /\ memo' = IF Remaining(n) = 0 THEN [memo EXCEPT ![n] = None] ELSE memo
      /\ raised' = IF Failed(memo[n]) THEN memo[n] ELSE None
      /\ UNCHANGED <<batch, root, outcomes, broken, computes>>
  BY DEF Hit, n
<1>3. /\ pending' \in [Roots -> [Nodes -> Nat]] /\ unforeseen' \in Nat /\ pending' # <<>>
      /\ refcount' \in [Nodes -> Nat] /\ refcount'[n] = Remaining(n)
      /\ \A m \in Nodes \ {n} : refcount'[m] = refcount[m]
  BY <1>1, <1>2, ConsumeFacts
<1>4. /\ stack' \in Seq(Frames) /\ Len(stack') = Len(stack)
      /\ \A i \in 1..Len(stack) :
            /\ stack'[i].node = stack[i].node /\ stack'[i].retain = stack[i].retain
            /\ stack'[i].made = IF i = Len(stack) THEN stack[i].made + 1 ELSE stack[i].made
  BY <1>2, SteppedFacts
<1>5. TypeOK'
  BY <1>1, <1>2, <1>3, <1>4 DEF TypeOK, Roots
<1>6. StackShape'
  <2>1. Roots' = Roots /\ root' = root /\ stack' # <<>> /\ outcomes' = outcomes
    BY <1>1, <1>2, <1>4 DEF Roots
  <2>2. ASSUME NEW i \in 1..Len(stack')
        PROVE  /\ stack'[i].node = None <=> i = 1
               /\ stack'[i].made <= Len(Consumes(stack[i])')
               /\ stack'[i].retain => i > 1 /\ refcount'[stack'[i].node] > 0
    <3>1. i \in 1..Len(stack) /\ stack[i] \in Frames
      BY <1>4 DEF TypeOK
    <3>2. Consumes(stack[i])' = Consumes(stack[i])
      <4>1. stack'[i].node = stack[i].node
        BY <1>4, <3>1
      <4> QED
        BY <1>2, <4>1 DEF Consumes
    <3>3. stack'[i].made <= Len(Consumes(stack[i])')
      BY <1>1, <1>4, <3>1, <3>2 DEF StackShape, Top
    <3>4. stack[i].retain => i > 1 /\ refcount[stack[i].node] > 0
      BY <3>1 DEF StackShape
    <3>5. i > 1 => stack[i].node \in Nodes \ {n}
      BY <1>1, <3>1, GraphAssumption
    <3> QED
      BY <1>3, <1>4, <3>1, <3>3, <3>4, <3>5 DEF StackShape
  <2>3. \A i, j \in 2..Len(stack') : i < j => stack'[j].node < stack'[i].node
    <3>1. \A i \in 2..Len(stack') : i \in 1..Len(stack) /\ i \in 2..Len(stack)
      BY <1>1, <1>4
    <3>2. \A i \in 2..Len(stack') : stack'[i].node = stack[i].node
      BY <1>4, <3>1
    <3> QED
      BY <3>1, <3>2 DEF StackShape
  <2> QED
    BY <1>1, <1>2, <1>3, <2>1, <2>2, <2>3 DEF StackShape
<1>7. NoEntryWithoutConsumer'
  BY <1>1, <1>2, <1>3 DEF NoEntryWithoutConsumer, Remaining, TypeOK
<1> QED
  BY <1>5, <1>6, <1>7

(* A computation begins: the frame pushed retains only what the counts     *)
(* still expect.                                                           *)
LEMMA ComputeMInv ==
    ASSUME MInv, root # 0, raised = None, Waiting, NEW retain \in BOOLEAN,
           Compute(Awaited, retain),
           pending' \in [Roots -> [Nodes -> Nat]], pending' # <<>>,
           refcount' \in [Nodes -> Nat],
           unforeseen' \in Nat, computes' \in [Nodes -> Nat],
           \A m \in Nodes \ {Awaited} : refcount'[m] = refcount[m],
           memo[Awaited] = None \/ refcount' = refcount,
           retain => refcount'[Awaited] > 0
    PROVE  MInv'
<1> USE DEF MInv
<1> DEFINE n == Awaited
<1> DEFINE f == [node |-> n, made |-> 0, retain |-> retain]
           L == Len(stack)
<1>1. n \in Nodes /\ root \in Roots /\ pending # <<>> /\ L \in Nat \ {0}
      /\ Top \in Frames /\ Consumes(Top) \in Seq(Nodes) /\ Top = stack[L]
      /\ Top.made + 1 \in 1..Len(Consumes(Top))
      /\ \A j \in 2..L : stack[j].node \in Nodes /\ n < stack[j].node
  BY AwaitedFacts
<1>2. /\ stack' = Append(Stepped, f)
      /\ UNCHANGED <<batch, memo, root, raised, outcomes, broken>>
  BY DEF Compute
<1>3. /\ Stepped \in Seq(Frames) /\ Len(Stepped) = L
      /\ \A i \in 1..L :
            /\ Stepped[i].node = stack[i].node /\ Stepped[i].retain = stack[i].retain
            /\ Stepped[i].made = IF i = L THEN stack[i].made + 1 ELSE stack[i].made
  BY SteppedFacts
<1>4. f \in Frames /\ f.node = n /\ f.made = 0 /\ f.retain = retain
  BY <1>1 DEF Frames
<1> HIDE DEF n, f
<1>5. stack' \in Seq(Frames) /\ Len(stack') = L + 1 /\ stack'[L + 1] = f
      /\ \A i \in 1..L : stack'[i] = Stepped[i]
  BY <1>2, <1>3, <1>4, AppendProperties
<1>6. TypeOK'
  BY <1>1, <1>2, <1>5 DEF TypeOK, Roots
<1>7. StackShape'
  <2>1. Roots' = Roots /\ root' = root /\ outcomes' = outcomes
    BY <1>1, <1>2 DEF Roots
  <2> stack' # <<>>
    <3>1. Len(<<>>) = 0 /\ Len(stack') # 0
      BY <1>1, <1>5
    <3> QED
      BY <3>1
  <2>2. ASSUME NEW i \in 1..L
        PROVE  /\ stack'[i].node = None <=> i = 1
               /\ stack'[i].made <= Len(Consumes(stack[i])')
               /\ stack'[i].retain => i > 1 /\ refcount'[stack'[i].node] > 0
    <3>1. i \in 1..Len(stack) /\ stack[i] \in Frames
      BY DEF TypeOK
    <3>2. Consumes(stack[i])' = Consumes(stack[i])
      <4>1. stack'[i].node = stack[i].node
        BY <1>3, <1>5
      <4> QED
        BY <1>2, <4>1 DEF Consumes
    <3>7. /\ stack'[i].node = stack[i].node /\ stack'[i].retain = stack[i].retain
          /\ stack'[i].made = IF i = L THEN stack[i].made + 1 ELSE stack[i].made
      BY <1>3, <1>5
    <3>8. stack[i].made <= Len(Consumes(stack[i]))
      BY <3>1 DEF StackShape
    <3>3. stack'[i].made <= Len(Consumes(stack[i])')
      BY <1>1, <3>7, <3>8, <3>2
    <3>4. stack[i].retain => i > 1 /\ refcount[stack[i].node] > 0
      BY <3>1 DEF StackShape
    <3>5. i > 1 => stack[i].node \in Nodes \ {n}
      BY <1>1, <3>1, GraphAssumption
    <3>6. \A m \in Nodes \ {n} : refcount'[m] = refcount[m]
      BY DEF n
    <3> QED
      BY <3>1, <3>3, <3>4, <3>5, <3>6, <3>7 DEF StackShape
  <2>3. ASSUME NEW i \in 1..Len(stack'), i = L + 1
        PROVE  /\ stack'[i].node = None <=> i = 1
               /\ stack'[i].made <= Len(Consumes(stack[i])')
               /\ stack'[i].retain => i > 1 /\ refcount'[stack'[i].node] > 0
    <3>0. stack'[i] = f /\ n # None /\ Children[n] \in Seq(Nodes)
      BY <1>1, <1>5, <2>3, GraphAssumption
    <3>1. Consumes(stack[i])' = Children[n] /\ Children[n] \in Seq(Nodes) /\ n # None
      BY <1>4, <3>0 DEF Consumes
    <3>2. Len(Children[n]) \in Nat
      BY <3>1
    <3>3. retain => refcount'[n] > 0
      BY DEF n
    <3>4. i > 1 /\ i # 1
      <4>1. L \in Nat \ {0} /\ i = L + 1
        BY <1>1, <2>3
      <4> HIDE DEF L
      <4> QED
        BY <4>1
    <3> QED
      BY <1>4, <3>0, <3>1, <3>2, <3>3, <3>4
  <2>4. ASSUME NEW i \in 2..Len(stack'), NEW j \in 2..Len(stack'), i < j
        PROVE  stack'[j].node < stack'[i].node
    <3>0. i \in 2..L /\ i \in 1..L
      BY <1>1, <1>5, <2>4
    <3>1. i \in 2..L /\ stack'[i].node = stack[i].node
      BY <1>3, <1>5, <3>0
    <3>2. CASE j = L + 1
      BY <1>1, <1>4, <1>5, <3>1, <3>2
    <3>3. CASE j # L + 1
      <4>0. j \in 2..L /\ j \in 1..L
        BY <1>1, <1>5, <3>3
      <4>1. j \in 2..L /\ stack'[j].node = stack[j].node
        BY <1>3, <1>5, <4>0
      <4> QED
        BY <2>4, <3>1, <4>1 DEF StackShape
    <3> QED
      BY <3>2, <3>3
  <2>5. \A i \in 1..Len(stack') : i \in 1..L \/ i = L + 1
    BY <1>1, <1>5
  <2> HIDE DEF L
  <2>6. \A i \in 1..Len(stack') :
            /\ stack'[i].node = None <=> i = 1
            /\ stack'[i].made <= Len(Consumes(stack[i])')
            /\ stack'[i].retain => i > 1 /\ refcount'[stack'[i].node] > 0
    BY <2>2, <2>3, <2>5
  <2> QED
    BY <1>1, <1>2, <2>1, <2>4, <2>6 DEF StackShape
<1>8. NoEntryWithoutConsumer'
  BY <1>2 DEF NoEntryWithoutConsumer, n
<1> QED
  BY <1>6, <1>7, <1>8

LEMMA MissMInv == MInv /\ root # 0 /\ raised = None /\ Waiting /\ Miss(Awaited) => MInv'
<1> SUFFICES ASSUME MInv, root # 0, raised = None, Waiting, Miss(Awaited) PROVE MInv'
  OBVIOUS
<1> USE DEF MInv
<1>1. Awaited \in Nodes /\ root \in Roots /\ pending # <<>>
  BY AwaitedFacts
<1>2. Consume(Awaited) /\ batch' = batch /\ memo[Awaited] = None
      /\ computes' = [computes EXCEPT ![Awaited] = @ + 1]
      /\ Compute(Awaited, batch.memoEnabled /\ Remaining(Awaited) > 0)
  BY DEF Miss, Compute
<1>3. computes' \in [Nodes -> Nat]
  BY <1>1, <1>2 DEF TypeOK
<1>4. (batch.memoEnabled /\ Remaining(Awaited) > 0) \in BOOLEAN
  OBVIOUS
<1> QED
  BY <1>1, <1>2, <1>3, <1>4, ConsumeFacts, ComputeMInv

LEMMA DirectMInv == MInv /\ root # 0 /\ raised = None /\ Waiting /\ Direct(Awaited) => MInv'
<1> SUFFICES ASSUME MInv, root # 0, raised = None, Waiting, Direct(Awaited) PROVE MInv'
  OBVIOUS
<1>1. pending \in [Roots -> [Nodes -> Nat]] /\ pending # <<>>
  BY AwaitedFacts DEF TypeOK, MInv
<1> QED
  BY <1>1, ComputeMInv DEF Direct, stats, TypeOK, MInv

(* The facts of a computation that ends: the frame popped is not the root. *)
LEMMA PoppedFacts ==
    ASSUME TypeOK, StackShape, Len(stack) > 1
    PROVE  /\ root \in Roots /\ root # 0 /\ pending # <<>>
           /\ Len(stack) \in Nat /\ Len(stack) \in 2..Len(stack)
           /\ Top = stack[Len(stack)] /\ Top \in Frames /\ Top.node \in Nodes
           /\ Consumes(Top) = Children[Top.node] /\ Children[Top.node] \in Seq(Nodes)
           /\ Top.made \in Nat /\ Top.made <= Len(Consumes(Top))
           /\ Top.retain => refcount[Top.node] > 0
<1>1. stack \in Seq(Frames) /\ Len(stack) \in Nat /\ stack # <<>>
  BY DEF TypeOK
<1>2. Len(stack) \in 2..Len(stack) /\ Len(stack) \in 1..Len(stack) /\ Len(stack) # 1
  <2>1. \A l \in Nat : l > 1 => l \in 2..l /\ l \in 1..l /\ l # 1
    OBVIOUS
  <2> QED
    BY <1>1, <2>1
<1>3. Top = stack[Len(stack)] /\ Top \in Frames
  BY <1>1, <1>2 DEF Top
<1>4. Top.node # None /\ Top.made <= Len(Consumes(Top)) /\ (Top.retain => refcount[Top.node] > 0)
  BY <1>2, <1>3 DEF StackShape
<1>5. Top.node \in Nodes /\ Top.made \in Nat
  BY <1>3, <1>4 DEF Frames
<1> QED
  BY <1>1, <1>2, <1>3, <1>4, <1>5, GraphAssumption DEF StackShape, Consumes

LEMMA ReturnMInv ==
    ASSUME MInv, Len(stack) > 1, NEW result \in Results, Return(result)
    PROVE  MInv'
<1> USE DEF MInv
<1> DEFINE L == Len(stack)
<1>1. /\ root \in Roots /\ root # 0 /\ pending # <<>> /\ L \in Nat /\ L \in 2..L
      /\ Top.node \in Nodes /\ (Top.retain => refcount[Top.node] > 0)
  BY PoppedFacts
<1>2. /\ memo' = IF Top.retain /\ (Failed(result) => result.node \in Capturable)
                 THEN [memo EXCEPT ![Top.node] = result] ELSE memo
      /\ raised' = IF Failed(result) THEN result ELSE None
      /\ stack' = SubSeq(stack, 1, L - 1)
      /\ UNCHANGED <<batch, refcount, pending, root, outcomes, broken, computes, unforeseen>>
  BY DEF Return, stats
<1>3. stack' \in Seq(Frames) /\ Len(stack') = L - 1 /\ \A i \in 1..L-1 : stack'[i] = stack[i]
  BY <1>1, <1>2 DEF TypeOK
<1>4. TypeOK'
  BY <1>1, <1>2, <1>3 DEF TypeOK, Roots
<1>5. StackShape'
  <2>1. Roots' = Roots /\ Len(stack') # 0 /\ Len(<<>>) = 0
    BY <1>1, <1>2, <1>3 DEF Roots
  <2>2. ASSUME NEW i \in 1..Len(stack')
        PROVE  /\ stack'[i].node = None <=> i = 1
               /\ stack'[i].made <= Len(Consumes(stack[i])')
               /\ stack'[i].retain => i > 1 /\ refcount'[stack'[i].node] > 0
    <3>1. i \in 1..L /\ stack'[i] = stack[i]
      BY <1>1, <1>3
    <3>2. Consumes(stack[i])' = Consumes(stack[i])
      BY <1>2, <3>1 DEF Consumes
    <3> QED
      BY <1>2, <3>1, <3>2 DEF StackShape
  <2>3. ASSUME NEW i \in 2..Len(stack'), NEW j \in 2..Len(stack'), i < j
        PROVE  stack'[j].node < stack'[i].node
    <3>1. i \in 2..L /\ j \in 2..L /\ i \in 1..L-1 /\ j \in 1..L-1
      BY <1>1, <1>3
    <3> QED
      BY <1>3, <2>3, <3>1 DEF StackShape
  <2>4. stack' # <<>>
    BY <2>1
  <2> QED
    BY <1>1, <1>2, <2>1, <2>2, <2>3, <2>4 DEF StackShape
<1>6. NoEntryWithoutConsumer'
  BY <1>1, <1>2 DEF NoEntryWithoutConsumer, TypeOK
<1> QED
  BY <1>4, <1>5, <1>6

LEMMA FinishMInv == MInv /\ FinishCompute => MInv'
<1> SUFFICES ASSUME MInv, FinishCompute PROVE MInv'
  OBVIOUS
<1>1. Top.node \in Nodes
  BY PoppedFacts DEF FinishCompute, MInv
<1>2. [kind |-> Own[Top.node], node |-> Top.node] \in Results
  BY <1>1, GraphAssumption DEF Results
<1> QED
  BY <1>2, ReturnMInv DEF FinishCompute

LEMMA UnwindMInv == MInv /\ Unwind => MInv'
<1> SUFFICES ASSUME MInv, Unwind PROVE MInv'
  OBVIOUS
<1>1. raised \in Results
  BY DEF Unwind, MInv, TypeOK
<1> QED
  BY <1>1, ReturnMInv DEF Unwind

LEMMA LeaveMInv == MInv /\ LeaveRoot => MInv'
<1> SUFFICES ASSUME MInv, LeaveRoot PROVE MInv'
  OBVIOUS
<1> USE DEF MInv
<1> DEFINE released(n) == pending[root][n] > 0 /\ refcount[n] <= pending[root][n]
<1>1. root # 0 /\ root \in Roots /\ pending # <<>>
  <2>1. Len(stack) = 1 /\ Len(<<>>) = 0
    BY DEF LeaveRoot
  <2>2. stack # <<>>
    BY <2>1
  <2> QED
    BY <2>2 DEF StackShape
<1>2. pending \in [Roots -> [Nodes -> Nat]] /\ pending[root] \in [Nodes -> Nat]
      /\ refcount \in [Nodes -> Nat] /\ memo \in [Nodes -> Results \union {None}]
  BY <1>1 DEF TypeOK
<1>3. /\ refcount' = [n \in Nodes |-> IF released(n) THEN 0 ELSE refcount[n] - pending[root][n]]
      /\ memo' = [n \in Nodes |-> IF released(n) THEN None ELSE memo[n]]
      /\ pending' = [pending EXCEPT ![root] = [n \in Nodes |-> 0]]
      /\ root' = 0 /\ stack' = <<>> /\ raised' = None /\ UNCHANGED <<batch, computes, unforeseen>>
  BY DEF LeaveRoot, ReleaseLeftovers, stats
<1>4. pending' \in [Roots -> [Nodes -> Nat]] /\ pending' # <<>>
  <2>1. [n \in Nodes |-> 0] \in [Nodes -> Nat]
    OBVIOUS
  <2>2. DOMAIN pending' = Roots /\ DOMAIN <<>> = {}
    BY <1>2, <1>3
  <2> QED
    BY <1>1, <1>2, <1>3, <2>1, <2>2
<1>5. \A n \in Nodes : refcount'[n] \in Nat /\ (refcount'[n] > 0 \/ memo'[n] = None \/ refcount[n] = 0)
  BY <1>2, <1>3
<1>6. outcomes' \in Seq(Results) /\ broken' \in BOOLEAN
  <2>1. Done \in Results
    BY DEF Done, Results, Kinds
  <2> DEFINE e == IF raised = None THEN Done ELSE raised
  <2>2. e \in Results
    BY <2>1 DEF TypeOK
  <2>3. Append(outcomes, e) \in Seq(Results)
    BY <2>2 DEF TypeOK
  <2>4. (broken' = TRUE /\ outcomes' = outcomes) \/ (broken' = broken /\ outcomes' = Append(outcomes, e))
    BY DEF LeaveRoot
  <2> QED
    BY <2>3, <2>4 DEF TypeOK
<1>7. TypeOK'
  <2>1. refcount' \in [Nodes -> Nat] /\ memo' \in [Nodes -> Results \union {None}]
    BY <1>2, <1>3, <1>5
  <2>2. stack' \in Seq(Frames)
    BY <1>3
  <2> QED
    BY <1>3, <1>4, <1>6, <2>1, <2>2 DEF TypeOK, Roots
<1>8. StackShape'
  <2>1. Len(stack') = 0 /\ 1..0 = {} /\ 2..0 = {}
    BY <1>3
  <2> QED
    BY <1>3, <1>4, <2>1 DEF StackShape
<1>9. NoEntryWithoutConsumer'
  <2> SUFFICES ASSUME NEW n \in Nodes, memo'[n] # None PROVE refcount'[n] > 0
    BY DEF NoEntryWithoutConsumer
  <2>1. memo[n] # None
    BY <1>3
  <2>2. refcount[n] > 0
    BY <2>1 DEF NoEntryWithoutConsumer
  <2> QED
    BY <1>5, <2>2, <1>2
<1> QED
  BY <1>7, <1>8, <1>9

LEMMA NextMInv == MInv /\ [Next]_vars => MInv'
<1> SUFFICES ASSUME MInv, [Next]_vars PROVE MInv'
  OBVIOUS
<1>1. CASE PlanRoots
  BY <1>1, PlanMInv
<1>2. CASE EnterRoot
  BY <1>2, EnterMInv
<1>3. CASE ConsumeNext
  BY <1>3, HitMInv, MissMInv, DirectMInv DEF ConsumeNext
<1>4. CASE FinishCompute
  BY <1>4, FinishMInv
<1>5. CASE Unwind
  BY <1>5, UnwindMInv
<1>6. CASE LeaveRoot
  BY <1>6, LeaveMInv
<1>7. CASE UNCHANGED vars
  BY <1>7 DEF vars, stats, MInv, TypeOK, StackShape, NoEntryWithoutConsumer, Roots, Consumes
<1> QED
  BY <1>1, <1>2, <1>3, <1>4, <1>5, <1>6, <1>7 DEF Next

-----------------------------------------------------------------------------
(* What consuming a sequence of nodes comes to.                            *)
LEMMA FirstFailure ==
    ASSUME NEW nodes \in Seq(Nodes), NEW last, NEW k \in 1..Len(nodes),
           Failed(Meaning[nodes[k]]),
           \A j \in 1..k-1 : ~ Failed(Meaning[nodes[j]])
    PROVE  Evaluate(nodes, last) = Meaning[nodes[k]]
<1> DEFINE P(i) == /\ Failed(Meaning[nodes[i]])
                   /\ \A j \in 1..i-1 : ~ Failed(Meaning[nodes[j]])
           c == CHOOSE i \in DOMAIN nodes : P(i)
<1>1. DOMAIN nodes = 1..Len(nodes) /\ Len(nodes) \in Nat
  OBVIOUS
<1>2. k \in DOMAIN nodes /\ P(k)
  BY <1>1
<1>3. c \in DOMAIN nodes /\ P(c)
  <2> HIDE DEF P
  <2> QED
    BY <1>2
<1>4. c = k
  <2>1. c \in 1..Len(nodes) /\ P(c)
    BY <1>1, <1>3
  <2> HIDE DEF c
  <2>2. ~ (c < k) /\ ~ (k < c)
    BY <1>1, <2>1
  <2> QED
    BY <1>1, <2>1, <2>2
<1>5. Evaluate(nodes, last) = Meaning[nodes[c]]
  BY <1>2 DEF Evaluate
<1> HIDE DEF c
<1> QED
  BY <1>4, <1>5

LEMMA NoFailure ==
    ASSUME NEW nodes \in Seq(Nodes), NEW last,
           \A j \in 1..Len(nodes) : ~ Failed(Meaning[nodes[j]])
    PROVE  Evaluate(nodes, last) = last
<1>1. DOMAIN nodes = 1..Len(nodes)
  OBVIOUS
<1> QED
  BY <1>1 DEF Evaluate

LEMMA InitTInv == Init => TInv
<1> SUFFICES ASSUME Init PROVE TInv
  OBVIOUS
<1>1. Len(stack) = 0 /\ 1..0 = {}
  BY DEF Init
<1>2. MemoMeaning /\ Consumption /\ Raising /\ Invalid
  BY <1>1 DEF Init, MemoMeaning, Consumption, Raising, Invalid
<1> QED
  BY <1>2, InitMInv DEF TInv

LEMMA PlanTInv == TInv /\ PlanRoots => TInv'
<1> SUFFICES ASSUME TInv, PlanRoots PROVE TInv'
  OBVIOUS
<1>1. /\ UNCHANGED <<batch, memo, root, stack, raised>>
  BY DEF PlanRoots
<1>2. (MemoMeaning /\ Consumption /\ Raising /\ Invalid)'
  BY <1>1 DEF TInv, MemoMeaning, Consumption, Raising, Invalid, Consumes, Top
<1> QED
  BY <1>2, PlanMInv DEF TInv

LEMMA EnterTInv == TInv /\ EnterRoot => TInv'
<1> SUFFICES ASSUME TInv, EnterRoot PROVE TInv'
  OBVIOUS
<1> DEFINE r == Len(outcomes) + 1
           f == [node |-> None, made |-> 0, retain |-> FALSE]
<1>1. /\ root' = r /\ stack' = <<f>> /\ UNCHANGED <<batch, memo>>
      /\ raised' = IF batch.variants[r].valid THEN None ELSE Rejected
  BY DEF EnterRoot
<1>2. Len(stack') = 1 /\ stack'[1] = f /\ f.made = 0 /\ f.node = None
  BY <1>1
<1> HIDE DEF f, r
<1>3. Consumption'
  <2> SUFFICES ASSUME NEW i \in 1..Len(stack') PROVE i = 1
    BY <1>2 DEF Consumption
  <2> QED
    BY <1>2
<1>4. Raising' /\ Invalid' /\ MemoMeaning'
  BY <1>1, <1>2, GraphAssumption DEF TInv, Raising, Invalid, MemoMeaning, Rejected, Failed
<1> QED
  BY <1>3, <1>4, EnterMInv DEF TInv

(* Before a consumption everything consumed was a value.                   *)
LEMMA ConsumingFacts ==
    ASSUME TInv, root # 0, raised = None, Waiting
    PROVE  /\ batch.variants[root].valid
           /\ Top.made \in Nat /\ Len(stack) \in Nat \ {0} /\ Top = stack[Len(stack)]
           /\ Awaited = Consumes(Top)[Top.made + 1] /\ Awaited \in Nodes
           /\ \A k \in 1..Top.made : ~ Failed(Meaning[Consumes(Top)[k]])
<1>1. Len(stack) \in Nat \ {0} /\ Top = stack[Len(stack)] /\ Top \in Frames /\ Awaited \in Nodes
      /\ root \in Roots
  BY AwaitedFacts DEF TInv, MInv
<1>2. Top.made \in Nat
  BY <1>1 DEF Frames
<1>3. batch.variants[root].valid
  <2>1. Rejected # None
    BY GraphAssumption DEF Rejected, Results, Kinds
  <2> QED
    BY <2>1 DEF TInv, Invalid
<1>4. Len(stack) \in 1..Len(stack)
  BY <1>1
<1>5. /\ \A k \in 1..Top.made - 1 : ~ Failed(Meaning[Consumes(Top)[k]])
      /\ Top.made > 0 => ~ Failed(Meaning[Consumes(Top)[Top.made]])
  BY <1>1, <1>4 DEF TInv, Consumption
<1>6. \A k \in 1..Top.made : k \in 1..Top.made - 1 \/ (k = Top.made /\ Top.made > 0)
  BY <1>2
<1> QED
  BY <1>1, <1>2, <1>3, <1>5, <1>6 DEF Awaited

LEMMA HitTInv == TInv /\ root # 0 /\ raised = None /\ Waiting /\ Hit(Awaited) => TInv'
<1> SUFFICES ASSUME TInv, root # 0, raised = None, Waiting, Hit(Awaited) PROVE TInv'
  OBVIOUS
<1> DEFINE L == Len(stack)
           n == Awaited
<1>1. /\ batch.variants[root].valid /\ Top.made \in Nat /\ L \in Nat \ {0} /\ Top = stack[L]
      /\ n = Consumes(Top)[Top.made + 1] /\ n \in Nodes
      /\ \A k \in 1..Top.made : ~ Failed(Meaning[Consumes(Top)[k]])
  BY ConsumingFacts
<1>2. /\ stack' = Stepped /\ memo[n] # None
      /\ memo' = IF Remaining(n) = 0 THEN [memo EXCEPT ![n] = None] ELSE memo
      /\ raised' = IF Failed(memo[n]) THEN memo[n] ELSE None
      /\ UNCHANGED <<batch, root>>
  BY DEF Hit
<1>3. /\ Len(stack') = L
      /\ \A i \in 1..L :
            /\ stack'[i].node = stack[i].node
            /\ stack'[i].made = IF i = L THEN stack[i].made + 1 ELSE stack[i].made
  BY <1>2, SteppedFacts DEF TInv, MInv
<1>4. memo[n] = Meaning[n] /\ L \in 1..L
  BY <1>1, <1>2 DEF TInv, MemoMeaning
<1> HIDE DEF n
<1>5. MemoMeaning'
  BY <1>2, <1>1 DEF TInv, MInv, MemoMeaning, TypeOK
<1>6. \A i \in 1..L : Consumes(stack[i])' = Consumes(stack[i])
  BY <1>2, <1>3 DEF Consumes
<1>7. ASSUME NEW i \in 1..L
      PROVE  /\ \A k \in 1..stack'[i].made - 1 : ~ Failed(Meaning[Consumes(stack[i])[k]])
             /\ i < L => stack'[i].made > 0 /\ Consumes(stack[i])[stack'[i].made] = stack'[i+1].node
             /\ i = L /\ raised' = None => ~ Failed(Meaning[Consumes(stack[i])[stack'[i].made]])
  <2>1. CASE i < L
    <3>1. i + 1 \in 1..L /\ i # L
      BY <1>1, <2>1
    <3> QED
      BY <1>1, <1>3, <2>1, <3>1 DEF TInv, Consumption
  <2>2. CASE i = L
    <3>1. stack'[i].made = Top.made + 1 /\ Consumes(stack[i]) = Consumes(Top)
      BY <1>1, <1>3, <2>2
    <3>2. raised' = None => ~ Failed(Meaning[n])
      BY <1>2, <1>4
    <3> QED
      BY <1>1, <2>2, <3>1, <3>2
  <2> QED
    BY <1>1, <2>1, <2>2
<1>8. Consumption'
  BY <1>3, <1>6, <1>7 DEF Consumption
<1>9. Raising' /\ Invalid'
  <2>1. Top' = stack'[L] /\ Top'.made = Top.made + 1 /\ Consumes(Top)' = Consumes(Top)
    <3>1. Top' = stack'[L]
      BY <1>3 DEF Top
    <3>2. Consumes(Top)' = Consumes(stack[L])'
      BY <3>1, <1>3
    <3> QED
      BY <1>1, <1>3, <1>4, <1>6, <3>1, <3>2
  <2> QED
    BY <1>1, <1>2, <1>4, <2>1 DEF Raising, Invalid
<1> QED
  BY <1>5, <1>8, <1>9, HitMInv DEF TInv

LEMMA ComputeTInv ==
    ASSUME TInv, root # 0, raised = None, Waiting, NEW retain \in BOOLEAN,
           Compute(Awaited, retain), MInv'
    PROVE  TInv'
<1> DEFINE L == Len(stack)
           n == Awaited
           f == [node |-> n, made |-> 0, retain |-> retain]
<1>1. /\ batch.variants[root].valid /\ Top.made \in Nat /\ L \in Nat \ {0} /\ Top = stack[L]
      /\ n = Consumes(Top)[Top.made + 1] /\ n \in Nodes
      /\ \A k \in 1..Top.made : ~ Failed(Meaning[Consumes(Top)[k]])
  BY ConsumingFacts
<1>2. stack' = Append(Stepped, f) /\ UNCHANGED <<batch, root, raised, memo>>
  BY DEF Compute
<1>3. /\ Stepped \in Seq(Frames) /\ Len(Stepped) = L
      /\ \A i \in 1..L :
            /\ Stepped[i].node = stack[i].node
            /\ Stepped[i].made = IF i = L THEN stack[i].made + 1 ELSE stack[i].made
  BY SteppedFacts DEF TInv, MInv
<1>4. f \in Frames /\ f.made = 0 /\ f.node = n
  BY <1>1 DEF Frames
<1> HIDE DEF n, f
<1>5. Len(stack') = L + 1 /\ stack'[L+1] = f /\ \A i \in 1..L : stack'[i] = Stepped[i]
  BY <1>1, <1>2, <1>3, <1>4
<1>6. \A i \in 1..L : Consumes(stack[i])' = Consumes(stack[i])
  <2> TAKE i \in 1..L
  <2>1. stack'[i].node = stack[i].node
    BY <1>3, <1>5
  <2> QED
    BY <1>2, <2>1 DEF Consumes
<1>7. ASSUME NEW i \in 1..L
      PROVE  /\ \A k \in 1..stack'[i].made - 1 : ~ Failed(Meaning[Consumes(stack[i])'[k]])
             /\ stack'[i].made > 0 /\ Consumes(stack[i])'[stack'[i].made] = stack'[i+1].node
  <2>1. stack'[i].made = Stepped[i].made
    BY <1>5
  <2>2. CASE i < L
    <3>1. i + 1 \in 1..L /\ i # L
      BY <1>1, <2>2
    <3>2. stack'[i].made = stack[i].made /\ stack'[i+1].node = stack[i+1].node
      BY <1>3, <1>5, <3>1
    <3> QED
      BY <1>1, <1>6, <2>2, <3>2 DEF TInv, Consumption
  <2>3. CASE i = L
    <3>1. stack'[i].made = Top.made + 1 /\ Consumes(stack[i])' = Consumes(Top)
          /\ stack'[i+1].node = n
      BY <1>1, <1>3, <1>4, <1>5, <1>6, <2>1, <2>3
    <3> QED
      BY <1>1, <3>1
  <2> QED
    BY <1>1, <2>2, <2>3
<1>8. ASSUME NEW i \in 1..Len(stack'), i = L + 1
      PROVE  stack'[i].made = 0 /\ i = Len(stack')
  BY <1>4, <1>5, <1>8
<1>9. Consumption'
  <2>1. \A i \in 1..Len(stack') : (i \in 1..L /\ i < Len(stack')) \/ i = L + 1
    BY <1>1, <1>5
  <2> HIDE DEF L
  <2> SUFFICES ASSUME NEW i \in 1..Len(stack')
               PROVE  /\ \A k \in 1..stack'[i].made - 1 : ~ Failed(Meaning[Consumes(stack[i])'[k]])
                      /\ i < Len(stack') =>
                            stack'[i].made > 0 /\ Consumes(stack[i])'[stack'[i].made] = stack'[i+1].node
                      /\ i = Len(stack') /\ raised' = None /\ stack'[i].made > 0 =>
                            ~ Failed(Meaning[Consumes(stack[i])'[stack'[i].made]])
    BY DEF Consumption
  <2>2. CASE i \in 1..L /\ i < Len(stack')
    BY <1>1, <1>5, <1>7, <2>2
  <2>3. CASE i = L + 1
    BY <1>1, <1>5, <1>8, <2>3
  <2> QED
    BY <2>1, <2>2, <2>3
<1>10. (MemoMeaning /\ Raising /\ Invalid)'
  BY <1>1, <1>2 DEF TInv, MemoMeaning, Raising, Invalid
<1> QED
  BY <1>9, <1>10 DEF TInv

LEMMA ReturnTInv ==
    ASSUME TInv, Len(stack) > 1, NEW result \in Results, Return(result),
           result = Meaning[Top.node], MInv'
    PROVE  TInv'
<1> DEFINE L == Len(stack)
<1>1. /\ root \in Roots /\ root # 0 /\ L \in Nat /\ L \in 2..L
      /\ Top = stack[L] /\ Top.node \in Nodes
  BY PoppedFacts DEF TInv, MInv
<1>2. /\ memo' = IF Top.retain /\ (Failed(result) => result.node \in Capturable)
                 THEN [memo EXCEPT ![Top.node] = result] ELSE memo
      /\ raised' = IF Failed(result) THEN result ELSE None
      /\ stack' = SubSeq(stack, 1, L - 1)
      /\ UNCHANGED <<batch, root>>
  BY DEF Return
<1>3. Len(stack') = L - 1 /\ \A i \in 1..L-1 : stack'[i] = stack[i]
  BY <1>1, <1>2 DEF TInv, MInv, TypeOK
<1>4. batch.variants[root].valid
  <2>1. raised = None \/ batch.variants[root].valid
    BY <1>1 DEF TInv, Raising
  <2>2. Rejected # None
    BY GraphAssumption DEF Rejected, Results, Kinds
  <2> QED
    BY <1>1, <2>1, <2>2 DEF TInv, Invalid
<1>5. MemoMeaning'
  BY <1>1, <1>2 DEF TInv, MInv, MemoMeaning, TypeOK
<1>6. \A i \in 1..L-1 : Consumes(stack[i])' = Consumes(stack[i])
  BY <1>2, <1>3 DEF Consumes
<1>7. \A i \in 1..L-1 : i \in 1..L /\ i < L /\ (i < L-1 => i + 1 \in 1..L-1)
  BY <1>1
<1>8. \A i \in 1..L-1 : stack[i].made > 0 /\ Consumes(stack[i])[stack[i].made] = stack[i+1].node
                        /\ \A k \in 1..stack[i].made - 1 : ~ Failed(Meaning[Consumes(stack[i])[k]])
  BY <1>7 DEF TInv, Consumption
<1>9. L - 1 \in 1..L-1 /\ (L - 1) + 1 = L
  BY <1>1
<1>10. /\ Top' = stack[L-1] /\ Consumes(Top)' = Consumes(stack[L-1])
       /\ Consumes(stack[L-1])[stack[L-1].made] = Top.node
  <2>1. Top' = stack[L-1]
    BY <1>3, <1>9 DEF Top
  <2> QED
    BY <1>1, <1>2, <1>8, <1>9, <2>1 DEF Consumes
<1>11. Consumption'
  <2> SUFFICES ASSUME NEW i \in 1..L-1
               PROVE  /\ \A k \in 1..stack[i].made - 1 : ~ Failed(Meaning[Consumes(stack[i])[k]])
                      /\ i < L-1 => stack[i].made > 0 /\ Consumes(stack[i])[stack[i].made] = stack'[i+1].node
                      /\ i = L-1 /\ raised' = None /\ stack[i].made > 0 =>
                            ~ Failed(Meaning[Consumes(stack[i])[stack[i].made]])
    BY <1>3, <1>6 DEF Consumption
  <2>1. i < L-1 => stack'[i+1] = stack[i+1]
    BY <1>3, <1>7
  <2>2. i = L-1 /\ raised' = None => ~ Failed(Meaning[Consumes(stack[i])[stack[i].made]])
    <3>1. Failed(result) => result # None
      BY GraphAssumption
    <3> QED
      BY <1>2, <1>10, <3>1
  <2> QED
    BY <1>8, <2>1, <2>2
<1>12. Raising' /\ Invalid'
  BY <1>1, <1>2, <1>4, <1>8, <1>9, <1>10 DEF Raising, Invalid
<1> QED
  BY <1>5, <1>11, <1>12 DEF TInv

(* A computation that ends, by itself or on the exception of a child, ends *)
(* with what its node evaluates to.                                        *)
LEMMA FinishMeaning ==
    ASSUME TInv, FinishCompute
    PROVE  \E result \in Results :
               Len(stack) > 1 /\ Return(result) /\ result = Meaning[Top.node]
<1> DEFINE result == [kind |-> Own[Top.node], node |-> Top.node]
           c == Children[Top.node]
<1>1. /\ Len(stack) \in Nat /\ Len(stack) > 1 /\ raised = None /\ ~ Waiting /\ Return(result)
  BY PoppedFacts DEF FinishCompute, TInv, MInv
<1>2. /\ Len(stack) \in 2..Len(stack) /\ Top = stack[Len(stack)] /\ Top.node \in Nodes
      /\ Consumes(Top) = c /\ c \in Seq(Nodes) /\ Top.made \in Nat /\ Top.made <= Len(c)
  BY <1>1, PoppedFacts DEF TInv, MInv
<1>3. Top.made = Len(c)
  BY <1>1, <1>2 DEF Waiting
<1>4. \A k \in 1..Len(c) : ~ Failed(Meaning[c[k]])
  <2>1. Len(stack) \in 1..Len(stack)
    BY <1>1, <1>2
  <2>2. /\ \A k \in 1..Top.made - 1 : ~ Failed(Meaning[c[k]])
        /\ Top.made > 0 => ~ Failed(Meaning[c[Top.made]])
    BY <1>1, <1>2, <2>1 DEF TInv, Consumption
  <2>3. \A k \in 1..Len(c) : k \in 1..Top.made - 1 \/ (k = Top.made /\ Top.made > 0)
    BY <1>2, <1>3
  <2> QED
    BY <2>2, <2>3
<1> HIDE DEF c
<1>5. result = Meaning[Top.node]
  BY <1>2, <1>4, NoFailure, GraphAssumption DEF c
<1>6. result \in Results
  BY <1>2, <1>5, GraphAssumption, SMTT(30)
<1> HIDE DEF result
<1> QED
  BY <1>1, <1>5, <1>6

LEMMA UnwindMeaning ==
    ASSUME TInv, Unwind
    PROVE  \E result \in Results :
               Len(stack) > 1 /\ Return(result) /\ result = Meaning[Top.node]
<1> DEFINE c == Children[Top.node]
<1>1. /\ Len(stack) > 1 /\ raised # None /\ Return(raised) /\ raised \in Results
  BY DEF Unwind, TInv, MInv, TypeOK
<1>2. /\ Len(stack) \in 2..Len(stack) /\ Top = stack[Len(stack)] /\ Top.node \in Nodes
      /\ Consumes(Top) = c /\ c \in Seq(Nodes) /\ Top.made \in Nat /\ Top.made <= Len(c)
      /\ Len(stack) \in Nat
  BY <1>1, PoppedFacts DEF TInv, MInv
<1>3. Top.made \in 1..Len(c) /\ Failed(raised) /\ raised = Meaning[c[Top.made]]
  BY <1>1, <1>2 DEF TInv, Raising
<1>4. \A k \in 1..Top.made - 1 : ~ Failed(Meaning[c[k]])
  BY <1>1, <1>2 DEF TInv, Consumption
<1>5. raised = Meaning[Top.node]
  <2> DEFINE last == [kind |-> Own[Top.node], node |-> Top.node]
  <2>1. Meaning[Top.node] = Evaluate(c, last)
    BY <1>2, GraphAssumption
  <2> HIDE DEF c, last
  <2> QED
    BY <1>2, <1>3, <1>4, <2>1, FirstFailure
<1> QED
  BY <1>1, <1>5

LEMMA FinishTInv == TInv /\ FinishCompute => TInv'
<1> SUFFICES ASSUME TInv, FinishCompute PROVE TInv'
  OBVIOUS
<1>1. PICK result \in Results : Len(stack) > 1 /\ Return(result) /\ result = Meaning[Top.node]
  BY FinishMeaning
<1>2. MInv'
  BY FinishMInv DEF TInv
<1> QED
  BY <1>1, <1>2, ReturnTInv

LEMMA UnwindTInv == TInv /\ Unwind => TInv'
<1> SUFFICES ASSUME TInv, Unwind PROVE TInv'
  OBVIOUS
<1>1. PICK result \in Results : Len(stack) > 1 /\ Return(result) /\ result = Meaning[Top.node]
  BY UnwindMeaning
<1>2. MInv'
  BY UnwindMInv DEF TInv
<1> QED
  BY <1>1, <1>2, ReturnTInv

LEMMA LeaveTInv == TInv /\ LeaveRoot => TInv'
<1> SUFFICES ASSUME TInv, LeaveRoot PROVE TInv'
  OBVIOUS
<1>1. root' = 0 /\ stack' = <<>> /\ raised' = None /\ Len(stack') = 0 /\ 1..0 = {}
      /\ \A n \in Nodes : memo'[n] # None => memo'[n] = memo[n]
  BY DEF LeaveRoot, ReleaseLeftovers
<1>2. (MemoMeaning /\ Consumption /\ Raising /\ Invalid)'
  BY <1>1 DEF TInv, MemoMeaning, Consumption, Raising, Invalid
<1> QED
  BY <1>2, LeaveMInv DEF TInv

LEMMA NextTInv == TInv /\ [Next]_vars => TInv'
<1> SUFFICES ASSUME TInv, [Next]_vars PROVE TInv'
  OBVIOUS
<1>0. MInv'
  BY NextMInv DEF TInv
<1>1. CASE PlanRoots
  BY <1>1, PlanTInv
<1>2. CASE EnterRoot
  BY <1>2, EnterTInv
<1>3. CASE ConsumeNext
  <2>1. Miss(Awaited) => Compute(Awaited, batch.memoEnabled /\ Remaining(Awaited) > 0)
    BY DEF Miss
  <2>2. Direct(Awaited) => Compute(Awaited, FALSE)
    BY DEF Direct
  <2>3. (batch.memoEnabled /\ Remaining(Awaited) > 0) \in BOOLEAN
    OBVIOUS
  <2> QED
    BY <1>0, <1>3, <2>1, <2>2, <2>3, HitTInv, ComputeTInv DEF ConsumeNext
<1>4. CASE FinishCompute
  BY <1>4, FinishTInv
<1>5. CASE Unwind
  BY <1>5, UnwindTInv
<1>6. CASE LeaveRoot
  BY <1>6, LeaveTInv
<1>7. CASE UNCHANGED vars
  BY <1>0, <1>7 DEF vars, TInv, MemoMeaning, Consumption, Raising, Invalid, Consumes, Top
<1> QED
  BY <1>1, <1>2, <1>3, <1>4, <1>5, <1>6, <1>7 DEF Next

-----------------------------------------------------------------------------
(* The bookkeeping invariant of the evaluation context holds for every     *)
(* batch and every prediction.                                             *)
THEOREM Invariance == Spec => []MInv
<1> QED
  BY InitMInv, NextMInv, PTL DEF Spec

(* Every variable keeps its type; the counts are never negative, though    *)
(* _consume and _release subtract from them.                               *)
THEOREM TypeCorrect == Spec => []TypeOK
<1>1. MInv => TypeOK
  BY DEF MInv
<1> QED
  BY <1>1, Invariance, PTL

(* A memo entry always has a consumer still to come (memoized, _release).  *)
THEOREM EntriesHaveConsumers == Spec => []NoEntryWithoutConsumer
<1>1. MInv => NoEntryWithoutConsumer
  BY DEF MInv
<1> QED
  BY <1>1, Invariance, PTL

(* What the memo serves, value or replayed failure, is what the node       *)
(* evaluates to without it (memoized, FailureRecord.replay).               *)
THEOREM MemoServesMeaning == Spec => []MemoMeaning
<1>1. TInv => MemoMeaning
  BY DEF TInv
<1> QED
  BY <1>1, InitTInv, NextTInv, PTL DEF Spec

-----------------------------------------------------------------------------
(* What a root ends with is what its variant evaluates to alone.           *)
LEMMA EndsAsAlone ==
    ASSUME TInv, LeaveRoot
    PROVE  /\ root = Len(outcomes) + 1 /\ root \in Roots
           /\ Alone(batch.variants[root]) = IF raised = None THEN Done ELSE raised
<1> DEFINE v == batch.variants[root]
<1>1. Len(stack) = 1 /\ Len(<<>>) = 0 /\ (raised = None => ~ Waiting)
  BY DEF LeaveRoot
<1>2. root # 0 /\ root \in Roots /\ root = Len(outcomes) + 1
  <2>1. stack # <<>>
    BY <1>1
  <2> QED
    BY <2>1 DEF TInv, MInv, StackShape
<1>3. Top = stack[1] /\ Top \in Frames /\ 1 \in 1..Len(stack)
  <2>1. stack \in Seq(Frames) /\ Len(stack) = 1
    BY <1>1 DEF TInv, MInv, TypeOK
  <2>2. stack[1] \in Frames
    BY <2>1
  <2> QED
    BY <2>1, <2>2 DEF Top
<1>4. Top.node = None /\ Top.made \in Nat /\ Consumes(Top) = v.nodes /\ v.nodes \in Seq(Nodes)
      /\ Top.made <= Len(v.nodes)
  <2>1. Top.node = None /\ Top.made <= Len(Consumes(Top))
    BY <1>3 DEF TInv, MInv, StackShape
  <2> QED
    BY <1>2, <1>3, <2>1, BatchFacts DEF Consumes, Frames, TInv, MInv, TypeOK
<1>5. /\ \A k \in 1..Top.made - 1 : ~ Failed(Meaning[v.nodes[k]])
      /\ raised = None /\ Top.made > 0 => ~ Failed(Meaning[v.nodes[Top.made]])
  BY <1>1, <1>3, <1>4 DEF TInv, Consumption
<1> HIDE DEF v
<1>6. CASE ~ v.valid
  <2>1. raised = Rejected /\ Rejected # None
    BY <1>2, <1>6, GraphAssumption DEF TInv, Invalid, v, Rejected, Results, Kinds
  <2> QED
    BY <1>2, <1>6, <2>1 DEF Alone, v
<1>7. CASE v.valid /\ raised = None
  <2>1. Top.made = Len(v.nodes)
    BY <1>1, <1>4, <1>7 DEF Waiting
  <2>2. \A k \in 1..Len(v.nodes) : k \in 1..Top.made - 1 \/ (k = Top.made /\ Top.made > 0)
    BY <1>4, <2>1
  <2>3. \A k \in 1..Len(v.nodes) : ~ Failed(Meaning[v.nodes[k]])
    BY <1>5, <1>7, <2>2
  <2>4. Evaluate(v.nodes, Done) = Done
    BY <1>4, <2>3, NoFailure
  <2> QED
    BY <1>2, <1>7, <2>4 DEF Alone, v
<1>8. CASE v.valid /\ raised # None
  <2>1. Failed(raised) /\ Top.made > 0 /\ raised = Meaning[v.nodes[Top.made]]
    BY <1>4, <1>8 DEF TInv, Raising, v
  <2>2. Top.made \in 1..Len(v.nodes)
    BY <1>4, <2>1
  <2>3. Evaluate(v.nodes, Done) = raised
    BY <1>4, <1>5, <2>1, <2>2, FirstFailure
  <2> QED
    BY <1>2, <1>8, <2>3 DEF Alone, v
<1> QED
  BY <1>6, <1>7, <1>8

(* Every step of the batch is a step, or a stutter, of the stream of       *)
(* variants evaluated alone: the end of a root is the step that streams.   *)
LEMMA StepStreams == TInv /\ [Next]_vars => [Reference!Stream]_(Reference!vars)
<1> SUFFICES ASSUME TInv, [Next]_vars PROVE [Reference!Stream]_(Reference!vars)
  OBVIOUS
<1>1. CASE LeaveRoot
  <2> DEFINE a == Alone(batch.variants[root])
  <2>1. /\ root = Len(outcomes) + 1 /\ root \in DOMAIN batch.variants
        /\ a = IF raised = None THEN Done ELSE raised
    BY <1>1, EndsAsAlone DEF Roots
  <2>2. ~ broken
    BY <2>1, BatchFacts, <1>1 DEF TInv, MInv, StackShape, TypeOK
  <2>3. IF a.kind = "other"
        THEN broken' = TRUE /\ UNCHANGED outcomes
        ELSE outcomes' = Append(outcomes, a) /\ UNCHANGED broken
    BY <1>1, <2>1 DEF LeaveRoot, Done
  <2>4. batch.variants' = batch.variants
    BY <1>1 DEF LeaveRoot
  <2> HIDE DEF a
  <2> QED
    BY <2>1, <2>2, <2>3, <2>4 DEF Reference!Stream, a
<1>2. CASE ~ LeaveRoot
  <2>1. UNCHANGED <<batch, outcomes, broken>>
    BY <1>2 DEF Next, PlanRoots, EnterRoot, ConsumeNext, Hit, Miss, Direct, Compute,
                FinishCompute, Unwind, Return, vars
  <2> QED
    BY <2>1 DEF Reference!vars
<1> QED
  BY <1>1, <1>2

(* With or without the memo, and however wrong the predictions are, what   *)
(* is streamed is what the variants come to when each is evaluated alone,  *)
(* in order: the safety part of StreamsAsAlone (evaluate_range_batch.py).  *)
THEOREM MemoIsTransparent == Spec => Reference!Init /\ [][Reference!Stream]_(Reference!vars)
<1>1. Init => Reference!Init
  BY DEF Init, Reference!Init
<1> QED
  BY <1>1, InitTInv, NextTInv, StepStreams, PTL DEF Spec
-----------------------------------------------------------------------------
(* The books of the batch, and what they say of the computations.          *)

(* A root that has ended expects nothing any more.                         *)
EndedReleased ==
    pending # <<>> =>
        \A r \in Roots : r <= Len(outcomes) => \A n \in Nodes : pending[r][n] = 0

NotStarted ==
    pending = <<>> => outcomes = <<>> /\ \A n \in Nodes : computes[n] = 0

CInv == MInv /\ CountsAgree /\ EndedReleased /\ NotStarted

(* A node is being computed, and its result will be kept.                  *)
Computing(n) == \E i \in 2..Len(stack) : stack[i].node = n /\ stack[i].retain

(* A failure of the node can be replayed.                                  *)
Replayable(n) == Failed(Meaning[n]) => Meaning[n].node \in Capturable

(* What was computed is at hand, or will be, or nobody expects it.         *)
Kept(n) == computes[n] = 1 /\ (refcount[n] = 0 \/ memo[n] # None \/ Computing(n))

AtHand ==
    batch.memoEnabled /\ unforeseen = 0 =>
        \A n \in Nodes : Replayable(n) /\ computes[n] > 0 => Kept(n)

KInv == TInv /\ CInv /\ AtHand
LEMMA RootsFinite ==
    ASSUME batch \in Batches
    PROVE  IsFiniteSet(Roots)
<1>1. Roots = 1..Len(batch.variants) /\ Len(batch.variants) \in Nat
  BY BatchFacts
<1> QED
  BY <1>1, FS_Interval

(* What a predicted consumption takes, every root together had.            *)
LEMMA PredictedCounts ==
    ASSUME CInv, root \in Roots, pending # <<>>, NEW n \in Nodes
    PROVE  pending[root][n] \in Nat /\ refcount[n] \in Nat /\ pending[root][n] <= refcount[n]
<1>1. pending \in [Roots -> [Nodes -> Nat]] /\ refcount \in [Nodes -> Nat] /\ IsFiniteSet(Roots)
  BY RootsFinite DEF CInv, MInv, TypeOK
<1>2. refcount[n] = SumOver(pending, n)
  BY DEF CInv, CountsAgree
<1> QED
  BY <1>1, <1>2, SumAtLeast

(* The counts after a root's expectations changed.                         *)
LEMMA CountsChange ==
    ASSUME CInv, root \in Roots, root = Len(outcomes) + 1, pending # <<>>, batch' = batch,
           pending' \in [Roots -> [Nodes -> Nat]], pending' # <<>>,
           \A r \in Roots \ {root} : pending'[r] = pending[r],
           \A n \in Nodes : refcount'[n] = refcount[n] - pending[root][n] + pending'[root][n]
    PROVE  /\ CountsAgree' /\ NotStarted'
           /\ outcomes' = outcomes => EndedReleased'
<1>1. pending \in [Roots -> [Nodes -> Nat]] /\ IsFiniteSet(Roots) /\ Roots' = Roots
  BY RootsFinite DEF CInv, MInv, TypeOK, Roots
<1>2. CountsAgree'
  <2> SUFFICES ASSUME NEW n \in Nodes PROVE refcount'[n] = SumOver(pending', n)
    BY DEF CountsAgree
  <2>1. refcount[n] = SumOver(pending, n)
    BY DEF CInv, CountsAgree
  <2>2. \A q \in Roots \ {root} : pending'[q][n] = pending[q][n]
    OBVIOUS
  <2>3. SumOver(pending', n) = SumOver(pending, n) - pending[root][n] + pending'[root][n]
    <3> DEFINE c == pending
               d == pending'
    <3>1. /\ c \in [Roots -> [Nodes -> Nat]] /\ d \in [Roots -> [Nodes -> Nat]]
          /\ SameElsewhere(c, d, n, Roots, root)
      BY <1>1, <2>2 DEF SameElsewhere
    <3> HIDE DEF c, d
    <3>2. Moved(c, d, n, root)
      BY <1>1, <3>1, SumMoved, Zenon
    <3> QED
      BY <3>2 DEF c, d, Moved
  <2> QED
    BY <2>1, <2>3
<1>3. outcomes' = outcomes => EndedReleased'
  <2> SUFFICES ASSUME outcomes' = outcomes,
                      NEW r \in Roots, r <= Len(outcomes), NEW n \in Nodes
               PROVE  pending'[r][n] = 0
    BY <1>1 DEF EndedReleased
  <2>1. Len(outcomes) \in Nat
    BY DEF CInv, MInv, TypeOK
  <2>2. r # root
    BY <2>1
  <2> QED
    BY <2>2 DEF CInv, EndedReleased
<1> QED
  BY <1>2, <1>3 DEF NotStarted

LEMMA ConsumeCounts ==
    ASSUME CInv, root # 0, NEW n \in Nodes, Consume(n), UNCHANGED <<batch, outcomes>>
    PROVE  /\ CountsAgree' /\ NotStarted' /\ EndedReleased'
           /\ Predicted(n) => refcount[n] > 0
<1>1. root \in Roots /\ root = Len(outcomes) + 1 /\ pending # <<>> /\ TypeOK
  BY DEF CInv, MInv, StackShape
<1>2. pending' \in [Roots -> [Nodes -> Nat]] /\ pending' # <<>>
  BY <1>1, ConsumeFacts
<1>3. pending \in [Roots -> [Nodes -> Nat]] /\ refcount \in [Nodes -> Nat]
  BY <1>1 DEF TypeOK
<1>4. pending[root][n] <= refcount[n] /\ pending[root][n] \in Nat /\ refcount[n] \in Nat
  BY <1>1, PredictedCounts
<1>5. \A r \in Roots \ {root} : pending'[r] = pending[r]
  BY <1>3 DEF Consume
<1>6. \A m \in Nodes : refcount'[m] = refcount[m] - pending[root][m] + pending'[root][m]
  <2> TAKE m \in Nodes
  <2>1. refcount[m] \in Nat /\ pending[root][m] \in Nat
    BY <1>1, <1>3
  <2>2. CASE Predicted(n)
    <3>1. Remaining(n) = refcount[n] - 1
      BY <1>4, <2>2 DEF Predicted, Remaining
    <3>2. refcount'[m] = IF m = n THEN refcount[n] - 1 ELSE refcount[m]
      BY <1>3, <2>2, <3>1 DEF Consume
    <3>3. pending'[root][m] = IF m = n THEN pending[root][n] - 1 ELSE pending[root][m]
      BY <1>1, <1>3, <2>2 DEF Consume
    <3> QED
      BY <2>1, <3>2, <3>3
  <2>3. CASE ~ Predicted(n)
    BY <2>1, <2>3 DEF Consume
  <2> QED
    BY <2>2, <2>3
<1>7. Predicted(n) => refcount[n] > 0
  BY <1>4 DEF Predicted
<1> QED
  BY <1>1, <1>2, <1>5, <1>6, <1>7, CountsChange

LEMMA LeaveCounts ==
    ASSUME CInv, LeaveRoot
    PROVE  (CountsAgree /\ EndedReleased /\ NotStarted)'
<1>1. root # 0 /\ root \in Roots /\ root = Len(outcomes) + 1 /\ pending # <<>>
  <2>1. Len(stack) = 1 /\ Len(<<>>) = 0
    BY DEF LeaveRoot
  <2>2. stack # <<>>
    BY <2>1
  <2> QED
    BY <2>2 DEF CInv, MInv, StackShape
<1>2. pending \in [Roots -> [Nodes -> Nat]] /\ refcount \in [Nodes -> Nat]
      /\ outcomes \in Seq(Results)
  BY <1>1 DEF CInv, MInv, TypeOK
<1> DEFINE released(n) == pending[root][n] > 0 /\ refcount[n] <= pending[root][n]
<1>3. /\ refcount' = [n \in Nodes |-> IF released(n) THEN 0 ELSE refcount[n] - pending[root][n]]
      /\ pending' = [pending EXCEPT ![root] = [n \in Nodes |-> 0]]
      /\ batch' = batch
  BY DEF LeaveRoot, ReleaseLeftovers
<1>4. pending' \in [Roots -> [Nodes -> Nat]] /\ pending'[root] = [n \in Nodes |-> 0]
      /\ \A r \in Roots \ {root} : pending'[r] = pending[r]
  <2>1. [n \in Nodes |-> 0] \in [Nodes -> Nat]
    OBVIOUS
  <2> QED
    BY <1>1, <1>2, <1>3, <2>1
<1>5. pending' # <<>>
  <2>1. DOMAIN pending' = Roots /\ DOMAIN <<>> = {}
    BY <1>4
  <2> QED
    BY <1>1, <2>1
<1>6. \A n \in Nodes : refcount'[n] = refcount[n] - pending[root][n] + pending'[root][n]
  <2> TAKE n \in Nodes
  <2>1. pending[root][n] \in Nat /\ refcount[n] \in Nat /\ pending[root][n] <= refcount[n]
    BY <1>1, PredictedCounts
  <2>2. pending'[root][n] = 0
    BY <1>4
  <2> QED
    BY <1>3, <2>1, <2>2
<1>7. CountsAgree' /\ NotStarted' /\ (outcomes' = outcomes => EndedReleased')
  BY <1>1, <1>3, <1>4, <1>5, <1>6, CountsChange
<1>8. outcomes' # outcomes => EndedReleased'
  <2> SUFFICES ASSUME outcomes' # outcomes, NEW r \in Roots', r <= Len(outcomes'), NEW n \in Nodes
               PROVE  pending'[r][n] = 0
    BY DEF EndedReleased
  <2>1. Len(outcomes') = Len(outcomes) + 1 /\ Len(outcomes) \in Nat
    <3> DEFINE e == IF raised = None THEN Done ELSE raised
    <3>1. outcomes' = Append(outcomes, e)
      BY DEF LeaveRoot
    <3>2. outcomes \in Seq(Results \union {e})
      BY <1>2, SeqDef
    <3> HIDE DEF e
    <3> QED
      BY <3>1, <3>2
  <2>2. r \in Roots /\ r \in Nat
    BY <1>3, BatchFacts DEF Roots, CInv, MInv, TypeOK
  <2>3. CASE r = root
    BY <1>4, <2>3
  <2>4. CASE r # root
    <3>1. r <= Len(outcomes)
      BY <1>1, <2>1, <2>2, <2>4
    <3>2. pending'[r] = pending[r]
      BY <1>4, <2>2, <2>4
    <3> QED
      BY <1>1, <2>2, <3>1, <3>2 DEF CInv, EndedReleased
  <2> QED
    BY <2>3, <2>4
<1> QED
  BY <1>7, <1>8

LEMMA InitCInv == Init => CInv
<1> SUFFICES ASSUME Init PROVE CInv
  OBVIOUS
<1>1. CountsAgree /\ EndedReleased /\ NotStarted
  BY DEF Init, CountsAgree, EndedReleased, NotStarted
<1> QED
  BY <1>1, InitMInv DEF CInv

LEMMA NextCInv == CInv /\ [Next]_vars => CInv'
<1> SUFFICES ASSUME CInv, [Next]_vars PROVE (CountsAgree /\ EndedReleased /\ NotStarted)'
  BY NextMInv DEF CInv
<1>1. CASE PlanRoots
  <2>1. /\ pending' = batch.predicted
        /\ refcount' = [n \in Nodes |-> SumOver(batch.predicted, n)]
        /\ outcomes' = <<>> /\ batch' = batch
    BY <1>1 DEF PlanRoots, CInv, NotStarted
  <2>2. pending' # <<>>
    BY <2>1, BatchFacts DEF CInv, MInv, TypeOK
  <2>3. \A r \in Roots' : ~ (r <= Len(outcomes'))
    <3>1. Len(outcomes') = 0 /\ Roots' = Roots
      BY <2>1 DEF Roots
    <3>2. Roots = 1..Len(batch.variants)
      BY BatchFacts DEF CInv, MInv, TypeOK
    <3> QED
      BY <3>1, <3>2
  <2> QED
    BY <2>1, <2>2, <2>3 DEF CountsAgree, EndedReleased, NotStarted
<1>2. CASE ConsumeNext
  <2>1. root # 0 /\ Waiting /\ Awaited \in Nodes
    BY <1>2, AwaitedFacts DEF ConsumeNext, CInv, MInv
  <2>2. CASE Hit(Awaited) \/ Miss(Awaited)
    <3>1. Consume(Awaited) /\ UNCHANGED <<batch, outcomes>>
      BY <2>2 DEF Hit, Miss, Compute
    <3> QED
      BY <2>1, <3>1, ConsumeCounts
  <2>3. CASE Direct(Awaited)
    <3>1. UNCHANGED <<batch, outcomes, pending, refcount, computes>>
      BY <2>3 DEF Direct, Compute, stats
    <3> QED
      BY <3>1 DEF CInv, CountsAgree, EndedReleased, NotStarted, Roots
  <2> QED
    BY <1>2, <2>2, <2>3 DEF ConsumeNext
<1>3. CASE LeaveRoot
  BY <1>3, LeaveCounts
<1>4. CASE EnterRoot \/ FinishCompute \/ Unwind \/ UNCHANGED vars
  <2>1. UNCHANGED <<batch, outcomes, pending, refcount, computes>>
    BY <1>4 DEF EnterRoot, FinishCompute, Unwind, Return, stats, vars
  <2> QED
    BY <2>1 DEF CInv, CountsAgree, EndedReleased, NotStarted, Roots
<1> QED
  BY <1>1, <1>2, <1>3, <1>4 DEF Next

LEMMA BooksClose == CInv => CountsKept
<1> SUFFICES ASSUME CInv, Len(outcomes) = Len(batch.variants), NEW n \in Nodes
             PROVE  memo[n] = None /\ refcount[n] = 0
  BY DEF CInv, CountsKept, NothingLeft
<1>1. Roots = 1..Len(batch.variants) /\ Len(batch.variants) \in Nat \ {0}
  BY BatchFacts DEF CInv, MInv, TypeOK
<1>2. pending # <<>>
  <2>1. outcomes # <<>>
    BY <1>1
  <2> QED
    BY <2>1 DEF CInv, NotStarted
<1>3. \A r \in Roots : pending[r][n] = 0
  BY <1>1, <1>2 DEF CInv, EndedReleased
<1>4. pending \in [Roots -> [Nodes -> Nat]] /\ IsFiniteSet(Roots)
  BY <1>2, RootsFinite DEF CInv, MInv, TypeOK
<1>5. refcount[n] = 0
  BY <1>2, <1>3, <1>4, SumZero DEF CInv, CountsAgree
<1> QED
  BY <1>5 DEF CInv, MInv, NoEntryWithoutConsumer

(* The reference counts are at every moment the consumptions all roots     *)
(* still expect, and a finished batch leaves no count and no memo entry,   *)
(* however wrong the predictions were (_consume, root()'s finally).        *)
THEOREM CountsAreKept == Spec => []CountsKept
BY InitCInv, NextCInv, BooksClose, PTL DEF Spec

-----------------------------------------------------------------------------
(* How often a node is computed.                                           *)

LEMMA InitAtHand == Init => AtHand
BY DEF Init, AtHand

LEMMA PlanAtHand ==
    ASSUME KInv, PlanRoots
    PROVE  AtHand'
BY DEF KInv, CInv, NotStarted, PlanRoots, AtHand, Kept, stats

LEMMA EnterAtHand ==
    ASSUME KInv, EnterRoot
    PROVE  AtHand'
<1>1. stack = <<>> /\ Len(stack) = 0 /\ 2..0 = {}
  BY DEF EnterRoot, KInv, TInv, MInv, StackShape
<1>2. UNCHANGED <<batch, memo, refcount, computes, unforeseen>>
  BY DEF EnterRoot, stats
<1>3. \A n \in Nodes : ~ Computing(n)
  BY <1>1 DEF Computing
<1> QED
  BY <1>2, <1>3 DEF KInv, AtHand, Kept

LEMMA HitAtHand ==
    ASSUME KInv, root # 0, Waiting, Hit(Awaited)
    PROVE  AtHand'
<1> DEFINE n == Awaited
<1>1. n \in Nodes /\ root \in Roots /\ pending # <<>>
  BY AwaitedFacts DEF KInv, TInv, MInv
<1> HIDE DEF n
<1>2. /\ Consume(n) /\ stack' = Stepped
      /\ memo' = IF Remaining(n) = 0 THEN [memo EXCEPT ![n] = None] ELSE memo
      /\ UNCHANGED <<batch, computes>>
  BY DEF Hit, n
<1>3. /\ refcount'[n] = Remaining(n) /\ (refcount[n] = 0 => Remaining(n) = 0)
      /\ \A m \in Nodes \ {n} : refcount'[m] = refcount[m]
  BY <1>1, <1>2, ConsumeFacts DEF KInv, TInv, MInv, Remaining
<1>4. \A m \in Nodes : Computing(m) => Computing(m)'
  <2>1. Len(stack') = Len(stack) /\ Len(stack) \in Nat
        /\ \A i \in 1..Len(stack) : /\ stack'[i].node = stack[i].node
                                     /\ stack'[i].retain = stack[i].retain
    BY <1>2, SteppedFacts, AwaitedFacts DEF KInv, TInv, MInv
  <2> QED
    BY <2>1 DEF Computing
<1>5. unforeseen \in Nat /\ (unforeseen' = 0 => unforeseen = 0)
  BY <1>2 DEF KInv, TInv, MInv, TypeOK, Consume
<1>6. memo \in [Nodes -> Results \union {None}]
  BY DEF KInv, TInv, MInv, TypeOK
<1>7. ASSUME NEW m \in Nodes, Kept(m) PROVE Kept(m)'
  <2>1. CASE m = n
    <3>1. refcount[m] = 0 => refcount'[m] = 0
      BY <1>3, <2>1
    <3>2. memo[m] # None => refcount'[m] = 0 \/ memo'[m] # None
      BY <1>2, <1>3, <2>1
    <3>3. computes'[m] = computes[m] /\ (Computing(m) => Computing(m)')
      BY <1>2, <1>4
    <3> QED
      BY <1>7, <3>1, <3>2, <3>3, Zenon DEF Kept
  <2>2. CASE m # n
    <3>1. refcount'[m] = refcount[m] /\ memo'[m] = memo[m] /\ computes'[m] = computes[m]
      BY <1>2, <1>3, <1>6, <2>2
    <3> QED
      BY <1>4, <1>7, <3>1, Zenon DEF Kept
  <2> QED
    BY <2>1, <2>2
<1> QED
  BY <1>2, <1>5, <1>7 DEF KInv, AtHand, Replayable

(* A computation begins: the frames below it stay as they are.             *)
LEMMA PushedFacts ==
    ASSUME TypeOK, StackShape, root # 0, Waiting, NEW retain \in BOOLEAN,
           Compute(Awaited, retain)
    PROVE  /\ Len(stack) \in Nat \ {0} /\ Len(stack') = Len(stack) + 1
           /\ stack'[Len(stack) + 1].node = Awaited
           /\ stack'[Len(stack) + 1].retain = retain
           /\ \A m \in Nodes : Computing(m) => Computing(m)'
<1> DEFINE f == [node |-> Awaited, made |-> 0, retain |-> retain]
           L == Len(stack)
<1>1. L \in Nat \ {0} /\ Awaited \in Nodes
  BY AwaitedFacts
<1>2. stack' = Append(Stepped, f)
  BY DEF Compute
<1>3. /\ Stepped \in Seq(Frames) /\ Len(Stepped) = L
      /\ \A i \in 1..L :
            Stepped[i].node = stack[i].node /\ Stepped[i].retain = stack[i].retain
  BY SteppedFacts
<1>4. f \in Frames /\ f.node = Awaited /\ f.retain = retain
  BY <1>1 DEF Frames
<1> HIDE DEF f
<1>5. Len(stack') = L + 1 /\ stack'[L + 1] = f /\ \A i \in 1..L : stack'[i] = Stepped[i]
  BY <1>2, <1>3, <1>4, AppendProperties
<1>6. ASSUME NEW m \in Nodes, Computing(m) PROVE Computing(m)'
  <2>1. PICK i \in 2..L : stack[i].node = m /\ stack[i].retain
    BY <1>6 DEF Computing
  <2>2. i \in 1..L /\ i \in 2..Len(stack')
    BY <1>1, <1>5
  <2>3. stack'[i].node = m /\ stack'[i].retain
    BY <1>3, <1>5, <2>1, <2>2
  <2> QED
    BY <2>2, <2>3 DEF Computing
<1> QED
  BY <1>1, <1>4, <1>5, <1>6

LEMMA MissAtHand ==
    ASSUME KInv, root # 0, Waiting, Miss(Awaited)
    PROVE  AtHand'
<1>0. Awaited \in Nodes
  BY AwaitedFacts DEF KInv, TInv, MInv
<1> PICK n \in Nodes : n = Awaited
  BY <1>0
<1> DEFINE retain == batch.memoEnabled /\ Remaining(n) > 0
<1>1. root \in Roots /\ pending # <<>> /\ TypeOK /\ StackShape
      /\ \A j \in 2..Len(stack) : stack[j].node \in Nodes /\ n < stack[j].node
  BY AwaitedFacts DEF KInv, TInv, MInv
<1>2. /\ Consume(n) /\ memo[n] = None /\ computes' = [computes EXCEPT ![n] = @ + 1]
      /\ Compute(Awaited, retain) /\ UNCHANGED <<batch, memo, outcomes>>
  BY DEF Miss, Compute
<1>3. retain \in BOOLEAN
  BY BatchFacts, <1>1 DEF TypeOK
<1> HIDE DEF retain
<1>4. /\ Len(stack) \in Nat \ {0} /\ Len(stack') = Len(stack) + 1
      /\ stack'[Len(stack) + 1].node = n /\ stack'[Len(stack) + 1].retain = retain
      /\ \A m \in Nodes : Computing(m) => Computing(m)'
  BY <1>1, <1>2, <1>3, PushedFacts
<1>5. /\ refcount' \in [Nodes -> Nat] /\ refcount'[n] = Remaining(n)
      /\ \A m \in Nodes \ {n} : refcount'[m] = refcount[m]
  BY <1>1, <1>2, ConsumeFacts
<1>6. Predicted(n) => refcount[n] > 0
  BY <1>1, <1>2, ConsumeCounts DEF KInv
<1>7. unforeseen \in Nat /\ computes \in [Nodes -> Nat]
  BY <1>1 DEF TypeOK
<1> SUFFICES ASSUME batch.memoEnabled, unforeseen' = 0, NEW m \in Nodes,
                    Replayable(m), computes'[m] > 0
             PROVE  Kept(m)'
  BY <1>2 DEF AtHand, Replayable
<1>8. unforeseen = 0 /\ Predicted(n)
  BY <1>2, <1>7 DEF Consume
<1>9. CASE m = n
  <2>1. ~ Computing(n)
    <3>1. \A j \in 2..Len(stack) : stack[j].node # n
      BY <1>1, GraphAssumption
    <3> QED
      BY <3>1 DEF Computing
  <2>2. computes[n] = 0
    <3>1. ~ Kept(n)
      BY <1>2, <1>6, <1>8, <2>1 DEF Kept
    <3>2. ~ (computes[n] > 0)
      BY <1>1, <1>8, <1>9, <3>1 DEF KInv, AtHand
    <3>3. computes[n] \in Nat
      BY <1>1, <1>7
    <3> QED
      BY <3>2, <3>3
  <2>3. computes'[n] = 1
    BY <1>1, <1>2, <1>7, <2>2
  <2>4. refcount'[n] = 0 \/ Computing(n)'
    <3>1. CASE Remaining(n) > 0
      <4>1. retain /\ Len(stack) + 1 \in 2..Len(stack')
        BY <1>4, <3>1 DEF retain
      <4> QED
        BY <1>4, <4>1 DEF Computing
    <3>2. CASE ~ (Remaining(n) > 0)
      <4>1. refcount'[n] \in Nat /\ refcount'[n] = Remaining(n)
        BY <1>1, <1>5
      <4> QED
        BY <3>2, <4>1
    <3> QED
      BY <3>1, <3>2
  <2> QED
    BY <1>9, <2>3, <2>4 DEF Kept
<1>10. CASE m # n
  <2>1. computes'[m] = computes[m]
    BY <1>2, <1>7, <1>10
  <2>2. Kept(m)
    BY <1>8, <2>1 DEF KInv, AtHand
  <2> QED
    <3>1. refcount'[m] = refcount[m] /\ memo'[m] = memo[m] /\ (Computing(m) => Computing(m)')
      BY <1>2, <1>4, <1>5, <1>10
    <3> QED
      BY <2>1, <2>2, <3>1, Zenon DEF Kept
<1> QED
  BY <1>9, <1>10

LEMMA DirectAtHand ==
    ASSUME KInv, root # 0, Waiting, Direct(Awaited)
    PROVE  AtHand'
<1>1. Compute(Awaited, FALSE)
      /\ UNCHANGED <<batch, memo, refcount, computes, unforeseen>>
  BY DEF Direct, Compute, stats
<1>2. \A m \in Nodes : Computing(m) => Computing(m)'
  <2>1. FALSE \in BOOLEAN
    OBVIOUS
  <2> QED
    BY <1>1, <2>1, PushedFacts DEF KInv, TInv, MInv
<1> QED
  BY <1>1, <1>2 DEF KInv, AtHand, Kept, Replayable

LEMMA ReturnAtHand ==
    ASSUME KInv, Len(stack) > 1, NEW result \in Results, Return(result),
           result = Meaning[Top.node]
    PROVE  AtHand'
<1> DEFINE L == Len(stack)
<1>1. L \in Nat /\ L \in 2..L /\ Top = stack[L] /\ Top.node \in Nodes
  BY PoppedFacts DEF KInv, TInv, MInv
<1>2. /\ memo' = IF Top.retain /\ (Failed(result) => result.node \in Capturable)
                 THEN [memo EXCEPT ![Top.node] = result] ELSE memo
      /\ stack' = SubSeq(stack, 1, L - 1)
      /\ UNCHANGED <<batch, refcount, computes, unforeseen>>
  BY DEF Return, stats
<1>3. Len(stack') = L - 1 /\ \A i \in 1..L-1 : stack'[i] = stack[i]
  BY <1>1, <1>2 DEF KInv, TInv, MInv, TypeOK
<1>4. memo \in [Nodes -> Results \union {None}] /\ result # None
  BY GraphAssumption DEF KInv, TInv, MInv, TypeOK
<1>5. \A m \in Nodes : memo[m] # None => memo'[m] # None
  BY <1>1, <1>2, <1>4
<1>6. ASSUME NEW m \in Nodes, Replayable(m), Computing(m) PROVE memo'[m] # None \/ Computing(m)'
  <2>1. PICK i \in 2..L : stack[i].node = m /\ stack[i].retain
    BY <1>6 DEF Computing
  <2>2. CASE i = L
    <3>1. Top.node = m /\ Top.retain
      BY <1>1, <2>1, <2>2
    <3>2. Failed(result) => result.node \in Capturable
      BY <1>6, <3>1 DEF Replayable
    <3> QED
      BY <1>2, <1>4, <3>1, <3>2
  <2>3. CASE i # L
    <3>1. i \in 1..L-1 /\ i \in 2..Len(stack')
      BY <1>1, <1>3, <2>3
    <3> QED
      BY <1>3, <2>1, <3>1 DEF Computing
  <2> QED
    BY <2>2, <2>3
<1> QED
  BY <1>2, <1>5, <1>6 DEF KInv, AtHand, Kept, Replayable

LEMMA LeaveAtHand ==
    ASSUME KInv, LeaveRoot
    PROVE  AtHand'
<1>1. Len(stack) = 1 /\ Len(<<>>) = 0 /\ 2..1 = {}
  BY DEF LeaveRoot
<1>2. root # 0 /\ root \in Roots /\ pending # <<>>
  <2>1. stack # <<>>
    BY <1>1
  <2> QED
    BY <2>1 DEF KInv, TInv, MInv, StackShape
<1> DEFINE released(n) == pending[root][n] > 0 /\ refcount[n] <= pending[root][n]
<1>3. /\ refcount' = [n \in Nodes |-> IF released(n) THEN 0 ELSE refcount[n] - pending[root][n]]
      /\ memo' = [n \in Nodes |-> IF released(n) THEN None ELSE memo[n]]
      /\ UNCHANGED <<batch, computes, unforeseen>>
  BY DEF LeaveRoot, ReleaseLeftovers, stats
<1>4. ASSUME NEW m \in Nodes, Kept(m) PROVE Kept(m)'
  <2>1. ~ Computing(m)
    BY <1>1 DEF Computing
  <2>2. pending[root][m] \in Nat /\ refcount[m] \in Nat /\ pending[root][m] <= refcount[m]
    BY <1>2, PredictedCounts DEF KInv
  <2>3. refcount[m] = 0 => refcount'[m] = 0
    BY <1>3, <2>2
  <2>4. memo[m] # None => memo'[m] # None \/ refcount'[m] = 0
    BY <1>3
  <2> QED
    BY <1>3, <1>4, <2>1, <2>3, <2>4 DEF Kept
<1> QED
  BY <1>3, <1>4 DEF KInv, AtHand, Replayable

LEMMA NextKInv == KInv /\ [Next]_vars => KInv'
<1> SUFFICES ASSUME KInv, [Next]_vars PROVE AtHand'
  BY NextTInv, NextCInv DEF KInv
<1>1. CASE PlanRoots
  BY <1>1, PlanAtHand
<1>2. CASE EnterRoot
  BY <1>2, EnterAtHand
<1>3. CASE ConsumeNext
  BY <1>3, HitAtHand, MissAtHand, DirectAtHand DEF ConsumeNext
<1>4. CASE FinishCompute
  BY <1>4, FinishMeaning, ReturnAtHand DEF KInv
<1>5. CASE Unwind
  BY <1>5, UnwindMeaning, ReturnAtHand DEF KInv
<1>6. CASE LeaveRoot
  BY <1>6, LeaveAtHand
<1>7. CASE UNCHANGED vars
  BY <1>7 DEF KInv, AtHand, Kept, Computing, Replayable, vars, stats
<1> QED
  BY <1>1, <1>2, <1>3, <1>4, <1>5, <1>6, <1>7 DEF Next

(* As long as the pre-pass has foreseen every consumption, no identity is  *)
(* computed twice: a result is at hand, or being computed, for as long as  *)
(* a consumer is expected (compute_through, EvaluationStats).              *)
THEOREM EachIsComputedOnce == Spec => []ComputedOnce
<1>1. Init => KInv
  BY InitTInv, InitCInv, InitAtHand DEF KInv
<1>2. KInv => ComputedOnce
  <2> SUFFICES ASSUME KInv, batch.memoEnabled, unforeseen = 0, NEW n \in Nodes, Replayable(n)
               PROVE  computes[n] <= 1
    BY DEF ComputedOnce, Replayable
  <2>1. computes[n] \in Nat
    BY DEF KInv, TInv, MInv, TypeOK
  <2>2. computes[n] > 0 => computes[n] = 1
    BY DEF KInv, AtHand, Kept
  <2> QED
    BY <2>1, <2>2
<1> QED
  BY <1>1, <1>2, NextKInv, PTL DEF Spec
=============================================================================
