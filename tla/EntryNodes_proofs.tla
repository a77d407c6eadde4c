---------------------------- MODULE EntryNodes_proofs ---------------------------
(* The identity of the memoized columns, for every set of specifications and   *)
(* every history of bars: the evaluation asks for the nodes that the pre-pass  *)
(* predicts, as often, ConsumedAsPredicted; and a node stands for one column,  *)
(* SameNodeSameColumn.                                                         *)
EXTENDS EntryHistory_proofs

--------------------------------------------------------------------------------
(* Lists, and how often something stands in them. *)

\* How often an element stands in a list.
Times(s, x) == Cardinality({i \in DOMAIN s : s[i] = x})

LEMMA ListsAre ==
  ASSUME NEW S, NEW s \in Seq(S)
  PROVE  Listed(s) /\ ToSet(s) \subseteq S /\ DOMAIN s = 1..Len(s) /\ Len(s) \in Nat
<1>1. PICK N : N = Len(s)
  OBVIOUS
<1>2. N \in Nat /\ DOMAIN s = 1..N /\ \A i \in 1..N : s[i] \in S
  BY <1>1
<1>3. PICK T : T = ToSet(s)
  OBVIOUS
<1>4. \A i \in 1..N : s[i] \in T
  BY <1>2, <1>3 DEF ToSet
<1>5. T \subseteq S
  BY <1>2, <1>3 DEF ToSet
<1>6. s \in Seq(T)
  <2>1. s \in [1..N -> T]
    BY <1>2, <1>4
  <2> QED
    BY <1>2, <2>1
<1> QED
  BY <1>1, <1>2, <1>3, <1>5, <1>6 DEF Listed

LEMMA ListedFunction ==
  ASSUME NEW n \in Nat, NEW f, f = [i \in 1..n |-> f[i]]
  PROVE  Listed(f) /\ DOMAIN f = 1..n /\ Len(f) = n
<1>1. PICK T : T = ToSet(f)
  OBVIOUS
<1>2. DOMAIN f = 1..n
  OBVIOUS
<1>3. \A i \in 1..n : f[i] \in T
  BY <1>1, <1>2 DEF ToSet
<1>4. f \in [1..n -> T]
  BY <1>3
<1>5. f \in Seq(T) /\ Len(f) = n
  BY <1>4
<1> QED
  BY <1>1, <1>2, <1>5 DEF Listed

LEMMA TimesIs ==
  ASSUME NEW s, Listed(s), NEW x
  PROVE  Times(s, x) \in Nat /\ IsFiniteSet(ToSet(s)) /\ DOMAIN s = 1..Len(s) /\ Len(s) \in Nat
<1>1. PICK N, T : N = Len(s) /\ T = ToSet(s)
  OBVIOUS
<1>2. DOMAIN s = 1..N /\ N \in Nat
  BY <1>1 DEF Listed
<1>3. IsFiniteSet(1..N)
  BY <1>2, FS_Interval
<1>4. {i \in 1..N : s[i] = x} \subseteq 1..N
  OBVIOUS
<1>5. IsFiniteSet({i \in 1..N : s[i] = x})
  BY <1>3, <1>4, FS_Subset
<1>6. IsFiniteSet({s[i] : i \in 1..N})
  BY <1>3, FiniteValues
<1> QED
  BY <1>1, <1>2, <1>5, <1>6, FS_CardinalityType DEF Times, ToSet

\* Two lists one after the other.
LEMMA TimesJoined ==
  ASSUME NEW a, NEW b, Listed(a), Listed(b)
  PROVE  /\ Listed(a \o b)
         /\ \A x : Times(a \o b, x) = Times(a, x) + Times(b, x)
         /\ \A x : x \in ToSet(a \o b) <=> x \in ToSet(a) \/ x \in ToSet(b)
<1>1. PICK S : S = ToSet(a) \union ToSet(b)
  OBVIOUS
<1>2. a \in Seq(S) /\ b \in Seq(S)
  <2>1. PICK A, B : A = ToSet(a) /\ B = ToSet(b)
    OBVIOUS
  <2>2. a \in Seq(A) /\ b \in Seq(B) /\ A \subseteq S /\ B \subseteq S
    BY <1>1, <2>1 DEF Listed
  <2> QED
    BY <2>2
<1>3. PICK A, B, c : A = Len(a) /\ B = Len(b) /\ c = a \o b
  OBVIOUS
<1>4. /\ c \in Seq(S) /\ A \in Nat /\ B \in Nat
      /\ DOMAIN a = 1..A /\ DOMAIN b = 1..B /\ DOMAIN c = 1..A + B
      /\ (\A n \in 1..A : c[n] = a[n]) /\ (\A n \in 1..B : c[A + n] = b[n])
      /\ (\A x : x \in ToSet(c) <=> x \in ToSet(a) \/ x \in ToSet(b))
  <2>1. Len(a) \in Nat /\ Len(b) \in Nat
    BY <1>2
  <2> QED
    BY <1>2, <1>3, <2>1, Joined
<1>5. Listed(c)
  BY <1>4, ListsAre
<1>6. ASSUME NEW x PROVE Times(c, x) = Times(a, x) + Times(b, x)
  <2> DEFINE P == {i \in 1..A : a[i] = x}
             Q == {i \in 1..B : b[i] = x}
             R == {i \in 1..A + B : c[i] = x}
             shift == [i \in Q |-> A + i]
             T == {A + i : i \in Q}
  <2>1. R = P \union T /\ P \cap T = {}
    <3>1. \A i \in R : i \in P \/ i \in T
      <4> SUFFICES ASSUME NEW i \in R, i \notin P PROVE i \in T
        OBVIOUS
      <4>1. i \in 1..A + B /\ c[i] = x
        OBVIOUS
      <4>2. i \notin 1..A
        BY <1>4, <4>1
      <4>3. i - A \in 1..B /\ A + (i - A) = i
        BY <1>4, <4>1, <4>2
      <4>4. i - A \in Q
        BY <1>4, <4>1, <4>3
      <4> QED
        BY <4>3, <4>4
    <3>2. \A i \in P : i \in R
      BY <1>4
    <3>3. \A i \in Q : A + i \in R /\ A + i \notin 1..A
      BY <1>4
    <3> QED
      BY <3>1, <3>2, <3>3
  <2>2. IsFiniteSet(P) /\ IsFiniteSet(Q)
    <3>1. P \subseteq 1..A /\ Q \subseteq 1..B
      OBVIOUS
    <3> HIDE DEF P, Q
    <3>2. IsFiniteSet(1..A) /\ IsFiniteSet(1..B)
      BY <1>4, FS_Interval
    <3> QED
      BY <3>1, <3>2, FS_Subset
  <2>3. Cardinality(T) = Cardinality(Q) /\ IsFiniteSet(T)
    <3>1. shift \in Bijection(Q, T)
      <4>1. shift \in Surjection(Q, T)
        BY DEF Surjection
      <4>2. \A i, j \in Q : shift[i] = shift[j] => i = j
        BY <1>4
      <4> HIDE DEF shift, Q, T
      <4> QED
        BY <4>1, <4>2 DEF Bijection, Injection, Surjection, IsInjective
    <3> HIDE DEF shift, Q, T
    <3> QED
      BY <2>2, <3>1, FS_Bijection DEF ExistsBijection
  <2> HIDE DEF P, Q, R, T
  <2>4. Cardinality(R) = Cardinality(P) + Cardinality(Q)
    <3>1. Cardinality(P \union T) = Cardinality(P) + Cardinality(T) - Cardinality(P \cap T)
      BY <2>2, <2>3, FS_Union
    <3>2. Cardinality(P \cap T) = 0 /\ Cardinality(P) \in Nat /\ Cardinality(T) \in Nat
      BY <2>1, <2>2, <2>3, FS_EmptySet, FS_CardinalityType
    <3> QED
      BY <2>1, <2>3, <3>1, <3>2
  <2> QED
    BY <1>4, <2>4 DEF P, Q, R, Times
<1> QED
  BY <1>3, <1>4, <1>5, <1>6

\* What FlattenSeq does, step by step: the recursion of its definition.
Flat(ss, f) == f = [i \in 1..Len(ss) |-> IF i = 1 THEN ss[i] ELSE f[i-1] \o ss[i]]

\* f joins the first lists of ss, one more with every number.
Joining(ss, f, N) == /\ FlattenSeq(ss) = f[N] /\ f[0] = <<>>
                     /\ \A i \in 0..N-1 : f[i + 1] = f[i] \o ss[i + 1]

LEMMA FlattenSteps ==
  ASSUME NEW V, <<>> \in V, \A p, q \in V : p \o q \in V /\ <<>> \o q = q,
         NEW ss \in Seq(V), NEW N, N = Len(ss)
  PROVE  \E f : Joining(ss, f, N) /\ \A i \in 0..N : f[i] \in V
<1> DEFINE step == [i \in 1..N |-> [q \in V |-> q \o ss[i]]]
<1>1. N \in Nat /\ (\A i \in 1..N : ss[i] \in V) /\ <<>> \in V /\ \A q \in V : <<>> \o q = q
  OBVIOUS
<1>2. step \in [1..N -> [V -> V]]
  BY <1>1
<1>3. \A i \in 1..N, q \in V : step[i][q] = q \o ss[i]
  OBVIOUS
<1> HIDE DEF step
<1>4. PICK f \in [0..N -> V] : f[0] = <<>> /\ \A i \in 1..N : f[i] = step[i][f[i-1]]
  <2>1. PICK e : e = <<>>
    OBVIOUS
  <2>2. N \in Nat /\ e \in V /\ step \in [1..N -> [V -> V]]
    BY <1>1, <1>2, <2>1
  <2>3. \E f \in [0..N -> V] : f[0] = e /\ \A i \in 1..N : f[i] = step[i][f[i-1]]
    BY ONLY <2>2, Recursion
  <2> QED
    BY <2>1, <2>3
<1>5. ASSUME NEW i \in 1..N PROVE f[i-1] \in V /\ f[i] \in V /\ f[i] = f[i-1] \o ss[i]
  <2>1. f[i-1] \in V /\ f[i] \in V
    BY <1>1
  <2> QED
    BY <1>3, <1>4, <2>1
<1>6. ASSUME NEW i \in 0..N-1 PROVE f[i + 1] = f[i] \o ss[i + 1]
  <2>1. i + 1 \in 1..N /\ i + 1 - 1 = i
    BY <1>1
  <2>2. f[i + 1] = f[i + 1 - 1] \o ss[i + 1]
    BY <1>5, <2>1
  <2> QED
    BY <2>1, <2>2
<1>7. FlattenSeq(ss) = f[N]
  <2>1. CASE N = 0
    <3>1. ss = <<>>
      <4>1. ss \in Seq(V) /\ Len(ss) = 0
        BY <2>1
      <4> QED
        BY ONLY <4>1
    <3>2. FlattenSeq(ss) = ss
      BY <2>1, Zenon DEF FlattenSeq
    <3> QED
      BY <1>4, <2>1, <3>1, <3>2
  <2>2. CASE N # 0
    <3>0. 1 \in 1..N /\ N \in 1..N
      BY <1>1, <2>2
    <3>1. f[1] = ss[1]
      <4>1. f[1] = f[1-1] \o ss[1] /\ 1 - 1 = 0
        BY <1>5, <3>0
      <4>2. <<>> \o ss[1] = ss[1]
        BY <1>1, <3>0
      <4> QED
        BY <1>4, <4>1, <4>2
    <3>2. PICK g : g = [i \in 1..N |-> f[i]]
      OBVIOUS
    <3>3. ASSUME NEW i \in 1..N PROVE g[i] = IF i = 1 THEN ss[i] ELSE g[i-1] \o ss[i]
      <4>1. CASE i = 1
        BY <3>1, <3>2, <4>1
      <4>2. CASE i # 1
        <5>1. i - 1 \in 1..N
          BY <1>1, <4>2
        <5>2. g[i] = f[i] /\ g[i-1] = f[i-1]
          BY <3>2, <5>1
        <5>3. f[i] = f[i-1] \o ss[i]
          BY <1>5
        <5> QED
          BY <4>2, <5>2, <5>3
      <4> QED
        BY <4>1, <4>2
    <3>4. Flat(ss, g)
      <4>1. g = [i \in 1..N |-> g[i]]
        BY <3>2
      <4>2. g = [i \in 1..N |-> IF i = 1 THEN ss[i] ELSE g[i-1] \o ss[i]]
        BY <3>3, <4>1
      <4> QED
        BY <4>2 DEF Flat
    <3>5. PICK h : h = CHOOSE g_1 : Flat(ss, g_1)
      OBVIOUS
    <3>6. Flat(ss, h)
      BY <3>4, <3>5
    <3>7. FlattenSeq(ss) = h[N]
      BY <2>2, <3>5, Zenon DEF FlattenSeq, Flat
    <3>8. h = [i \in 1..N |-> IF i = 1 THEN ss[i] ELSE h[i-1] \o ss[i]]
      BY <3>6 DEF Flat
    <3> DEFINE T == {i \in 0..N : i = 0 \/ h[i] = f[i]}
    <3>9. ASSUME NEW k \in 0..N-1, k \in T PROVE k + 1 \in T
      <4>1. k + 1 \in 1..N /\ k + 1 \in 0..N /\ k + 1 - 1 = k
        BY <1>1
      <4>2. CASE k = 0
        <5>1. h[1] = ss[1]
          BY <3>0, <3>8
        <5> QED
          BY <3>1, <4>1, <4>2, <5>1
      <4>3. CASE k # 0
        <5>1. h[k + 1] = IF k + 1 = 1 THEN ss[k + 1] ELSE h[k + 1 - 1] \o ss[k + 1]
          BY <3>8, <4>1
        <5>2. k + 1 # 1
          BY <4>3
        <5>3. h[k + 1] = h[k] \o ss[k + 1]
          BY <4>1, <5>1, <5>2
        <5>4. h[k] = f[k]
          BY <3>9, <4>3
        <5>5. h[k + 1] = f[k + 1]
          BY <1>6, <5>3, <5>4
        <5> QED
          BY <4>1, <5>5
      <4> QED
        BY <4>2, <4>3
    <3>10. 0 \in T
      BY <1>1
    <3> HIDE DEF T
    <3>11. N \in T
      <4>1. 0..N \subseteq T
        BY <1>1, <3>9, <3>10, UpTo
      <4> QED
        BY <1>1, <4>1
    <3>12. h[N] = f[N]
      BY <2>2, <3>11 DEF T
    <3> QED
      BY <3>7, <3>12
  <2> QED
    BY <2>1, <2>2
<1>8. \A i \in 0..N : f[i] \in V
  BY <1>4
<1> QED
  BY <1>4, <1>6, <1>7, <1>8 DEF Joining

\* The lists of a list.
Lists(ss) == Listed(ss) /\ \A i \in DOMAIN ss : Listed(ss[i])

LEMMA ListsIn ==
  ASSUME NEW ss, Lists(ss)
  PROVE  \E S : ss \in Seq(Seq(S))
<1>1. PICK N, T, S : N = Len(ss) /\ T = ToSet(ss) /\ S = UNION {ToSet(ss[i]) : i \in DOMAIN ss}
  OBVIOUS
<1>2. ss \in Seq(T) /\ N \in Nat /\ DOMAIN ss = 1..N
  BY <1>1 DEF Lists, Listed
<1>3. ASSUME NEW i \in 1..N PROVE ss[i] \in Seq(S)
  <2>1. PICK U : U = ToSet(ss[i])
    OBVIOUS
  <2>2. ss[i] \in Seq(U) /\ U \subseteq S
    BY <1>1, <1>2, <2>1 DEF Lists, Listed
  <2> QED
    BY <2>2
<1>4. ss \in [1..N -> Seq(S)]
  <2>1. PICK V : V = Seq(S)
    OBVIOUS
  <2>2. ss \in [1..N -> T] /\ \A i \in 1..N : ss[i] \in V
    BY <1>1, <1>2, <1>3, <2>1
  <2> QED
    BY <2>1, <2>2
<1> QED
  BY <1>2, <1>4

LEMMA Flattened ==
  ASSUME NEW ss, Lists(ss), NEW N, N = Len(ss)
  PROVE  /\ N \in Nat /\ DOMAIN ss = 1..N /\ \A i \in 0..N-1 : Listed(ss[i + 1])
         /\ \E f : Joining(ss, f, N) /\ \A i \in 0..N : Listed(f[i])
<1>1. PICK S : ss \in Seq(Seq(S))
  BY ListsIn
<1>2. PICK V : V = Seq(S)
  OBVIOUS
<1>3. <<>> \in V /\ \A p, q \in V : p \o q \in V /\ <<>> \o q = q
  BY <1>2
<1>4. ss \in Seq(V) /\ N \in Nat /\ DOMAIN ss = 1..N
  BY <1>1, <1>2
<1>5. PICK f : Joining(ss, f, N) /\ \A i \in 0..N : f[i] \in V
  BY <1>3, <1>4, FlattenSteps
<1>6. \A i \in 0..N : Listed(f[i])
  BY <1>2, <1>5, ListsAre
<1>7. ASSUME NEW i \in 0..N-1 PROVE Listed(ss[i + 1])
  <2>1. i + 1 \in 1..N
    BY <1>4
  <2> QED
    BY <1>4, <2>1 DEF Lists
<1> QED
  BY <1>4, <1>5, <1>6, <1>7

LEMMA OneMore ==
  ASSUME NEW ss, NEW f, NEW N \in Nat, Joining(ss, f, N), \A i \in 0..N : Listed(f[i]), NEW k \in 0..N-1,
         Listed(ss[k + 1])
  PROVE  /\ \A x : Times(f[k + 1], x) = Times(f[k], x) + Times(ss[k + 1], x)
         /\ \A x : Times(f[k], x) \in Nat /\ Times(ss[k + 1], x) \in Nat
         /\ \A x : x \in ToSet(f[k + 1]) <=> x \in ToSet(f[k]) \/ x \in ToSet(ss[k + 1])
<1>1. f[k + 1] = f[k] \o ss[k + 1]
  BY DEF Joining
<1>2. Listed(f[k])
  <2>1. k \in 0..N
    OBVIOUS
  <2> QED
    BY <2>1
<1> QED
  BY <1>1, <1>2, TimesJoined, TimesIs

\* Every list that f joins the first lists of ss to is one.
Joins(ss, f, N) == N \in Nat /\ Joining(ss, f, N) /\ \A i \in 0..N : Listed(f[i])

LEMMA OneMoreTimes ==
  ASSUME NEW ss, NEW f, NEW N, Joins(ss, f, N), NEW k \in 0..N-1, Listed(ss[k + 1]), NEW x
  PROVE  Times(f[k + 1], x) = Times(f[k], x) + Times(ss[k + 1], x) /\ Times(f[k], x) \in Nat /\ Times(ss[k + 1], x) \in Nat
BY OneMore DEF Joins

LEMMA NoneYet ==
  ASSUME NEW ss, NEW f, NEW N, Joining(ss, f, N)
  PROVE  (\A x : Times(f[0], x) = 0) /\ ToSet(f[0]) = {}
<1>1. DOMAIN f[0] = {}
  BY DEF Joining
<1>2. \A x : {i \in DOMAIN f[0] : f[0][i] = x} = {}
  BY <1>1
<1>3. ToSet(f[0]) = {}
  BY <1>1 DEF ToSet
<1> QED
  BY <1>2, <1>3, FS_EmptySet DEF Times

\* A flattened list of lists is a list of what is in them.
LEMMA FlattenedListed ==
  ASSUME NEW ss, Lists(ss)
  PROVE  /\ Listed(FlattenSeq(ss))
         /\ \A x : x \in ToSet(FlattenSeq(ss)) => \E i \in DOMAIN ss : x \in ToSet(ss[i])
<1>1. PICK N : N = Len(ss)
  OBVIOUS
<1>2. N \in Nat /\ DOMAIN ss = 1..N /\ \A i \in 0..N-1 : Listed(ss[i + 1])
  BY <1>1, Flattened
<1>3. PICK f : Joining(ss, f, N) /\ \A i \in 0..N : Listed(f[i])
  BY <1>1, Flattened
<1> DEFINE From(i) == \A x : x \in ToSet(f[i]) => \E j \in 1..N : x \in ToSet(ss[j])
           T == {i \in 0..N : From(i)}
<1>4. From(0)
  BY <1>3, NoneYet
<1>5. ASSUME NEW k \in 0..N-1, From(k) PROVE From(k + 1)
  <2>1. k + 1 \in 1..N
    BY <1>2
  <2>2. \A x : x \in ToSet(f[k + 1]) <=> x \in ToSet(f[k]) \/ x \in ToSet(ss[k + 1])
    BY <1>2, <1>3, OneMore
  <2> QED
    BY <1>5, <2>1, <2>2
<1> HIDE DEF From
<1>6. 0 \in T /\ \A k \in 0..N-1 : k \in T => k + 1 \in T
  BY <1>2, <1>4, <1>5
<1> HIDE DEF T
<1>7. N \in T /\ N \in 0..N
  <2>1. 0..N \subseteq T
    BY <1>2, <1>6, UpTo
  <2> QED
    BY <1>2, <2>1
<1>8. From(N)
  BY <1>7 DEF T
<1>9. FlattenSeq(ss) = f[N]
  BY <1>3 DEF Joining
<1> QED
  BY <1>2, <1>3, <1>7, <1>8, <1>9 DEF From

\* Every list of d holds x as often as those of a, b and c together.
Sums(d, a, b, c, N, x) ==
    /\ Lists(d) /\ Lists(a) /\ Lists(b) /\ Lists(c)
    /\ Len(d) = N /\ Len(a) = N /\ Len(b) = N /\ Len(c) = N
    /\ \A i \in 1..N : Times(d[i], x) = Times(a[i], x) + Times(b[i], x) + Times(c[i], x)

\* What is counted in a flattened list is counted in its lists.
LEMMA FlattenedSums ==
  ASSUME NEW d, NEW a, NEW b, NEW c, NEW N, NEW x, Sums(d, a, b, c, N, x)
  PROVE  Times(FlattenSeq(d), x) = Times(FlattenSeq(a), x) + Times(FlattenSeq(b), x) + Times(FlattenSeq(c), x)
<1> /\ Lists(d) /\ Lists(a) /\ Lists(b) /\ Lists(c)
    /\ Len(d) = N /\ Len(a) = N /\ Len(b) = N /\ Len(c) = N
    /\ \A i \in 1..N : Times(d[i], x) = Times(a[i], x) + Times(b[i], x) + Times(c[i], x)
  BY DEF Sums
<1>0. N \in Nat
  BY Flattened
<1>1. PICK fd : Joining(d, fd, N) /\ \A i \in 0..N : Listed(fd[i])
  BY Flattened
<1>2. PICK fa : Joining(a, fa, N) /\ \A i \in 0..N : Listed(fa[i])
  BY Flattened
<1>3. PICK fb : Joining(b, fb, N) /\ \A i \in 0..N : Listed(fb[i])
  BY Flattened
<1>4. PICK fc : Joining(c, fc, N) /\ \A i \in 0..N : Listed(fc[i])
  BY Flattened
<1> DEFINE Adds(i) == Times(fd[i], x) = Times(fa[i], x) + Times(fb[i], x) + Times(fc[i], x)
           T == {i \in 0..N : Adds(i)}
<1>5. Adds(0)
  <2>1. Times(fd[0], x) = 0 /\ Times(fa[0], x) = 0 /\ Times(fb[0], x) = 0 /\ Times(fc[0], x) = 0
    BY <1>1, <1>2, <1>3, <1>4, NoneYet
  <2> QED
    BY <2>1
<1>6. ASSUME NEW k \in 0..N-1, Adds(k) PROVE Adds(k + 1)
  <2>1. /\ Times(fd[k + 1], x) = Times(fd[k], x) + Times(d[k + 1], x)
        /\ Times(fd[k], x) \in Nat /\ Times(d[k + 1], x) \in Nat
    <3>1. Listed(d[k + 1])
      BY Flattened
    <3>2. Joins(d, fd, N)
      BY <1>0, <1>1 DEF Joins
    <3> QED
      BY ONLY <3>1, <3>2, k \in 0..N-1, OneMoreTimes
  <2>2. /\ Times(fa[k + 1], x) = Times(fa[k], x) + Times(a[k + 1], x)
        /\ Times(fa[k], x) \in Nat /\ Times(a[k + 1], x) \in Nat
    <3>1. Listed(a[k + 1])
      BY Flattened
    <3>2. Joins(a, fa, N)
      BY <1>0, <1>2 DEF Joins
    <3> QED
      BY ONLY <3>1, <3>2, k \in 0..N-1, OneMoreTimes
  <2>3. /\ Times(fb[k + 1], x) = Times(fb[k], x) + Times(b[k + 1], x)
        /\ Times(fb[k], x) \in Nat /\ Times(b[k + 1], x) \in Nat
    <3>1. Listed(b[k + 1])
      BY Flattened
    <3>2. Joins(b, fb, N)
      BY <1>0, <1>3 DEF Joins
    <3> QED
      BY ONLY <3>1, <3>2, k \in 0..N-1, OneMoreTimes
  <2>4. /\ Times(fc[k + 1], x) = Times(fc[k], x) + Times(c[k + 1], x)
        /\ Times(fc[k], x) \in Nat /\ Times(c[k + 1], x) \in Nat
    <3>1. Listed(c[k + 1])
      BY Flattened
    <3>2. Joins(c, fc, N)
      BY <1>0, <1>4 DEF Joins
    <3> QED
      BY ONLY <3>1, <3>2, k \in 0..N-1, OneMoreTimes
  <2>5. k + 1 \in 1..N
    BY <1>0
  <2>6. Times(d[k + 1], x) = Times(a[k + 1], x) + Times(b[k + 1], x) + Times(c[k + 1], x)
    BY <2>5
  <2>7. Times(fd[k], x) = Times(fa[k], x) + Times(fb[k], x) + Times(fc[k], x)
    BY <1>6
  <2> QED
    BY ONLY <2>1, <2>2, <2>3, <2>4, <2>6, <2>7
<1> HIDE DEF Adds
<1>7. 0 \in T /\ \A k \in 0..N-1 : k \in T => k + 1 \in T
  BY <1>0, <1>5, <1>6
<1> HIDE DEF T
<1>8. N \in T
  <2>1. 0..N \subseteq T
    BY <1>0, <1>7, UpTo
  <2> QED
    BY <1>0, <2>1
<1>9. Adds(N)
  BY <1>8 DEF T
<1>10. /\ FlattenSeq(d) = fd[N] /\ FlattenSeq(a) = fa[N]
       /\ FlattenSeq(b) = fb[N] /\ FlattenSeq(c) = fc[N]
  BY <1>1, <1>2, <1>3, <1>4 DEF Joining
<1> QED
  BY <1>9, <1>10 DEF Adds

\* The nodes asked for.
Nodes(asked) == [i \in DOMAIN asked |-> asked[i].node]

LEMMA NodesListed ==
  ASSUME NEW a, Listed(a)
  PROVE  Listed(Nodes(a)) /\ Len(Nodes(a)) = Len(a) /\ DOMAIN Nodes(a) = DOMAIN a
<1>1. PICK n : n = Len(a)
  OBVIOUS
<1>2. n \in Nat /\ DOMAIN a = 1..n
  BY <1>1, TimesIs
<1>3. Nodes(a) = [i \in 1..n |-> Nodes(a)[i]]
  BY <1>2 DEF Nodes
<1> QED
  BY <1>1, <1>2, <1>3, ListedFunction

LEMMA SameLists ==
  ASSUME NEW a, NEW b, Listed(a), Listed(b), Len(a) = Len(b), \A i \in 1..Len(a) : a[i] = b[i]
  PROVE  a = b
<1>1. PICK n, S, T : n = Len(a) /\ S = ToSet(a) /\ T = ToSet(b)
  OBVIOUS
<1>2. a \in Seq(S) /\ b \in Seq(T) /\ Len(a) = n /\ Len(b) = n
  BY <1>1 DEF Listed
<1>3. n \in Nat /\ a = [i \in 1..n |-> a[i]] /\ b = [i \in 1..n |-> b[i]]
  BY <1>2
<1> QED
  BY <1>1, <1>3

LEMMA Concatenated ==
  ASSUME NEW a, NEW b, Listed(a), Listed(b)
  PROVE  /\ Listed(a \o b) /\ Len(a \o b) = Len(a) + Len(b) /\ Len(a) \in Nat /\ Len(b) \in Nat
         /\ (\A i \in 1..Len(a) : (a \o b)[i] = a[i])
         /\ (\A i \in 1..Len(b) : (a \o b)[Len(a) + i] = b[i])
<1>1. PICK S, A, B : S = A \union B /\ A = ToSet(a) /\ B = ToSet(b)
  OBVIOUS
<1>2. a \in Seq(A) /\ b \in Seq(B) /\ A \subseteq S /\ B \subseteq S
  BY <1>1 DEF Listed
<1>3. a \in Seq(S) /\ b \in Seq(S)
  BY <1>2
<1> QED
  BY <1>3, Joined, TimesJoined, TimesIs

LEMMA NodesJoined ==
  ASSUME NEW a, NEW b, Listed(a), Listed(b)
  PROVE  Nodes(a \o b) = Nodes(a) \o Nodes(b)
<1>1. PICK A, B, c, p, q, r : /\ A = Len(a) /\ B = Len(b) /\ c = a \o b /\ p = Nodes(a) /\ q = Nodes(b)
                              /\ r = p \o q
  OBVIOUS
<1>2. /\ A \in Nat /\ B \in Nat /\ Len(c) = A + B /\ Listed(c)
      /\ (\A i \in 1..A : c[i] = a[i]) /\ (\A i \in 1..B : c[A + i] = b[i])
  BY <1>1, Concatenated
<1>3. Listed(p) /\ Listed(q) /\ Len(p) = A /\ Len(q) = B
  BY <1>1, NodesListed
<1>4. /\ Len(r) = A + B /\ Listed(r)
      /\ (\A i \in 1..A : r[i] = p[i]) /\ (\A i \in 1..B : r[A + i] = q[i])
  BY <1>1, <1>3, Concatenated
<1>5. Listed(Nodes(c)) /\ Len(Nodes(c)) = A + B
  BY <1>2, NodesListed
<1>6. DOMAIN a = 1..A /\ DOMAIN b = 1..B /\ DOMAIN c = 1..A + B
  BY <1>1, <1>2, TimesIs
<1>7. ASSUME NEW i \in 1..A + B PROVE Nodes(c)[i] = r[i]
  <2>1. CASE i \in 1..A
    BY <1>1, <1>2, <1>4, <1>6, <2>1 DEF Nodes
  <2>2. CASE i \notin 1..A
    <3>1. PICK j \in 1..B : i = A + j
      <4>1. i - A \in 1..B /\ i = A + (i - A)
        BY <1>2, <2>2
      <4> QED
        BY <4>1
    <3>2. Nodes(c)[i] = c[i].node
      BY <1>6 DEF Nodes
    <3>3. c[i] = b[j] /\ r[i] = q[j]
      BY <1>2, <1>4, <3>1
    <3>4. q[j] = b[j].node
      BY <1>1, <1>6 DEF Nodes
    <3> QED
      BY <3>2, <3>3, <3>4
  <2> QED
    BY <2>1, <2>2
<1>8. Nodes(c) = r
  BY <1>4, <1>5, <1>7, SameLists
<1> QED
  BY <1>1, <1>8

\* The nodes of a flattened list are the flattened nodes.
LEMMA NodesFlattened ==
  ASSUME NEW ss, Lists(ss), NEW pp, pp = [i \in DOMAIN ss |-> Nodes(ss[i])]
  PROVE  Nodes(FlattenSeq(ss)) = FlattenSeq(pp) /\ Lists(pp) /\ Len(pp) = Len(ss) /\ DOMAIN pp = DOMAIN ss
<1>1. PICK N : N = Len(ss)
  OBVIOUS
<1>2. N \in Nat /\ DOMAIN ss = 1..N /\ \A i \in 0..N-1 : Listed(ss[i + 1])
  BY <1>1, Flattened
<1>3. Lists(pp) /\ Len(pp) = N /\ DOMAIN pp = 1..N
  <2>1. pp = [i \in 1..N |-> pp[i]]
    BY <1>2
  <2>2. Listed(pp) /\ DOMAIN pp = 1..N /\ Len(pp) = N
    BY <1>2, <2>1, ListedFunction
  <2>3. \A i \in 1..N : pp[i] = Nodes(ss[i]) /\ Listed(ss[i])
    BY <1>2 DEF Lists
  <2>4. \A i \in 1..N : Listed(pp[i])
    BY <2>3, NodesListed
  <2> QED
    BY <2>2, <2>4 DEF Lists
<1>4. PICK f : Joining(ss, f, N) /\ \A i \in 0..N : Listed(f[i])
  BY <1>1, Flattened
<1>5. PICK g : Joining(pp, g, N) /\ \A i \in 0..N : Listed(g[i])
  BY <1>3, Flattened
<1> DEFINE Same(i) == Nodes(f[i]) = g[i]
           T == {i \in 0..N : Same(i)}
<1>6. Same(0)
  <2>1. f[0] = <<>> /\ g[0] = <<>>
    BY <1>4, <1>5 DEF Joining
  <2>2. Nodes(<<>>) = <<>>
    BY DEF Nodes
  <2> QED
    BY <2>1, <2>2
<1>7. ASSUME NEW k \in 0..N-1, Same(k) PROVE Same(k + 1)
  <2>1. k + 1 \in DOMAIN ss /\ k \in 0..N
    BY <1>2
  <2>2. f[k + 1] = f[k] \o ss[k + 1] /\ g[k + 1] = g[k] \o pp[k + 1]
    BY <1>4, <1>5 DEF Joining
  <2>3. Listed(f[k]) /\ Listed(ss[k + 1])
    BY <1>2, <1>4, <2>1
  <2>4. Nodes(f[k] \o ss[k + 1]) = Nodes(f[k]) \o Nodes(ss[k + 1])
    BY <2>3, NodesJoined
  <2>5. pp[k + 1] = Nodes(ss[k + 1])
    BY <2>1
  <2> QED
    BY <1>7, <2>2, <2>4, <2>5
<1> HIDE DEF Same
<1>8. 0 \in T /\ \A k \in 0..N-1 : k \in T => k + 1 \in T
  BY <1>2, <1>6, <1>7
<1> HIDE DEF T
<1>9. N \in T
  <2>1. 0..N \subseteq T
    BY <1>2, <1>8, UpTo
  <2> QED
    BY <1>2, <2>1
<1>10. Same(N)
  BY <1>9 DEF T
<1>11. FlattenSeq(ss) = f[N] /\ FlattenSeq(pp) = g[N]
  BY <1>4, <1>5 DEF Joining
<1> QED
  BY <1>1, <1>2, <1>3, <1>10, <1>11 DEF Same

\* How often a is x.
One(a, x) == IF a = x THEN 1 ELSE 0

\* Short lists.
LEMMA Short ==
  ASSUME NEW a, NEW b
  PROVE  /\ Listed(<<>>) /\ Listed(<<a>>) /\ Listed(<<a, b>>)
         /\ (\A x : Times(<<>>, x) = 0 /\ Times(<<a>>, x) = One(a, x))
         /\ (\A x : Times(<<a, b>>, x) = One(a, x) + One(b, x))
         /\ <<a, b>> = <<a>> \o <<b>>
<1>1. Listed(<<>>) /\ Listed(<<a>>) /\ Listed(<<b>>)
  <2>1. <<>> \in Seq({}) /\ <<a>> \in Seq({a}) /\ <<b>> \in Seq({b})
    OBVIOUS
  <2> QED
    BY <2>1, ListsAre
<1>2. ASSUME NEW x PROVE Times(<<>>, x) = 0
  <2>1. {i \in DOMAIN <<>> : <<>>[i] = x} = {}
    OBVIOUS
  <2> QED
    BY <2>1, FS_EmptySet DEF Times
<1>3. ASSUME NEW c, NEW x PROVE Times(<<c>>, x) = One(c, x)
  <2>1. DOMAIN <<c>> = {1} /\ <<c>>[1] = c
    OBVIOUS
  <2>2. {i \in DOMAIN <<c>> : <<c>>[i] = x} = IF c = x THEN {1} ELSE {}
    BY <2>1
  <2> QED
    BY <2>2, FS_EmptySet, FS_Singleton DEF Times, One
<1>4. <<a, b>> = <<a>> \o <<b>>
  <2>1. PICK p, q, r, u : p = <<a>> /\ q = <<b>> /\ r = p \o q /\ u = <<a, b>>
    OBVIOUS
  <2>2. Len(p) = 1 /\ Len(q) = 1 /\ p[1] = a /\ q[1] = b
    BY <2>1
  <2>3. u \in Seq({a, b}) /\ Len(u) = 2 /\ u[1] = a /\ u[2] = b
    BY <2>1
  <2>4. Listed(u)
    BY <2>3, ListsAre
  <2>5. /\ Listed(r) /\ Len(r) = Len(p) + Len(q)
        /\ (\A i \in 1..Len(p) : r[i] = p[i]) /\ (\A i \in 1..Len(q) : r[Len(p) + i] = q[i])
    BY <1>1, <2>1, Concatenated
  <2>6. Len(r) = 2 /\ r[1] = a /\ r[2] = b
    BY <2>2, <2>5
  <2>7. u = r
    BY <2>3, <2>4, <2>5, <2>6, SameLists
  <2> QED
    BY <2>1, <2>7
<1>5. Listed(<<a>> \o <<b>>) /\ \A x : Times(<<a>> \o <<b>>, x) = Times(<<a>>, x) + Times(<<b>>, x)
  BY <1>1, TimesJoined
<1>6. /\ Listed(<<a, b>>)
      /\ \A x : Times(<<a, b>>, x) = One(a, x) + One(b, x)
  <2>1. Listed(<<a, b>>)
    BY <1>4, <1>5
  <2>2. ASSUME NEW x PROVE Times(<<a, b>>, x) = One(a, x) + One(b, x)
    <3>1. Times(<<a, b>>, x) = Times(<<a>>, x) + Times(<<b>>, x)
      BY <1>4, <1>5
    <3>2. Times(<<a>>, x) = One(a, x) /\ Times(<<b>>, x) = One(b, x)
      BY <1>3
    <3> QED
      BY ONLY <3>1, <3>2
  <2> QED
    BY ONLY <2>1, <2>2
<1>7. \A x : Times(<<a>>, x) = One(a, x)
  BY <1>3
<1> QED
  BY ONLY <1>1, <1>2, <1>4, <1>6, <1>7

LEMMA TwoListed ==
  ASSUME NEW f, f = [i \in 1..2 |-> f[i]]
  PROVE  Listed(f) /\ Len(f) = 2 /\ DOMAIN f = 1..2 /\ \A x : Times(f, x) = One(f[1], x) + One(f[2], x)
<1>1. Listed(f) /\ Len(f) = 2 /\ DOMAIN f = 1..2
  BY ListedFunction
<1>2. f = <<f[1], f[2]>>
  <2>1. PICK a, b, g : a = f[1] /\ b = f[2] /\ g = <<a, b>>
    OBVIOUS
  <2>2. Listed(g) /\ Len(g) = 2 /\ g[1] = a /\ g[2] = b
    BY <2>1, Short
  <2>3. \A i \in 1..2 : f[i] = g[i]
    BY <2>1, <2>2
  <2> QED
    BY <1>1, <2>1, <2>2, <2>3, SameLists
<1>3. \A x : Times(<<f[1], f[2]>>, x) = One(f[1], x) + One(f[2], x)
  <2>1. PICK a, b : a = f[1] /\ b = f[2]
    OBVIOUS
  <2>2. \A x : Times(<<a, b>>, x) = One(a, x) + One(b, x)
    BY ONLY Short
  <2> QED
    BY ONLY <2>1, <2>2
<1> QED
  BY <1>1, <1>2, <1>3

LEMMA ThreeListed ==
  ASSUME NEW f, f = [i \in 1..3 |-> f[i]]
  PROVE  /\ Listed(f) /\ Len(f) = 3 /\ DOMAIN f = 1..3
         /\ \A x : Times(f, x) = One(f[1], x) + One(f[2], x) + One(f[3], x)
<1>1. Listed(f) /\ Len(f) = 3 /\ DOMAIN f = 1..3
  BY ListedFunction
<1>2. PICK a, b, g : a = <<f[1], f[2]>> /\ b = <<f[3]>> /\ g = a \o b
  OBVIOUS
<1>3. Listed(a) /\ Listed(b)
  BY <1>2, Short
<1>4. Len(a) = 2 /\ Len(b) = 1 /\ a[1] = f[1] /\ a[2] = f[2] /\ b[1] = f[3]
  BY <1>2
<1>5. Listed(g) /\ Len(g) = 3 /\ g[1] = f[1] /\ g[2] = f[2] /\ g[3] = f[3]
  <2>1. /\ Listed(g) /\ Len(g) = Len(a) + Len(b)
        /\ (\A i \in 1..Len(a) : g[i] = a[i]) /\ (\A i \in 1..Len(b) : g[Len(a) + i] = b[i])
    BY <1>2, <1>3, Concatenated
  <2> QED
    BY <1>4, <2>1
<1>6. f = g
  <2>1. \A i \in 1..3 : f[i] = g[i]
    BY <1>5
  <2> QED
    BY <1>1, <1>5, <2>1, SameLists
<1>7. ASSUME NEW x PROVE Times(f, x) = One(f[1], x) + One(f[2], x) + One(f[3], x)
  <2>1. Times(g, x) = Times(a, x) + Times(b, x)
    BY <1>2, <1>3, TimesJoined
  <2>2. Times(a, x) = One(f[1], x) + One(f[2], x) /\ Times(b, x) = One(f[3], x)
    <3>1. PICK p, q, r : p = f[1] /\ q = f[2] /\ r = f[3]
      OBVIOUS
    <3>2. (\A y : Times(<<p, q>>, y) = One(p, y) + One(q, y)) /\ \A y : Times(<<r>>, y) = One(r, y)
      BY ONLY Short
    <3> QED
      BY ONLY <1>2, <3>1, <3>2
  <2> QED
    BY ONLY <1>6, <2>1, <2>2
<1> QED
  BY <1>1, <1>7

LEMMA Pieces ==
  ASSUME NEW n \in Nat, NEW ss, ss = [i \in 1..n |-> ss[i]], \A i \in 1..n : Listed(ss[i])
  PROVE  Lists(ss) /\ Len(ss) = n /\ DOMAIN ss = 1..n
BY ListedFunction DEF Lists

LEMMA FlattenedTwo ==
  ASSUME NEW ss, ss = [i \in 1..2 |-> ss[i]], Listed(ss[1]), Listed(ss[2])
  PROVE  /\ Lists(ss) /\ Listed(FlattenSeq(ss))
         /\ \A x : Times(FlattenSeq(ss), x) = Times(ss[1], x) + Times(ss[2], x)
<1>1. Lists(ss) /\ Len(ss) = 2
  <2>1. \A i \in 1..2 : Listed(ss[i])
    OBVIOUS
  <2> QED
    BY <2>1, Pieces
<1>2. PICK f : Joining(ss, f, 2) /\ \A i \in 0..2 : Listed(f[i])
  BY <1>1, Flattened
<1>3. f[1] = f[0] \o ss[1] /\ f[2] = f[1] \o ss[2] /\ FlattenSeq(ss) = f[2]
  <2>1. 0 \in 0..2-1 /\ 1 \in 0..2-1 /\ 0 + 1 = 1 /\ 1 + 1 = 2
    OBVIOUS
  <2> QED
    BY <1>2, <2>1 DEF Joining
<1>4. ASSUME NEW x PROVE Times(f[2], x) = Times(ss[1], x) + Times(ss[2], x)
  <2>1. Listed(f[0]) /\ Listed(f[1])
    BY <1>2
  <2>2. Times(f[1], x) = Times(f[0], x) + Times(ss[1], x)
    BY <1>3, <2>1, TimesJoined
  <2>3. Times(f[2], x) = Times(f[1], x) + Times(ss[2], x)
    BY <1>3, <2>1, TimesJoined
  <2>4. Times(f[0], x) = 0
    BY <1>2, NoneYet
  <2>5. Times(ss[1], x) \in Nat /\ Times(ss[2], x) \in Nat
    BY TimesIs
  <2> QED
    BY ONLY <2>2, <2>3, <2>4, <2>5
<1>5. Listed(f[2])
  BY <1>2
<1> QED
  BY <1>1, <1>3, <1>4, <1>5

LEMMA FlattenedThree ==
  ASSUME NEW ss, ss = [i \in 1..3 |-> ss[i]], Listed(ss[1]), Listed(ss[2]), Listed(ss[3])
  PROVE  /\ Lists(ss) /\ Listed(FlattenSeq(ss))
         /\ \A x : Times(FlattenSeq(ss), x) = Times(ss[1], x) + Times(ss[2], x) + Times(ss[3], x)
<1>1. Lists(ss) /\ Len(ss) = 3
  <2>1. \A i \in 1..3 : Listed(ss[i])
    OBVIOUS
  <2> QED
    BY <2>1, Pieces
<1>2. PICK f : Joining(ss, f, 3) /\ \A i \in 0..3 : Listed(f[i])
  BY <1>1, Flattened
<1>3. f[1] = f[0] \o ss[1] /\ f[2] = f[1] \o ss[2] /\ f[3] = f[2] \o ss[3] /\ FlattenSeq(ss) = f[3]
  <2>1. 0 \in 0..3-1 /\ 1 \in 0..3-1 /\ 2 \in 0..3-1 /\ 0 + 1 = 1 /\ 1 + 1 = 2 /\ 2 + 1 = 3
    OBVIOUS
  <2> QED
    BY <1>2, <2>1 DEF Joining
<1>4. ASSUME NEW x PROVE Times(f[3], x) = Times(ss[1], x) + Times(ss[2], x) + Times(ss[3], x)
  <2>1. Listed(f[0]) /\ Listed(f[1]) /\ Listed(f[2])
    BY <1>2
  <2>2. Times(f[1], x) = Times(f[0], x) + Times(ss[1], x)
    BY <1>3, <2>1, TimesJoined
  <2>3. Times(f[2], x) = Times(f[1], x) + Times(ss[2], x)
    BY <1>3, <2>1, TimesJoined
  <2>4. Times(f[3], x) = Times(f[2], x) + Times(ss[3], x)
    BY <1>3, <2>1, TimesJoined
  <2>5. Times(f[0], x) = 0
    BY <1>2, NoneYet
  <2>6. Times(ss[1], x) \in Nat /\ Times(ss[2], x) \in Nat /\ Times(ss[3], x) \in Nat
    BY TimesIs
  <2> QED
    BY ONLY <2>2, <2>3, <2>4, <2>5, <2>6
<1>5. Listed(f[3])
  BY <1>2
<1> QED
  BY <1>1, <1>3, <1>4, <1>5

\* Two lists of two.
LEMMA FlattenedFour ==
  ASSUME NEW ss, ss = [k \in 1..2 |-> ss[k]], ss[1] = [i \in 1..2 |-> ss[1][i]], ss[2] = [i \in 1..2 |-> ss[2][i]]
  PROVE  /\ Lists(ss) /\ Listed(FlattenSeq(ss))
         /\ \A x : Times(FlattenSeq(ss), x)
                     = One(ss[1][1], x) + One(ss[1][2], x) + One(ss[2][1], x) + One(ss[2][2], x)
<1>1. Listed(ss[1]) /\ \A x : Times(ss[1], x) = One(ss[1][1], x) + One(ss[1][2], x)
  <2>1. PICK a : a = ss[1]
    OBVIOUS
  <2>2. a = [i \in 1..2 |-> a[i]]
    BY <2>1
  <2> QED
    BY <2>1, <2>2, TwoListed
<1>2. Listed(ss[2]) /\ \A x : Times(ss[2], x) = One(ss[2][1], x) + One(ss[2][2], x)
  <2>1. PICK a : a = ss[2]
    OBVIOUS
  <2>2. a = [i \in 1..2 |-> a[i]]
    BY <2>1
  <2> QED
    BY <2>1, <2>2, TwoListed
<1>3. Lists(ss) /\ Listed(FlattenSeq(ss)) /\ \A x : Times(FlattenSeq(ss), x) = Times(ss[1], x) + Times(ss[2], x)
  BY <1>1, <1>2, FlattenedTwo
<1>4. ASSUME NEW x
      PROVE  Times(FlattenSeq(ss), x) = One(ss[1][1], x) + One(ss[1][2], x) + One(ss[2][1], x) + One(ss[2][2], x)
  <2>1. Times(FlattenSeq(ss), x) = Times(ss[1], x) + Times(ss[2], x)
    BY <1>3
  <2>2. Times(ss[1], x) = One(ss[1][1], x) + One(ss[1][2], x)
    BY <1>1
  <2>3. Times(ss[2], x) = One(ss[2][1], x) + One(ss[2][2], x)
    BY <1>2
  <2>4. \A a : One(a, x) \in Nat
    BY DEF One
  <2> QED
    BY ONLY <2>1, <2>2, <2>3, <2>4
<1> QED
  BY ONLY <1>3, <1>4

LEMMA NodesShort ==
  ASSUME NEW a, NEW b, NEW c, NEW d
  PROVE  /\ Nodes(<<Asked(a, c)>>) = <<a>>
         /\ Nodes(<<Asked(a, c), Asked(b, d)>>) = <<a, b>>
<1>1. Nodes(<<Asked(a, c)>>) = <<a>>
  BY DEF Nodes, Asked
<1>2. Nodes(<<Asked(a, c), Asked(b, d)>>) = <<a, b>>
  BY DEF Nodes, Asked
<1> QED
  BY <1>1, <1>2

LEMMA FourListed ==
  ASSUME NEW a, NEW b, NEW c, NEW d
  PROVE  /\ Listed(<<a, b, c, d>>)
         /\ \A x : Times(<<a, b, c, d>>, x) = One(a, x) + One(b, x) + One(c, x) + One(d, x)
<1>1. PICK p, q, g, f : p = <<a, b>> /\ q = <<c, d>> /\ g = p \o q /\ f = <<a, b, c, d>>
  OBVIOUS
<1>2. Listed(p) /\ Listed(q) /\ Len(p) = 2 /\ Len(q) = 2 /\ p[1] = a /\ p[2] = b /\ q[1] = c /\ q[2] = d
  BY <1>1, Short
<1>3. Listed(f) /\ Len(f) = 4 /\ f[1] = a /\ f[2] = b /\ f[3] = c /\ f[4] = d
  <2>1. f \in Seq({a, b, c, d})
    BY <1>1
  <2> QED
    BY <1>1, <2>1, ListsAre
<1>4. Listed(g) /\ Len(g) = 4 /\ g[1] = a /\ g[2] = b /\ g[3] = c /\ g[4] = d
  <2>1. /\ Listed(g) /\ Len(g) = Len(p) + Len(q)
        /\ (\A i \in 1..Len(p) : g[i] = p[i]) /\ (\A i \in 1..Len(q) : g[Len(p) + i] = q[i])
    BY <1>1, <1>2, Concatenated
  <2> QED
    BY <1>2, <2>1
<1>5. f = g
  <2>1. \A i \in 1..4 : f[i] = g[i]
    BY <1>3, <1>4
  <2> QED
    BY <1>3, <1>4, <2>1, SameLists
<1>6. ASSUME NEW x PROVE Times(f, x) = One(a, x) + One(b, x) + One(c, x) + One(d, x)
  <2>1. Times(g, x) = Times(p, x) + Times(q, x)
    BY <1>1, <1>2, TimesJoined
  <2>2. \A y : Times(<<a, b>>, y) = One(a, y) + One(b, y)
    BY ONLY Short
  <2>5. \A y : Times(<<c, d>>, y) = One(c, y) + One(d, y)
    BY ONLY Short
  <2>4. Times(p, x) = One(a, x) + One(b, x) /\ Times(q, x) = One(c, x) + One(d, x)
    BY ONLY <1>1, <2>2, <2>5
  <2>3. \A e : One(e, x) \in Nat
    BY DEF One
  <2> QED
    BY ONLY <1>5, <2>1, <2>3, <2>4
<1> QED
  BY <1>1, <1>3, <1>6

LEMMA ThreeJoined ==
  ASSUME NEW a, NEW b, NEW c, Listed(a), Listed(b), Listed(c)
  PROVE  /\ Listed(a \o b \o c)
         /\ \A x : Times(a \o b \o c, x) = Times(a, x) + Times(b, x) + Times(c, x)
         /\ Nodes(a \o b \o c) = Nodes(a) \o Nodes(b) \o Nodes(c)
         /\ \A x : x \in ToSet(a \o b \o c) <=> x \in ToSet(a) \/ x \in ToSet(b) \/ x \in ToSet(c)
<1>1. PICK d : d = a \o b
  OBVIOUS
<1>2. /\ Listed(d) /\ (\A x : Times(d, x) = Times(a, x) + Times(b, x)) /\ Nodes(d) = Nodes(a) \o Nodes(b)
      /\ \A x : x \in ToSet(d) <=> x \in ToSet(a) \/ x \in ToSet(b)
  BY <1>1, TimesJoined, NodesJoined
<1>3. /\ Listed(d \o c) /\ (\A x : Times(d \o c, x) = Times(d, x) + Times(c, x))
      /\ \A x : x \in ToSet(d \o c) <=> x \in ToSet(d) \/ x \in ToSet(c)
  BY <1>2, TimesJoined
<1>4. Nodes(d \o c) = Nodes(a) \o Nodes(b) \o Nodes(c)
  BY <1>2, NodesJoined
<1>5. \A x : Times(d \o c, x) = Times(a, x) + Times(b, x) + Times(c, x)
  BY ONLY <1>2, <1>3
<1>6. \A x : x \in ToSet(d \o c) <=> x \in ToSet(a) \/ x \in ToSet(b) \/ x \in ToSet(c)
  BY ONLY <1>2, <1>3
<1> QED
  BY ONLY <1>1, <1>3, <1>4, <1>5, <1>6

--------------------------------------------------------------------------------
(* What is asked for, as often as the pre-pass predicts it. *)

LEMMA ItemsListed ==
  ASSUME NEW spec, SpecAssumed(spec)
  PROVE  Listed(BlockerItems(spec)) /\ Listed(spec.setups) /\ Listed(spec.sides) /\ Listed(Rules(spec))
<1>1. Listed(BlockerItems(spec))
  <2>1. PICK b : b = [id |-> "no_blockers", instance |-> "no_blockers", gate |-> None]
    OBVIOUS
  <2>2. BlockerItems(spec) = <<b>> \/ BlockerItems(spec) = spec.blockers
    BY <2>1 DEF BlockerItems
  <2>3. Listed(<<b>>) /\ Listed(spec.blockers)
    BY Short DEF SpecAssumed
  <2> QED
    BY <2>2, <2>3
<1>2. Listed(Rules(spec))
  BY RulesIs DEF Listed
<1> QED
  BY <1>1, <1>2 DEF SpecAssumed

\* Two nodes for each item, asked for as aa with the columns c and d.
Pairs(items, aa, an, p, q, c, d) ==
    /\ aa = [i \in DOMAIN items |-> <<Asked(p[i], c[i]), Asked(q[i], d[i])>>]
    /\ an = [i \in DOMAIN items |-> <<p[i], q[i]>>]

LEMMA PairsAsked ==
  ASSUME NEW items, Listed(items), NEW aa, NEW an, NEW p, NEW q, NEW c, NEW d, Pairs(items, aa, an, p, q, c, d)
  PROVE  /\ Lists(aa) /\ Lists(an) /\ Listed(FlattenSeq(aa)) /\ Listed(FlattenSeq(an))
         /\ Nodes(FlattenSeq(aa)) = FlattenSeq(an)
<1>0. /\ aa = [i \in DOMAIN items |-> <<Asked(p[i], c[i]), Asked(q[i], d[i])>>]
      /\ an = [i \in DOMAIN items |-> <<p[i], q[i]>>]
  BY DEF Pairs
<1>1. PICK n : n \in Nat /\ DOMAIN items = 1..n
  BY TimesIs
<1>2. Lists(aa)
  <2>1. aa = [i \in 1..n |-> aa[i]]
    BY <1>0, <1>1
  <2>2. \A i \in 1..n : aa[i] = <<Asked(p[i], c[i]), Asked(q[i], d[i])>>
    BY <1>0, <1>1
  <2>3. \A i \in 1..n : Listed(aa[i])
    BY <2>2, Short
  <2> QED
    BY <1>1, <2>1, <2>3, Pieces
<1>3. an = [i \in DOMAIN aa |-> Nodes(aa[i])]
  <2>1. \A i \in DOMAIN items : Nodes(aa[i]) = <<p[i], q[i]>>
    BY <1>0, NodesShort
  <2> QED
    BY <1>0, <1>1, <1>2, <2>1
<1>4. Nodes(FlattenSeq(aa)) = FlattenSeq(an) /\ Lists(an)
  BY <1>2, <1>3, NodesFlattened
<1> QED
  BY <1>2, <1>4, FlattenedListed

BlockerPairs(spec, s) ==
    LET items == BlockerItems(spec)
    IN  FlattenSeq([i \in DOMAIN items |-> <<IntrinsicNode(items[i], s), AllowedNode(spec, items[i], s)>>])
SetupPairs(spec, s) == FlattenSeq([i \in DOMAIN spec.setups |-> <<LocalNode(s), FinalNode(spec, spec.setups[i], s)>>])

\* The masks of one side, stage by stage.
LEMMA BlockersAsked ==
  ASSUME NEW spec, SpecAssumed(spec), NEW s, NEW w, NEW e, e = EvaluateDirectionAndBlockers(spec, s, w)
  PROVE  /\ Listed(e) /\ Listed(Nodes(e)) /\ Listed(BlockerPairs(spec, s))
         /\ \A x : Times(Nodes(e), x) = One(DirectionNode(s), x) + Times(BlockerPairs(spec, s), x)
                                        + One(BlockersNode(spec, s), x) + One(PreSetupNode(spec, s), x)
<1>1. PICK items, aa, an :
        /\ items = BlockerItems(spec)
        /\ aa = [i \in DOMAIN items |->
                   <<Asked(IntrinsicNode(items[i], s), Intrinsic(items[i], s, w)),
                     Asked(AllowedNode(spec, items[i], s), BlockerAllowed(spec, items[i], s, w))>>]
        /\ an = [i \in DOMAIN items |-> <<IntrinsicNode(items[i], s), AllowedNode(spec, items[i], s)>>]
  OBVIOUS
<1>2. PICK p, q, c, d :
        /\ p = [i \in DOMAIN items |-> IntrinsicNode(items[i], s)]
        /\ q = [i \in DOMAIN items |-> AllowedNode(spec, items[i], s)]
        /\ c = [i \in DOMAIN items |-> Intrinsic(items[i], s, w)]
        /\ d = [i \in DOMAIN items |-> BlockerAllowed(spec, items[i], s, w)]
  OBVIOUS
<1>3. Pairs(items, aa, an, p, q, c, d)
  BY <1>1, <1>2 DEF Pairs
<1>4. Listed(items)
  BY <1>1, ItemsListed
<1>5. PICK g, f : g = FlattenSeq(aa) /\ f = FlattenSeq(an)
  OBVIOUS
<1>6. Listed(g) /\ Listed(f) /\ Nodes(g) = f
  BY ONLY <1>3, <1>4, <1>5, PairsAsked
<1>7. PICK n, m, o : n = DirectionNode(s) /\ m = BlockersNode(spec, s) /\ o = PreSetupNode(spec, s)
  OBVIOUS
<1>8. PICK h, t : /\ h = <<Asked(n, Direction(s, w))>>
                  /\ t = <<Asked(m, BlockersOk(spec, s, w)), Asked(o, PreSetup(spec, s, w))>>
  OBVIOUS
<1>9. Listed(h) /\ Listed(t) /\ Nodes(h) = <<n>> /\ Nodes(t) = <<m, o>>
  <2>1. Listed(h) /\ Listed(t)
    BY ONLY <1>8, Short
  <2>2. PICK x, y, z : x = Direction(s, w) /\ y = BlockersOk(spec, s, w) /\ z = PreSetup(spec, s, w)
    OBVIOUS
  <2>3. h = <<Asked(n, x)>> /\ t = <<Asked(m, y), Asked(o, z)>>
    BY ONLY <1>8, <2>2
  <2>4. Nodes(h) = <<n>>
    BY ONLY <2>3, NodesShort
  <2>5. Nodes(t) = <<m, o>>
    BY ONLY <2>3, NodesShort
  <2> QED
    BY ONLY <2>1, <2>4, <2>5
<1>10. e = h \o g \o t
  BY <1>1, <1>5, <1>7, <1>8 DEF EvaluateDirectionAndBlockers
<1>20. Listed(h) /\ Listed(g) /\ Listed(t)
  BY <1>6, <1>9
<1>11. Listed(h \o g \o t) /\ Nodes(h \o g \o t) = Nodes(h) \o Nodes(g) \o Nodes(t)
  BY ONLY <1>20, ThreeJoined
<1>12. Listed(Nodes(h)) /\ Listed(Nodes(t))
  BY <1>9, Short
<1>13. \A x : Times(Nodes(e), x) = Times(Nodes(h), x) + Times(f, x) + Times(Nodes(t), x)
  BY ONLY <1>6, <1>10, <1>11, <1>12, ThreeJoined
<1>14. \A x : Times(Nodes(h), x) = One(n, x)
  BY <1>9, Short
<1>15. \A x : Times(Nodes(t), x) = One(m, x) + One(o, x)
  <2>1. \A x : Times(<<m, o>>, x) = One(m, x) + One(o, x)
    BY ONLY Short
  <2> QED
    BY ONLY <1>9, <2>1
<1>16. \A x : One(n, x) \in Nat /\ One(m, x) \in Nat /\ One(o, x) \in Nat /\ Times(f, x) \in Nat
  BY <1>6, TimesIs DEF One
<1>17. \A x : Times(Nodes(e), x) = One(n, x) + Times(f, x) + One(m, x) + One(o, x)
  BY ONLY <1>13, <1>14, <1>15, <1>16
<1>18. f = BlockerPairs(spec, s)
  BY <1>1, <1>5 DEF BlockerPairs
<1>19. Listed(e) /\ Listed(Nodes(e))
  BY <1>10, <1>11, NodesListed
<1> QED
  BY <1>6, <1>7, <1>17, <1>18, <1>19

LEMMA SetupsAsked ==
  ASSUME NEW spec, SpecAssumed(spec), NEW s, NEW w, NEW e, e = EvaluateSetups(spec, s, w)
  PROVE  /\ Listed(e) /\ Listed(Nodes(e)) /\ Listed(SetupPairs(spec, s))
         /\ \A x : Times(Nodes(e), x) = Times(SetupPairs(spec, s), x)
                                        + One(SetupsNode(spec, s), x) + One(PreTriggerNode(spec, s), x)
<1>1. PICK items, aa, an :
        /\ items = spec.setups
        /\ aa = [i \in DOMAIN items |->
                   <<Asked(LocalNode(s), Local(w)),
                     Asked(FinalNode(spec, items[i], s), SetupAllowed(spec, items[i], s, w))>>]
        /\ an = [i \in DOMAIN items |-> <<LocalNode(s), FinalNode(spec, items[i], s)>>]
  OBVIOUS
<1>2. PICK p, q, c, d :
        /\ p = [i \in DOMAIN items |-> LocalNode(s)]
        /\ q = [i \in DOMAIN items |-> FinalNode(spec, items[i], s)]
        /\ c = [i \in DOMAIN items |-> Local(w)]
        /\ d = [i \in DOMAIN items |-> SetupAllowed(spec, items[i], s, w)]
  OBVIOUS
<1>3. Pairs(items, aa, an, p, q, c, d)
  BY <1>1, <1>2 DEF Pairs
<1>4. Listed(items)
  BY <1>1, ItemsListed
<1>5. PICK g, f : g = FlattenSeq(aa) /\ f = FlattenSeq(an)
  OBVIOUS
<1>6. Listed(g) /\ Listed(f) /\ Nodes(g) = f
  BY ONLY <1>3, <1>4, <1>5, PairsAsked
<1>7. PICK m, o : m = SetupsNode(spec, s) /\ o = PreTriggerNode(spec, s)
  OBVIOUS
<1>8. PICK t : t = <<Asked(m, SetupsOk(spec, s, w)), Asked(o, PreTrigger(spec, s, w))>>
  OBVIOUS
<1>9. Listed(t) /\ Nodes(t) = <<m, o>>
  <2>1. Listed(t)
    BY ONLY <1>8, Short
  <2>2. PICK x, y : x = SetupsOk(spec, s, w) /\ y = PreTrigger(spec, s, w)
    OBVIOUS
  <2>3. t = <<Asked(m, x), Asked(o, y)>>
    BY ONLY <1>8, <2>2
  <2>4. Nodes(t) = <<m, o>>
    BY ONLY <2>3, NodesShort
  <2> QED
    BY ONLY <2>1, <2>4
<1>10. e = g \o t
  BY <1>1, <1>5, <1>7, <1>8 DEF EvaluateSetups
<1>11. Listed(g \o t) /\ Nodes(g \o t) = Nodes(g) \o Nodes(t)
  BY ONLY <1>6, <1>9, TimesJoined, NodesJoined
<1>12. Listed(Nodes(t))
  BY <1>9, Short
<1>13. \A x : Times(Nodes(e), x) = Times(f, x) + Times(Nodes(t), x)
  BY ONLY <1>6, <1>10, <1>11, <1>12, TimesJoined
<1>15. \A x : Times(Nodes(t), x) = One(m, x) + One(o, x)
  <2>1. \A x : Times(<<m, o>>, x) = One(m, x) + One(o, x)
    BY ONLY Short
  <2> QED
    BY ONLY <1>9, <2>1
<1>16. \A x : One(m, x) \in Nat /\ One(o, x) \in Nat /\ Times(f, x) \in Nat
  BY <1>6, TimesIs DEF One
<1>17. \A x : Times(Nodes(e), x) = Times(f, x) + One(m, x) + One(o, x)
  BY ONLY <1>13, <1>15, <1>16
<1>18. f = SetupPairs(spec, s)
  BY <1>1, <1>5 DEF SetupPairs
<1>19. Listed(e) /\ Listed(Nodes(e))
  BY <1>10, <1>11, NodesListed
<1> QED
  BY <1>6, <1>7, <1>17, <1>18, <1>19

LEMMA TriggersAsked ==
  ASSUME NEW spec, NEW s, NEW w, NEW e, e = EvaluateTriggers(spec, s, w)
  PROVE  /\ Listed(e) /\ Listed(Nodes(e))
         /\ \A x : Times(Nodes(e), x) = One(TriggerNode(spec.trigger, s), x) + One(PreRiskNode(spec, s), x)
<1>1. PICK m, o : m = TriggerNode(spec.trigger, s) /\ o = PreRiskNode(spec, s)
  OBVIOUS
<1>2. e = <<Asked(m, Triggered(spec.trigger, s, w)), Asked(o, PreRisk(spec, s, w))>>
  BY <1>1 DEF EvaluateTriggers
<1>3. Listed(e) /\ Nodes(e) = <<m, o>>
  <2>1. Listed(e)
    BY <1>2, Short
  <2>2. Nodes(e) = <<m, o>>
    <3>1. PICK c, d : c = Triggered(spec.trigger, s, w) /\ d = PreRisk(spec, s, w)
      OBVIOUS
    <3>2. e = <<Asked(m, c), Asked(o, d)>>
      BY <1>2, <3>1
    <3> QED
      BY ONLY <3>2, NodesShort
  <2> QED
    BY <2>1, <2>2
<1>4. \A x : Times(<<m, o>>, x) = One(m, x) + One(o, x)
  BY ONLY Short
<1> QED
  BY <1>1, <1>3, <1>4, NodesListed

\* One side of the pre-pass predicts what its three stages ask for.
LEMMA SideAdds ==
  ASSUME NEW spec, SpecAssumed(spec), NEW s, NEW w
  PROVE  /\ Listed(SideMasks(spec, s))
         /\ \A x : Times(SideMasks(spec, s), x)
                     = Times(Nodes(EvaluateDirectionAndBlockers(spec, s, w)), x)
                       + Times(Nodes(EvaluateSetups(spec, s, w)), x) + Times(Nodes(EvaluateTriggers(spec, s, w)), x)
<1>1. PICK e, f, g : /\ e = EvaluateDirectionAndBlockers(spec, s, w) /\ f = EvaluateSetups(spec, s, w)
                     /\ g = EvaluateTriggers(spec, s, w)
  OBVIOUS
<1>2. PICK n1, n2, n3, n4, n5, n6, n7 :
        /\ n1 = DirectionNode(s) /\ n2 = BlockersNode(spec, s) /\ n3 = PreSetupNode(spec, s)
        /\ n4 = SetupsNode(spec, s) /\ n5 = PreTriggerNode(spec, s)
        /\ n6 = TriggerNode(spec.trigger, s) /\ n7 = PreRiskNode(spec, s)
  OBVIOUS
<1>3. PICK bp, sp : bp = BlockerPairs(spec, s) /\ sp = SetupPairs(spec, s)
  OBVIOUS
<1>4. /\ Listed(bp)
      /\ \A x : Times(Nodes(e), x) = One(n1, x) + Times(bp, x) + One(n2, x) + One(n3, x)
  BY <1>1, <1>2, <1>3, BlockersAsked
<1>5. /\ Listed(sp)
      /\ \A x : Times(Nodes(f), x) = Times(sp, x) + One(n4, x) + One(n5, x)
  BY <1>1, <1>2, <1>3, SetupsAsked
<1>6. \A x : Times(Nodes(g), x) = One(n6, x) + One(n7, x)
  BY <1>1, <1>2, TriggersAsked
<1>7. PICK a, b, c, d : a = <<n1>> /\ b = <<n2, n3>> /\ c = <<n4, n5, n6, n7>> /\ d = a \o bp \o b
  OBVIOUS
<1>8. SideMasks(spec, s) = d \o sp \o c
  BY <1>2, <1>3, <1>7 DEF SideMasks, BlockerPairs, SetupPairs
<1>9. Listed(a) /\ Listed(b) /\ Listed(c) /\ \A x : Times(a, x) = One(n1, x)
  BY <1>7, Short, FourListed
<1>10. \A x : Times(b, x) = One(n2, x) + One(n3, x)
  <2>1. \A x : Times(<<n2, n3>>, x) = One(n2, x) + One(n3, x)
    BY ONLY Short
  <2> QED
    BY ONLY <1>7, <2>1
<1>11. \A x : Times(c, x) = One(n4, x) + One(n5, x) + One(n6, x) + One(n7, x)
  <2>1. \A x : Times(<<n4, n5, n6, n7>>, x) = One(n4, x) + One(n5, x) + One(n6, x) + One(n7, x)
    BY ONLY FourListed
  <2> QED
    BY ONLY <1>7, <2>1
<1>12. Listed(d) /\ \A x : Times(d, x) = Times(a, x) + Times(bp, x) + Times(b, x)
  <2>1. Listed(a) /\ Listed(bp) /\ Listed(b) /\ d = a \o bp \o b
    BY <1>4, <1>7, <1>9
  <2> QED
    BY ONLY <2>1, ThreeJoined
<1>13. Listed(d \o sp \o c) /\ \A x : Times(d \o sp \o c, x) = Times(d, x) + Times(sp, x) + Times(c, x)
  BY ONLY <1>5, <1>9, <1>12, ThreeJoined
<1>14. \A m, x : One(m, x) \in Nat
  BY DEF One
<1>15. \A x : Times(bp, x) \in Nat /\ Times(sp, x) \in Nat
  BY <1>4, <1>5, TimesIs
<1>16. ASSUME NEW x PROVE Times(d \o sp \o c, x) = Times(Nodes(e), x) + Times(Nodes(f), x) + Times(Nodes(g), x)
  BY ONLY <1>4, <1>5, <1>6, <1>9, <1>10, <1>11, <1>12, <1>13, <1>14, <1>15
<1> QED
  BY ONLY <1>1, <1>8, <1>13, <1>16

\* The first n nodes p are asked for as a, with the columns c.
AskedFor(n, a, p, c) ==
    /\ a = [i \in 1..n |-> Asked(p[i], c[i])]
    /\ p = [i \in 1..n |-> p[i]]

LEMMA AskedForIs ==
  ASSUME NEW n \in Nat, NEW a, NEW p, NEW c, AskedFor(n, a, p, c)
  PROVE  Listed(a) /\ Listed(p) /\ Nodes(a) = p
<1>1. DOMAIN a = 1..n /\ \A i \in 1..n : a[i].node = p[i]
  BY DEF AskedFor, Asked
<1>2. Nodes(a) = p
  <2>1. Nodes(a) = [i \in 1..n |-> p[i]]
    BY <1>1 DEF Nodes
  <2> QED
    BY <2>1 DEF AskedFor
<1>3. Listed(a)
  <2>1. a = [i \in 1..n |-> a[i]]
    BY DEF AskedFor
  <2> QED
    BY <2>1, ListedFunction
<1>4. Listed(p)
  <2>1. p = [i \in 1..n |-> p[i]]
    BY DEF AskedFor
  <2> QED
    BY <2>1, ListedFunction
<1> QED
  BY <1>2, <1>3, <1>4

LEMMA TwoAsked ==
  ASSUME NEW a, NEW p, NEW c, AskedFor(2, a, p, c)
  PROVE  /\ Listed(a) /\ Listed(Nodes(a)) /\ Listed(p)
         /\ \A x : Times(Nodes(a), x) = One(p[1], x) + One(p[2], x)
<1>1. Listed(a) /\ Listed(p) /\ Nodes(a) = p
  BY AskedForIs
<1>2. p = [i \in 1..2 |-> p[i]]
  BY DEF AskedFor
<1> QED
  BY ONLY <1>1, <1>2, TwoListed

LEMMA ThreeAsked ==
  ASSUME NEW a, NEW p, NEW c, AskedFor(3, a, p, c)
  PROVE  /\ Listed(a) /\ Listed(Nodes(a)) /\ Listed(p)
         /\ \A x : Times(Nodes(a), x) = One(p[1], x) + One(p[2], x) + One(p[3], x)
<1>1. Listed(a) /\ Listed(p) /\ Nodes(a) = p
  BY AskedForIs
<1>2. p = [i \in 1..3 |-> p[i]]
  BY DEF AskedFor
<1> QED
  BY ONLY <1>1, <1>2, ThreeListed

\* A rule asks for what the pre-pass predicts of it, and so for all of them.
LEMMA RuleAsked ==
  ASSUME NEW spec, NEW r, NEW w
  PROVE  Listed(AskedRule(spec, r, w)) /\ Nodes(AskedRule(spec, r, w)) = RuleConsumptions(spec, r)
<1>1. CASE r.kind = "signal"
  <2>1. PICK a, p, c : /\ a = AskedRule(spec, r, w)
                       /\ p = [i \in 1..2 |-> SignalNode(spec, r, TwoSides[i])]
                       /\ c = [i \in 1..2 |-> Signal(spec, r, TwoSides[i], w)]
    OBVIOUS
  <2>2. a = [i \in 1..2 |-> Asked(SignalNode(spec, r, TwoSides[i]), Signal(spec, r, TwoSides[i], w))]
    BY <1>1, <2>1 DEF AskedRule
  <2>3. AskedFor(2, a, p, c)
    BY <2>1, <2>2 DEF AskedFor
  <2>4. p = RuleConsumptions(spec, r)
    BY <1>1, <2>1 DEF RuleConsumptions
  <2>5. 2 \in Nat
    OBVIOUS
  <2> QED
    BY ONLY <2>1, <2>3, <2>4, <2>5, AskedForIs
<1>2. CASE r.kind # "signal"
  <2>1. PICK n, c : n = DistanceNode(r) /\ c = <<Distance(r, w), Ratio(r, w)>>
    OBVIOUS
  <2>2. AskedRule(spec, r, w) = <<Asked(n, c)>> /\ RuleConsumptions(spec, r) = <<n>>
    BY <1>2, <2>1 DEF AskedRule, RuleConsumptions
  <2>3. Listed(<<Asked(n, c)>>)
    BY Short
  <2>4. Nodes(<<Asked(n, c)>>) = <<n>>
    BY ONLY NodesShort
  <2> QED
    BY <2>2, <2>3, <2>4
<1> QED
  BY <1>1, <1>2

LEMMA RulesAsked ==
  ASSUME NEW spec, SpecAssumed(spec), NEW w,
         NEW aa, aa = [i \in DOMAIN Rules(spec) |-> AskedRule(spec, Rules(spec)[i], w)],
         NEW cc, cc = [i \in DOMAIN Rules(spec) |-> RuleConsumptions(spec, Rules(spec)[i])]
  PROVE  /\ Listed(FlattenSeq(aa)) /\ Nodes(FlattenSeq(aa)) = FlattenSeq(cc) /\ Listed(FlattenSeq(cc))
<1>1. PICK rs : rs = Rules(spec)
  OBVIOUS
<1>2. PICK n : n \in Nat /\ DOMAIN rs = 1..n
  BY <1>1, ItemsListed, TimesIs
<1>3. aa = [i \in 1..n |-> aa[i]] /\ \A i \in 1..n : aa[i] = AskedRule(spec, rs[i], w)
  BY <1>1, <1>2
<1>4. \A i \in 1..n : Listed(aa[i])
  BY <1>3, RuleAsked
<1>5. Lists(aa) /\ DOMAIN aa = 1..n
  BY ONLY <1>2, <1>3, <1>4, Pieces
<1>6. cc = [i \in DOMAIN aa |-> Nodes(aa[i])]
  <2>1. \A i \in 1..n : Nodes(aa[i]) = RuleConsumptions(spec, rs[i])
    BY <1>3, RuleAsked
  <2> QED
    BY <1>1, <1>2, <1>5, <2>1
<1>7. Nodes(FlattenSeq(aa)) = FlattenSeq(cc)
  <2>1. Lists(aa)
    BY <1>5
  <2> QED
    BY ONLY <1>6, <2>1, NodesFlattened
<1>8. Listed(FlattenSeq(aa))
  BY <1>5, FlattenedListed
<1> QED
  BY <1>7, <1>8, NodesListed

\* What a profile is asked for apart from its readiness.
LEMMA ProfileAsked ==
  ASSUME NEW spec, NEW p, NEW w
  PROVE  /\ Listed(AskedProfile(spec, p, w)) /\ Listed(Nodes(AskedProfile(spec, p, w)))
         /\ Listed(ProfileConsumptions(spec, p))
         /\ \A x : Times(ProfileConsumptions(spec, p), x)
                     = Times(Nodes(AskedProfile(spec, p, w)), x) + One(ReadyNode(spec, p), x)
<1>1. PICK a, b, c, e : /\ a = [i \in 1..2 |-> Asked(SignalsNode(spec, p, TwoSides[i]), AnySignal(spec, p, TwoSides[i], w))]
                     /\ b = [k \in 1..2 |-> Asked(DistancesNode(spec, p, Kinds[k], "min_ratio"), RatioOf(spec, p, Kinds[k], w))]
                     /\ c = [k \in 1..2 |-> Asked(DistancesNode(spec, p, Kinds[k], "min_distance"),
                                                  DistanceOf(spec, p, Kinds[k], w))]
                     /\ e = AskedProfile(spec, p, w)
  OBVIOUS
<1>2. e = a \o b \o c
  BY <1>1 DEF AskedProfile
<1>3. PICK pa, pb, pc : /\ pa = [i \in 1..2 |-> SignalsNode(spec, p, TwoSides[i])]
                        /\ pb = [k \in 1..2 |-> DistancesNode(spec, p, Kinds[k], "min_ratio")]
                        /\ pc = [k \in 1..2 |-> DistancesNode(spec, p, Kinds[k], "min_distance")]
  OBVIOUS
<1>4. PICK ca, cb, cc : /\ ca = [i \in 1..2 |-> AnySignal(spec, p, TwoSides[i], w)]
                        /\ cb = [k \in 1..2 |-> RatioOf(spec, p, Kinds[k], w)]
                        /\ cc = [k \in 1..2 |-> DistanceOf(spec, p, Kinds[k], w)]
  OBVIOUS
<1>5. AskedFor(2, a, pa, ca) /\ AskedFor(2, b, pb, cb) /\ AskedFor(2, c, pc, cc)
  BY <1>1, <1>3, <1>4 DEF AskedFor
<1>6. /\ Listed(a) /\ Listed(Nodes(a)) /\ Listed(pa)
      /\ \A x : Times(Nodes(a), x) = One(pa[1], x) + One(pa[2], x)
  BY ONLY <1>5, TwoAsked
<1>7. /\ Listed(b) /\ Listed(Nodes(b))
      /\ \A x : Times(Nodes(b), x) = One(pb[1], x) + One(pb[2], x)
  BY ONLY <1>5, TwoAsked
<1>8. /\ Listed(c) /\ Listed(Nodes(c))
      /\ \A x : Times(Nodes(c), x) = One(pc[1], x) + One(pc[2], x)
  BY ONLY <1>5, TwoAsked
<1>9. Listed(e) /\ Nodes(e) = Nodes(a) \o Nodes(b) \o Nodes(c)
  BY ONLY <1>2, <1>6, <1>7, <1>8, ThreeJoined
<1>10. \A x : Times(Nodes(e), x) = Times(Nodes(a), x) + Times(Nodes(b), x) + Times(Nodes(c), x)
  BY ONLY <1>6, <1>7, <1>8, <1>9, ThreeJoined
<1>11. PICK m, ff, g, o : /\ m = ReadyNode(spec, p)
                          /\ ff = [f \in 1..2 |-> [k \in 1..2 |-> DistancesNode(spec, p, Kinds[k], Fields[f])]]
                          /\ g = FlattenSeq(ff) /\ o = <<m>>
  OBVIOUS
<1>12. Fields[1] = "min_ratio" /\ Fields[2] = "min_distance"
  BY DEF Fields
<1>13. ff[1] = pb /\ ff[2] = pc
  BY <1>3, <1>11, <1>12
<1>14. ff = [f \in 1..2 |-> ff[f]] /\ ff[1] = [k \in 1..2 |-> ff[1][k]] /\ ff[2] = [k \in 1..2 |-> ff[2][k]]
  BY <1>11
<1>15. Listed(g) /\ \A x : Times(g, x) = One(pb[1], x) + One(pb[2], x) + One(pc[1], x) + One(pc[2], x)
  <2>1. /\ Listed(FlattenSeq(ff))
        /\ \A x : Times(FlattenSeq(ff), x)
                    = One(ff[1][1], x) + One(ff[1][2], x) + One(ff[2][1], x) + One(ff[2][2], x)
    BY ONLY <1>14, FlattenedFour
  <2> QED
    BY ONLY <1>11, <1>13, <2>1
<1>16. Listed(o) /\ \A x : Times(o, x) = One(m, x)
  BY <1>11, Short
<1>17. \A x : Times(pa, x) = One(pa[1], x) + One(pa[2], x)
  <2>1. pa = [i \in 1..2 |-> pa[i]]
    BY <1>3
  <2> QED
    BY ONLY <2>1, TwoListed
<1>18. Listed(pa \o g \o o) /\ \A x : Times(pa \o g \o o, x) = Times(pa, x) + Times(g, x) + Times(o, x)
  BY ONLY <1>6, <1>15, <1>16, ThreeJoined
<1>19. ProfileConsumptions(spec, p) = pa \o g \o o
  BY <1>3, <1>11 DEF ProfileConsumptions
<1>20. \A n, x : One(n, x) \in Nat
  BY DEF One
<1>21. \A x : Times(pa \o g \o o, x) = Times(Nodes(e), x) + One(m, x)
  BY ONLY <1>6, <1>7, <1>8, <1>10, <1>15, <1>16, <1>17, <1>18, <1>20
<1>22. Listed(Nodes(e))
  BY <1>9, NodesListed
<1> QED
  BY ONLY <1>1, <1>9, <1>11, <1>18, <1>19, <1>21, <1>22

\* The six selections of one side.
SelectedTimes(spec, s, x) ==
    One(SignalSelectNode(spec, s), x) + One(ReadySelectNode(spec, s), x)
    + One(DistanceSelectNode(spec, s, "stop_loss", "min_ratio"), x)
    + One(DistanceSelectNode(spec, s, "take_profit", "min_ratio"), x)
    + One(DistanceSelectNode(spec, s, "stop_loss", "min_distance"), x)
    + One(DistanceSelectNode(spec, s, "take_profit", "min_distance"), x)

LEMMA SelectsPredicted ==
  ASSUME NEW spec, NEW s
  PROVE  /\ Listed(SelectConsumptions(spec, s))
         /\ \A x : Times(SelectConsumptions(spec, s), x) = SelectedTimes(spec, s, x)
<1>1. PICK m, o, a, ff, g : /\ m = SignalSelectNode(spec, s) /\ o = ReadySelectNode(spec, s) /\ a = <<m, o>>
                         /\ ff = [f \in 1..2 |-> [k \in 1..2 |-> DistanceSelectNode(spec, s, Kinds[k], Fields[f])]]
                         /\ g = FlattenSeq(ff)
  OBVIOUS
<1>2. ff = [f \in 1..2 |-> ff[f]] /\ ff[1] = [k \in 1..2 |-> ff[1][k]] /\ ff[2] = [k \in 1..2 |-> ff[2][k]]
  BY <1>1
<1>3. /\ Listed(g)
      /\ \A x : Times(g, x) = One(ff[1][1], x) + One(ff[1][2], x) + One(ff[2][1], x) + One(ff[2][2], x)
  <2>1. /\ Listed(FlattenSeq(ff))
        /\ \A x : Times(FlattenSeq(ff), x)
                    = One(ff[1][1], x) + One(ff[1][2], x) + One(ff[2][1], x) + One(ff[2][2], x)
    BY ONLY <1>2, FlattenedFour
  <2> QED
    BY ONLY <1>1, <2>1
<1>4. Listed(a) /\ \A x : Times(a, x) = One(m, x) + One(o, x)
  <2>1. Listed(<<m, o>>)
    BY ONLY Short
  <2>2. \A x : Times(<<m, o>>, x) = One(m, x) + One(o, x)
    BY ONLY Short
  <2> QED
    BY ONLY <1>1, <2>1, <2>2
<1>5. Listed(a \o g) /\ \A x : Times(a \o g, x) = Times(a, x) + Times(g, x)
  BY ONLY <1>3, <1>4, TimesJoined
<1>6. SelectConsumptions(spec, s) = a \o g
  BY <1>1 DEF SelectConsumptions
<1>7. /\ Fields[1] = "min_ratio" /\ Fields[2] = "min_distance"
      /\ Kinds[1] = "stop_loss" /\ Kinds[2] = "take_profit"
  BY DEF Fields, Kinds
<1>8. /\ ff[1][1] = DistanceSelectNode(spec, s, "stop_loss", "min_ratio")
      /\ ff[1][2] = DistanceSelectNode(spec, s, "take_profit", "min_ratio")
      /\ ff[2][1] = DistanceSelectNode(spec, s, "stop_loss", "min_distance")
      /\ ff[2][2] = DistanceSelectNode(spec, s, "take_profit", "min_distance")
  BY <1>1, <1>7
<1>9. \A n, x : One(n, x) \in Nat
  BY DEF One
<1>10. ASSUME NEW x PROVE Times(a \o g, x) = SelectedTimes(spec, s, x)
  <2>1. Times(a \o g, x) = One(m, x) + One(o, x) + One(ff[1][1], x) + One(ff[1][2], x)
                                     + One(ff[2][1], x) + One(ff[2][2], x)
    BY ONLY <1>3, <1>4, <1>5, <1>9
  <2> QED
    BY ONLY <1>1, <1>8, <2>1 DEF SelectedTimes
<1> QED
  BY ONLY <1>5, <1>6, <1>10

LEMMA ProfilesAsked ==
  ASSUME NEW spec, NEW w,
         NEW aa, aa = [i \in 1..3 |-> AskedProfile(spec, InOrder[i], w)],
         NEW cc, cc = [i \in 1..3 |-> ProfileConsumptions(spec, InOrder[i])],
         NEW r, r = [i \in 1..3 |-> ReadyNode(spec, InOrder[i])]
  PROVE  /\ Listed(FlattenSeq(aa)) /\ Listed(Nodes(FlattenSeq(aa))) /\ Listed(FlattenSeq(cc))
         /\ \A x : Times(FlattenSeq(cc), x)
                     = Times(Nodes(FlattenSeq(aa)), x) + One(r[1], x) + One(r[2], x) + One(r[3], x)
<1>1. PICK nn : nn = [i \in DOMAIN aa |-> Nodes(aa[i])]
  OBVIOUS
<1>2. \A i \in 1..3 : aa[i] = AskedProfile(spec, InOrder[i], w) /\ cc[i] = ProfileConsumptions(spec, InOrder[i])
                      /\ r[i] = ReadyNode(spec, InOrder[i])
  OBVIOUS
<1>3. \A i \in 1..3 : /\ Listed(aa[i]) /\ Listed(Nodes(aa[i])) /\ Listed(cc[i])
                      /\ \A x : Times(cc[i], x) = Times(Nodes(aa[i]), x) + One(r[i], x)
  BY <1>2, ProfileAsked
<1>4. /\ aa = [i \in 1..3 |-> aa[i]] /\ Listed(aa[1]) /\ Listed(aa[2]) /\ Listed(aa[3])
      /\ cc = [i \in 1..3 |-> cc[i]] /\ Listed(cc[1]) /\ Listed(cc[2]) /\ Listed(cc[3])
  BY <1>3
<1>5. nn = [i \in 1..3 |-> nn[i]] /\ nn[1] = Nodes(aa[1]) /\ nn[2] = Nodes(aa[2]) /\ nn[3] = Nodes(aa[3])
  BY <1>1
<1>6. Listed(nn[1]) /\ Listed(nn[2]) /\ Listed(nn[3])
  BY <1>3, <1>5
<1>7. Lists(aa) /\ Listed(FlattenSeq(aa))
  BY ONLY <1>4, FlattenedThree
<1>8. /\ Listed(FlattenSeq(cc))
      /\ \A x : Times(FlattenSeq(cc), x) = Times(cc[1], x) + Times(cc[2], x) + Times(cc[3], x)
  BY ONLY <1>4, FlattenedThree
<1>9. /\ Listed(FlattenSeq(nn))
      /\ \A x : Times(FlattenSeq(nn), x) = Times(nn[1], x) + Times(nn[2], x) + Times(nn[3], x)
  BY ONLY <1>5, <1>6, FlattenedThree
<1>10. Nodes(FlattenSeq(aa)) = FlattenSeq(nn)
  BY ONLY <1>1, <1>7, NodesFlattened
<1>11. ASSUME NEW x
       PROVE  Times(FlattenSeq(cc), x)
                = Times(Nodes(FlattenSeq(aa)), x) + One(r[1], x) + One(r[2], x) + One(r[3], x)
  <2>1. /\ Times(cc[1], x) = Times(nn[1], x) + One(r[1], x)
        /\ Times(cc[2], x) = Times(nn[2], x) + One(r[2], x)
        /\ Times(cc[3], x) = Times(nn[3], x) + One(r[3], x)
    BY <1>3, <1>5
  <2>2. Times(nn[1], x) \in Nat /\ Times(nn[2], x) \in Nat /\ Times(nn[3], x) \in Nat
    BY <1>6, TimesIs
  <2>3. \A n : One(n, x) \in Nat
    BY DEF One
  <2> QED
    BY ONLY <1>8, <1>9, <1>10, <2>1, <2>2, <2>3
<1> QED
  BY ONLY <1>7, <1>8, <1>9, <1>10, <1>11

\* The nodes p, then q, are asked for as aa.
AskedForBoth(aa, p, c, q, d) ==
    /\ aa = [k \in 1..2 |-> aa[k]]
    /\ AskedFor(2, aa[1], p, c) /\ AskedFor(2, aa[2], q, d)

LEMMA FourAsked ==
  ASSUME NEW aa, NEW p, NEW c, NEW q, NEW d, AskedForBoth(aa, p, c, q, d)
  PROVE  /\ Listed(FlattenSeq(aa)) /\ Listed(Nodes(FlattenSeq(aa)))
         /\ \A x : Times(Nodes(FlattenSeq(aa)), x) = One(p[1], x) + One(p[2], x) + One(q[1], x) + One(q[2], x)
<1>0. aa = [k \in 1..2 |-> aa[k]] /\ AskedFor(2, aa[1], p, c) /\ AskedFor(2, aa[2], q, d)
  BY DEF AskedForBoth
<1>1. PICK nn : nn = [i \in DOMAIN aa |-> Nodes(aa[i])]
  OBVIOUS
<1>2. /\ Listed(aa[1]) /\ Listed(Nodes(aa[1]))
      /\ \A x : Times(Nodes(aa[1]), x) = One(p[1], x) + One(p[2], x)
  BY <1>0, TwoAsked
<1>3. /\ Listed(aa[2]) /\ Listed(Nodes(aa[2]))
      /\ \A x : Times(Nodes(aa[2]), x) = One(q[1], x) + One(q[2], x)
  BY <1>0, TwoAsked
<1>4. nn = [k \in 1..2 |-> nn[k]] /\ nn[1] = Nodes(aa[1]) /\ nn[2] = Nodes(aa[2])
  BY <1>0, <1>1
<1>5. Lists(aa) /\ Listed(FlattenSeq(aa))
  BY <1>0, <1>2, <1>3, FlattenedTwo
<1>6. Listed(FlattenSeq(nn)) /\ \A x : Times(FlattenSeq(nn), x) = Times(nn[1], x) + Times(nn[2], x)
  BY ONLY <1>2, <1>3, <1>4, FlattenedTwo
<1>7. Nodes(FlattenSeq(aa)) = FlattenSeq(nn)
  BY ONLY <1>1, <1>5, NodesFlattened
<1>8. ASSUME NEW x
      PROVE  Times(Nodes(FlattenSeq(aa)), x) = One(p[1], x) + One(p[2], x) + One(q[1], x) + One(q[2], x)
  <2>1. \A n : One(n, x) \in Nat
    BY DEF One
  <2> QED
    BY ONLY <1>2, <1>3, <1>4, <1>6, <1>7, <2>1
<1> QED
  BY ONLY <1>5, <1>6, <1>7, <1>8

\* The selections, as the evaluation asks for them.
LEMMA SelectsAsked ==
  ASSUME NEW spec, NEW w,
         NEW a, a = [i \in 1..2 |-> AskedSignal(spec, TwoSides[i], w)],
         NEW b, b = FlattenSeq([k \in 1..2 |-> [i \in 1..2 |-> AskedRatio(spec, Kinds[k], TwoSides[i], w)]]),
         NEW c, c = FlattenSeq([k \in 1..2 |-> [i \in 1..2 |-> AskedDistance(spec, Kinds[k], TwoSides[i], w)]]),
         NEW d, d = [i \in 1..2 |-> AskedReady(spec, TwoSides[i], w)]
  PROVE  /\ Listed(a) /\ Listed(b) /\ Listed(c) /\ Listed(d)
         /\ \A x : Times(Nodes(a), x) + Times(Nodes(b), x) + Times(Nodes(c), x) + Times(Nodes(d), x)
                     = SelectedTimes(spec, "long", x) + SelectedTimes(spec, "short", x)
<1>0. /\ TwoSides[1] = "long" /\ TwoSides[2] = "short"
      /\ Kinds[1] = "stop_loss" /\ Kinds[2] = "take_profit"
  BY DEF TwoSides, Kinds
<1>1. PICK pa, ca : /\ pa = [i \in 1..2 |-> SignalSelectNode(spec, TwoSides[i])]
                    /\ ca = [i \in 1..2 |-> SelectedSignal(spec, TwoSides[i], w)]
  OBVIOUS
<1>2. AskedFor(2, a, pa, ca)
  BY <1>1 DEF AskedFor, AskedSignal
<1>3. PICK pd, cd : /\ pd = [i \in 1..2 |-> ReadySelectNode(spec, TwoSides[i])]
                    /\ cd = [i \in 1..2 |-> SelectedReady(spec, TwoSides[i], w)]
  OBVIOUS
<1>4. AskedFor(2, d, pd, cd)
  BY <1>3 DEF AskedFor, AskedReady
<1>5. PICK bb, pb, cb, qb, db :
         /\ bb = [k \in 1..2 |-> [i \in 1..2 |-> AskedRatio(spec, Kinds[k], TwoSides[i], w)]]
         /\ pb = [i \in 1..2 |-> DistanceSelectNode(spec, TwoSides[i], "stop_loss", "min_ratio")]
         /\ cb = [i \in 1..2 |-> SelectedRatio(spec, "stop_loss", TwoSides[i], w)]
         /\ qb = [i \in 1..2 |-> DistanceSelectNode(spec, TwoSides[i], "take_profit", "min_ratio")]
         /\ db = [i \in 1..2 |-> SelectedRatio(spec, "take_profit", TwoSides[i], w)]
  OBVIOUS
<1>6. AskedForBoth(bb, pb, cb, qb, db)
  <2>1. bb[1] = [i \in 1..2 |-> AskedRatio(spec, "stop_loss", TwoSides[i], w)]
    BY <1>0, <1>5
  <2>2. bb[2] = [i \in 1..2 |-> AskedRatio(spec, "take_profit", TwoSides[i], w)]
    BY <1>0, <1>5
  <2>3. AskedFor(2, bb[1], pb, cb)
    BY <1>5, <2>1 DEF AskedFor, AskedRatio
  <2>4. AskedFor(2, bb[2], qb, db)
    BY <1>5, <2>2 DEF AskedFor, AskedRatio
  <2>5. bb = [k \in 1..2 |-> bb[k]]
    BY <1>5
  <2> QED
    BY <2>3, <2>4, <2>5 DEF AskedForBoth
<1>7. PICK ee, pe, ce, qe, de :
         /\ ee = [k \in 1..2 |-> [i \in 1..2 |-> AskedDistance(spec, Kinds[k], TwoSides[i], w)]]
         /\ pe = [i \in 1..2 |-> DistanceSelectNode(spec, TwoSides[i], "stop_loss", "min_distance")]
         /\ ce = [i \in 1..2 |-> SelectedDistance(spec, "stop_loss", TwoSides[i], w)]
         /\ qe = [i \in 1..2 |-> DistanceSelectNode(spec, TwoSides[i], "take_profit", "min_distance")]
         /\ de = [i \in 1..2 |-> SelectedDistance(spec, "take_profit", TwoSides[i], w)]
  OBVIOUS
<1>8. AskedForBoth(ee, pe, ce, qe, de)
  <2>1. ee[1] = [i \in 1..2 |-> AskedDistance(spec, "stop_loss", TwoSides[i], w)]
    BY <1>0, <1>7
  <2>2. ee[2] = [i \in 1..2 |-> AskedDistance(spec, "take_profit", TwoSides[i], w)]
    BY <1>0, <1>7
  <2>3. AskedFor(2, ee[1], pe, ce)
    BY <1>7, <2>1 DEF AskedFor, AskedDistance
  <2>4. AskedFor(2, ee[2], qe, de)
    BY <1>7, <2>2 DEF AskedFor, AskedDistance
  <2>5. ee = [k \in 1..2 |-> ee[k]]
    BY <1>7
  <2> QED
    BY <2>3, <2>4, <2>5 DEF AskedForBoth
<1>9. Listed(a) /\ \A x : Times(Nodes(a), x) = One(pa[1], x) + One(pa[2], x)
  BY ONLY <1>2, TwoAsked
<1>10. Listed(d) /\ \A x : Times(Nodes(d), x) = One(pd[1], x) + One(pd[2], x)
  BY ONLY <1>4, TwoAsked
<1>11. Listed(b) /\ \A x : Times(Nodes(b), x) = One(pb[1], x) + One(pb[2], x) + One(qb[1], x) + One(qb[2], x)
  <2>1. b = FlattenSeq(bb)
    BY <1>5
  <2> QED
    BY ONLY <1>6, <2>1, FourAsked
<1>12. Listed(c) /\ \A x : Times(Nodes(c), x) = One(pe[1], x) + One(pe[2], x) + One(qe[1], x) + One(qe[2], x)
  <2>1. c = FlattenSeq(ee)
    BY <1>7
  <2> QED
    BY ONLY <1>8, <2>1, FourAsked
<1>13. /\ pa[1] = SignalSelectNode(spec, "long") /\ pa[2] = SignalSelectNode(spec, "short")
       /\ pd[1] = ReadySelectNode(spec, "long") /\ pd[2] = ReadySelectNode(spec, "short")
  BY <1>0, <1>1, <1>3
<1>14. /\ pb[1] = DistanceSelectNode(spec, "long", "stop_loss", "min_ratio")
       /\ pb[2] = DistanceSelectNode(spec, "short", "stop_loss", "min_ratio")
       /\ qb[1] = DistanceSelectNode(spec, "long", "take_profit", "min_ratio")
       /\ qb[2] = DistanceSelectNode(spec, "short", "take_profit", "min_ratio")
  BY <1>0, <1>5
<1>15. /\ pe[1] = DistanceSelectNode(spec, "long", "stop_loss", "min_distance")
       /\ pe[2] = DistanceSelectNode(spec, "short", "stop_loss", "min_distance")
       /\ qe[1] = DistanceSelectNode(spec, "long", "take_profit", "min_distance")
       /\ qe[2] = DistanceSelectNode(spec, "short", "take_profit", "min_distance")
  BY <1>0, <1>7
<1>16. ASSUME NEW x
       PROVE  Times(Nodes(a), x) + Times(Nodes(b), x) + Times(Nodes(c), x) + Times(Nodes(d), x)
                = SelectedTimes(spec, "long", x) + SelectedTimes(spec, "short", x)
  <2>1. \A n : One(n, x) \in Nat
    BY DEF One
  <2>2. SelectedTimes(spec, "long", x) = One(pa[1], x) + One(pd[1], x) + One(pb[1], x) + One(qb[1], x)
                                         + One(pe[1], x) + One(qe[1], x)
    BY ONLY <1>13, <1>14, <1>15 DEF SelectedTimes
  <2>3. SelectedTimes(spec, "short", x) = One(pa[2], x) + One(pd[2], x) + One(pb[2], x) + One(qb[2], x)
                                          + One(pe[2], x) + One(qe[2], x)
    BY ONLY <1>13, <1>14, <1>15 DEF SelectedTimes
  <2> QED
    BY ONLY <1>9, <1>10, <1>11, <1>12, <2>1, <2>2, <2>3
<1> QED
  BY ONLY <1>9, <1>10, <1>11, <1>12, <1>16

\* The exit policy asks for what the pre-pass predicts of it, in another order.
LEMMA ExitsAdd ==
  ASSUME NEW spec, SpecAssumed(spec), NEW w, NEW e, e = EvaluateExitPolicy(spec, w)
  PROVE  /\ Listed(e) /\ Listed(Nodes(e)) /\ Listed(ExitConsumptions(spec))
         /\ \A x : Times(ExitConsumptions(spec), x) = Times(Nodes(e), x)
<1>1. PICK ra, rc : /\ ra = [i \in DOMAIN Rules(spec) |-> AskedRule(spec, Rules(spec)[i], w)]
                    /\ rc = [i \in DOMAIN Rules(spec) |-> RuleConsumptions(spec, Rules(spec)[i])]
  OBVIOUS
<1>2. PICK pa, pc, r : /\ pa = [i \in 1..3 |-> AskedProfile(spec, InOrder[i], w)]
                       /\ pc = [i \in 1..3 |-> ProfileConsumptions(spec, InOrder[i])]
                       /\ r = [i \in 1..3 |-> ReadyNode(spec, InOrder[i])]
  OBVIOUS
<1>3. PICK a, b, c, d :
         /\ a = [i \in 1..2 |-> AskedSignal(spec, TwoSides[i], w)]
         /\ b = FlattenSeq([k \in 1..2 |-> [i \in 1..2 |-> AskedRatio(spec, Kinds[k], TwoSides[i], w)]])
         /\ c = FlattenSeq([k \in 1..2 |-> [i \in 1..2 |-> AskedDistance(spec, Kinds[k], TwoSides[i], w)]])
         /\ d = [i \in 1..2 |-> AskedReady(spec, TwoSides[i], w)]
  OBVIOUS
<1>4. PICK f, g, h : /\ f = FlattenSeq(ra) /\ g = FlattenSeq(pa)
                     /\ h = [i \in 1..3 |-> Asked(ReadyNode(spec, InOrder[i]), Ready(spec, InOrder[i], w))]
  OBVIOUS
<1>5. PICK fc, gc, sc : /\ fc = FlattenSeq(rc) /\ gc = FlattenSeq(pc)
                        /\ sc = FlattenSeq([i \in 1..2 |-> SelectConsumptions(spec, TwoSides[i])])
  OBVIOUS
<1>6. PICK u, v, z : u = f \o g \o a /\ v = u \o b \o c /\ z = v \o h \o d
  OBVIOUS
<1>7. e = z
  BY <1>1, <1>2, <1>3, <1>4, <1>6 DEF EvaluateExitPolicy
<1>8. ExitConsumptions(spec) = fc \o gc \o sc
  BY <1>1, <1>2, <1>5 DEF ExitConsumptions
<1>9. Listed(f) /\ Nodes(f) = fc /\ Listed(fc)
  BY <1>1, <1>4, <1>5, RulesAsked
<1>10. /\ Listed(g) /\ Listed(Nodes(g)) /\ Listed(gc)
       /\ \A x : Times(gc, x) = Times(Nodes(g), x) + One(r[1], x) + One(r[2], x) + One(r[3], x)
  BY ONLY <1>2, <1>4, <1>5, ProfilesAsked
<1>11. /\ Listed(a) /\ Listed(b) /\ Listed(c) /\ Listed(d)
       /\ \A x : Times(Nodes(a), x) + Times(Nodes(b), x) + Times(Nodes(c), x) + Times(Nodes(d), x)
                   = SelectedTimes(spec, "long", x) + SelectedTimes(spec, "short", x)
  BY ONLY <1>3, SelectsAsked
<1>12. Listed(h) /\ \A x : Times(Nodes(h), x) = One(r[1], x) + One(r[2], x) + One(r[3], x)
  <2>1. PICK k : k = [i \in 1..3 |-> Ready(spec, InOrder[i], w)]
    OBVIOUS
  <2>2. AskedFor(3, h, r, k)
    BY <1>2, <1>4, <2>1 DEF AskedFor
  <2> QED
    BY ONLY <2>2, ThreeAsked
<1>13. Listed(sc) /\ \A x : Times(sc, x) = SelectedTimes(spec, "long", x) + SelectedTimes(spec, "short", x)
  <2>1. PICK ss : ss = [i \in 1..2 |-> SelectConsumptions(spec, TwoSides[i])]
    OBVIOUS
  <2>2. /\ ss = [i \in 1..2 |-> ss[i]]
        /\ ss[1] = SelectConsumptions(spec, "long") /\ ss[2] = SelectConsumptions(spec, "short")
    BY <2>1 DEF TwoSides
  <2>3. Listed(ss[1]) /\ Listed(ss[2])
    BY <2>2, SelectsPredicted
  <2>4. Listed(FlattenSeq(ss)) /\ \A x : Times(FlattenSeq(ss), x) = Times(ss[1], x) + Times(ss[2], x)
    BY ONLY <2>2, <2>3, FlattenedTwo
  <2>5. \A x : Times(ss[1], x) = SelectedTimes(spec, "long", x) /\ Times(ss[2], x) = SelectedTimes(spec, "short", x)
    BY <2>2, SelectsPredicted
  <2> QED
    BY <1>5, <2>1, <2>4, <2>5
<1>14. Listed(u) /\ Nodes(u) = Nodes(f) \o Nodes(g) \o Nodes(a)
  <2>1. Listed(f) /\ Listed(g) /\ Listed(a)
    BY ONLY <1>9, <1>10, <1>11
  <2> QED
    BY ONLY <1>6, <2>1, ThreeJoined
<1>15. Listed(v) /\ Nodes(v) = Nodes(u) \o Nodes(b) \o Nodes(c)
  <2>1. Listed(u) /\ Listed(b) /\ Listed(c)
    BY ONLY <1>11, <1>14
  <2> QED
    BY ONLY <1>6, <2>1, ThreeJoined
<1>16. Listed(z) /\ Nodes(z) = Nodes(v) \o Nodes(h) \o Nodes(d)
  <2>1. Listed(v) /\ Listed(h) /\ Listed(d)
    BY ONLY <1>11, <1>12, <1>15
  <2> QED
    BY ONLY <1>6, <2>1, ThreeJoined
<1>17. /\ Listed(Nodes(f)) /\ Listed(Nodes(g)) /\ Listed(Nodes(a)) /\ Listed(Nodes(b)) /\ Listed(Nodes(c))
       /\ Listed(Nodes(d)) /\ Listed(Nodes(h)) /\ Listed(Nodes(u)) /\ Listed(Nodes(v)) /\ Listed(Nodes(z))
  BY ONLY <1>9, <1>10, <1>11, <1>12, <1>14, <1>15, <1>16, NodesListed
<1>18. \A x : Times(Nodes(u), x) = Times(Nodes(f), x) + Times(Nodes(g), x) + Times(Nodes(a), x)
  BY ONLY <1>14, <1>17, ThreeJoined
<1>19. \A x : Times(Nodes(v), x) = Times(Nodes(u), x) + Times(Nodes(b), x) + Times(Nodes(c), x)
  BY ONLY <1>15, <1>17, ThreeJoined
<1>20. \A x : Times(Nodes(z), x) = Times(Nodes(v), x) + Times(Nodes(h), x) + Times(Nodes(d), x)
  BY ONLY <1>16, <1>17, ThreeJoined
<1>21. Listed(fc \o gc \o sc) /\ \A x : Times(fc \o gc \o sc, x) = Times(fc, x) + Times(gc, x) + Times(sc, x)
  BY ONLY <1>9, <1>10, <1>13, ThreeJoined
<1>22. ASSUME NEW x PROVE Times(fc \o gc \o sc, x) = Times(Nodes(z), x)
  <2>1. /\ Times(Nodes(f), x) \in Nat /\ Times(Nodes(g), x) \in Nat /\ Times(Nodes(a), x) \in Nat
        /\ Times(Nodes(b), x) \in Nat /\ Times(Nodes(c), x) \in Nat /\ Times(Nodes(d), x) \in Nat
        /\ Times(Nodes(h), x) \in Nat
    BY <1>17, TimesIs
  <2>2. \A n : One(n, x) \in Nat
    BY DEF One
  <2>3. /\ Times(Nodes(z), x) = Times(Nodes(f), x) + Times(Nodes(g), x) + Times(Nodes(a), x) + Times(Nodes(b), x)
                                + Times(Nodes(c), x) + Times(Nodes(h), x) + Times(Nodes(d), x)
    BY ONLY <1>18, <1>19, <1>20, <2>1
  <2>4. Times(fc \o gc \o sc, x) = Times(Nodes(f), x) + Times(Nodes(g), x) + Times(Nodes(h), x) + Times(sc, x)
    BY ONLY <1>9, <1>10, <1>12, <1>21, <2>1, <2>2
  <2>5. Times(sc, x) = Times(Nodes(a), x) + Times(Nodes(b), x) + Times(Nodes(c), x) + Times(Nodes(d), x)
    BY ONLY <1>11, <1>13
  <2> QED
    BY ONLY <2>1, <2>3, <2>4, <2>5
<1> QED
  BY ONLY <1>7, <1>8, <1>16, <1>17, <1>21, <1>22

\* The three stages of an evaluation, side by side.
LEMMA StagesAdd ==
  ASSUME NEW spec, SpecAssumed(spec), NEW w,
         NEW e, e = FlattenSeq([i \in DOMAIN spec.sides |-> EvaluateDirectionAndBlockers(spec, spec.sides[i], w)]),
         NEW f, f = FlattenSeq([i \in DOMAIN spec.sides |-> EvaluateSetups(spec, spec.sides[i], w)]),
         NEW g, g = FlattenSeq([i \in DOMAIN spec.sides |-> EvaluateTriggers(spec, spec.sides[i], w)]),
         NEW p, p = FlattenSeq([i \in DOMAIN spec.sides |-> SideMasks(spec, spec.sides[i])])
  PROVE  /\ Listed(e) /\ Listed(f) /\ Listed(g) /\ Listed(p)
         /\ Listed(Nodes(e)) /\ Listed(Nodes(f)) /\ Listed(Nodes(g))
         /\ \A x : Times(p, x) = Times(Nodes(e), x) + Times(Nodes(f), x) + Times(Nodes(g), x)
<1>1. PICK n : n \in Nat /\ DOMAIN spec.sides = 1..n
  BY ItemsListed, TimesIs
<1>2. PICK ee, ff, gg, pp :
         /\ ee = [i \in 1..n |-> EvaluateDirectionAndBlockers(spec, spec.sides[i], w)]
         /\ ff = [i \in 1..n |-> EvaluateSetups(spec, spec.sides[i], w)]
         /\ gg = [i \in 1..n |-> EvaluateTriggers(spec, spec.sides[i], w)]
         /\ pp = [i \in 1..n |-> SideMasks(spec, spec.sides[i])]
  OBVIOUS
<1>3. e = FlattenSeq(ee) /\ f = FlattenSeq(ff) /\ g = FlattenSeq(gg) /\ p = FlattenSeq(pp)
  BY <1>1, <1>2
<1>4. \A i \in 1..n : /\ ee[i] = EvaluateDirectionAndBlockers(spec, spec.sides[i], w)
                      /\ ff[i] = EvaluateSetups(spec, spec.sides[i], w)
                      /\ gg[i] = EvaluateTriggers(spec, spec.sides[i], w)
                      /\ pp[i] = SideMasks(spec, spec.sides[i])
  BY <1>2
<1>5. /\ ee = [i \in 1..n |-> ee[i]] /\ ff = [i \in 1..n |-> ff[i]]
      /\ gg = [i \in 1..n |-> gg[i]] /\ pp = [i \in 1..n |-> pp[i]]
  BY <1>2
<1>6. \A i \in 1..n : Listed(ee[i])
  BY <1>4, BlockersAsked
<1>7. \A i \in 1..n : Listed(ff[i])
  BY <1>4, SetupsAsked
<1>8. \A i \in 1..n : Listed(gg[i])
  BY <1>4, TriggersAsked
<1>9. \A i \in 1..n : Listed(pp[i])
  BY <1>4, SideAdds
<1>10. Lists(ee) /\ Len(ee) = n /\ DOMAIN ee = 1..n
  BY ONLY <1>1, <1>5, <1>6, Pieces
<1>11. Lists(ff) /\ Len(ff) = n /\ DOMAIN ff = 1..n
  BY ONLY <1>1, <1>5, <1>7, Pieces
<1>12. Lists(gg) /\ Len(gg) = n /\ DOMAIN gg = 1..n
  BY ONLY <1>1, <1>5, <1>8, Pieces
<1>13. Lists(pp) /\ Len(pp) = n
  BY ONLY <1>1, <1>5, <1>9, Pieces
<1>14. PICK en, fn, gn : /\ en = [i \in DOMAIN ee |-> Nodes(ee[i])]
                         /\ fn = [i \in DOMAIN ff |-> Nodes(ff[i])]
                         /\ gn = [i \in DOMAIN gg |-> Nodes(gg[i])]
  OBVIOUS
<1>15. Nodes(e) = FlattenSeq(en) /\ Lists(en) /\ Len(en) = n
  BY ONLY <1>3, <1>10, <1>14, NodesFlattened
<1>16. Nodes(f) = FlattenSeq(fn) /\ Lists(fn) /\ Len(fn) = n
  BY ONLY <1>3, <1>11, <1>14, NodesFlattened
<1>17. Nodes(g) = FlattenSeq(gn) /\ Lists(gn) /\ Len(gn) = n
  BY ONLY <1>3, <1>12, <1>14, NodesFlattened
<1>18. ASSUME NEW x PROVE Times(p, x) = Times(Nodes(e), x) + Times(Nodes(f), x) + Times(Nodes(g), x)
  <2>1. ASSUME NEW i \in 1..n PROVE Times(pp[i], x) = Times(en[i], x) + Times(fn[i], x) + Times(gn[i], x)
    <3>1. PICK s : s = spec.sides[i]
      OBVIOUS
    <3>2. /\ pp[i] = SideMasks(spec, s) /\ en[i] = Nodes(EvaluateDirectionAndBlockers(spec, s, w))
          /\ fn[i] = Nodes(EvaluateSetups(spec, s, w)) /\ gn[i] = Nodes(EvaluateTriggers(spec, s, w))
      BY <1>4, <1>10, <1>11, <1>12, <1>14, <3>1
    <3> QED
      BY <3>2, SideAdds
  <2>2. Sums(pp, en, fn, gn, n, x)
    BY <1>13, <1>15, <1>16, <1>17, <2>1 DEF Sums
  <2>3. Times(FlattenSeq(pp), x) = Times(FlattenSeq(en), x) + Times(FlattenSeq(fn), x) + Times(FlattenSeq(gn), x)
    BY ONLY <2>2, FlattenedSums
  <2> QED
    BY <1>3, <1>15, <1>16, <1>17, <2>3
<1>19. Listed(e) /\ Listed(f) /\ Listed(g) /\ Listed(p)
  BY ONLY <1>3, <1>10, <1>11, <1>12, <1>13, FlattenedListed
<1> QED
  BY ONLY <1>18, <1>19, NodesListed

\* So does the evaluation.
LEMMA EvaluationAdds ==
  ASSUME NEW spec, SpecAssumed(spec), NEW w
  PROVE  /\ Listed(Evaluation(spec, w)) /\ Listed(Nodes(Evaluation(spec, w))) /\ Listed(Predicted(spec))
         /\ \A x : Times(Nodes(Evaluation(spec, w)), x) = Times(Predicted(spec), x)
<1>1. PICK e, f, g, p :
         /\ e = FlattenSeq([i \in DOMAIN spec.sides |-> EvaluateDirectionAndBlockers(spec, spec.sides[i], w)])
         /\ f = FlattenSeq([i \in DOMAIN spec.sides |-> EvaluateSetups(spec, spec.sides[i], w)])
         /\ g = FlattenSeq([i \in DOMAIN spec.sides |-> EvaluateTriggers(spec, spec.sides[i], w)])
         /\ p = FlattenSeq([i \in DOMAIN spec.sides |-> SideMasks(spec, spec.sides[i])])
  OBVIOUS
<1>2. PICK h, c, u : /\ h = IF DistinctInstances(spec) THEN EvaluateExitPolicy(spec, w) ELSE <<>>
                     /\ c = IF DistinctInstances(spec) THEN ExitConsumptions(spec) ELSE <<>>
                     /\ u = e \o f \o g
  OBVIOUS
<1>3. Evaluation(spec, w) = u \o h /\ Predicted(spec) = p \o c
  BY <1>1, <1>2 DEF Evaluation, Predicted
<1>4. /\ Listed(e) /\ Listed(f) /\ Listed(g) /\ Listed(p)
      /\ Listed(Nodes(e)) /\ Listed(Nodes(f)) /\ Listed(Nodes(g))
      /\ \A x : Times(p, x) = Times(Nodes(e), x) + Times(Nodes(f), x) + Times(Nodes(g), x)
  BY ONLY <1>1, SpecAssumed(spec), StagesAdd
<1>5. Listed(h) /\ Listed(Nodes(h)) /\ Listed(c) /\ \A x : Times(c, x) = Times(Nodes(h), x)
  <2>1. CASE DistinctInstances(spec)
    BY <1>2, <2>1, ExitsAdd
  <2>2. CASE ~ DistinctInstances(spec)
    <3>1. h = <<>> /\ c = <<>>
      BY <1>2, <2>2
    <3>2. Nodes(<<>>) = <<>>
      BY DEF Nodes
    <3> QED
      BY <3>1, <3>2, Short
  <2> QED
    BY <2>1, <2>2
<1>6. Listed(u) /\ Nodes(u) = Nodes(e) \o Nodes(f) \o Nodes(g)
  BY ONLY <1>2, <1>4, ThreeJoined
<1>7. Listed(Nodes(u)) /\ \A x : Times(Nodes(u), x) = Times(Nodes(e), x) + Times(Nodes(f), x) + Times(Nodes(g), x)
  BY ONLY <1>4, <1>6, NodesListed, ThreeJoined
<1>8. Listed(u \o h) /\ Nodes(u \o h) = Nodes(u) \o Nodes(h)
  BY ONLY <1>5, <1>6, TimesJoined, NodesJoined
<1>9. \A x : Times(Nodes(u \o h), x) = Times(Nodes(u), x) + Times(Nodes(h), x)
  BY ONLY <1>5, <1>7, <1>8, TimesJoined
<1>10. Listed(p \o c) /\ \A x : Times(p \o c, x) = Times(p, x) + Times(c, x)
  BY ONLY <1>4, <1>5, TimesJoined
<1>11. \A x : Times(Nodes(u \o h), x) = Times(p \o c, x)
  BY ONLY <1>4, <1>5, <1>7, <1>9, <1>10
<1> QED
  BY <1>3, <1>8, <1>10, <1>11, NodesListed

\* For every specification and every history, the evaluation asks the context
\* for exactly the nodes, as often, as the pre-pass counts for it, although it
\* goes stage by stage and rule by rule and the pre-pass side by side and
\* profile by profile.  The batch drops a memoized column when the predicted
\* uses are up (memoized_stage_consumptions).
THEOREM PrepassPredicts == Spec => []ConsumedAsPredicted
<1>1. ConsumedAsPredicted
  <2> SUFFICES ASSUME NEW spec \in Specs
               PROVE  LET evaluation == Evaluation(spec, World)
                          asked == [i \in DOMAIN evaluation |-> evaluation[i].node]
                          predicted == Predicted(spec)
                          times(nodes, x) == Cardinality({i \in DOMAIN nodes : nodes[i] = x})
                      IN  \A x : times(asked, x) = times(predicted, x)
    BY DEF ConsumedAsPredicted
  <2>1. SpecAssumed(spec)
    BY EntryAssumption
  <2>2. \A x : Times(Nodes(Evaluation(spec, World)), x) = Times(Predicted(spec), x)
    BY <2>1, EvaluationAdds
  <2> QED
    BY <2>2 DEF Times, Nodes
<1> QED
  BY <1>1, PTL

--------------------------------------------------------------------------------
(* Nodes of contexts, gates and profiles. *)

\* What a node is made of can be read from it.
LEMMA NodeIs ==
  ASSUME NEW k, NEW p, NEW u, NEW s
  PROVE  /\ Node(k, p, u, s)[1] = k /\ Node(k, p, u, s)[2] = p
         /\ Node(k, p, u, s)[3] = u /\ Node(k, p, u, s)[4] = s
BY DEF Node

LEMMA NodesEqual ==
  ASSUME NEW k, NEW p, NEW u, NEW s, NEW l, NEW q, NEW v, NEW z, Node(k, p, u, s) = Node(l, q, v, z)
  PROVE  k = l /\ p = q /\ u = v /\ s = z
BY NodeIs

LEMMA FeatureSame ==
  ASSUME NEW c, NEW d, FeatureNode(c) = FeatureNode(d)
  PROVE  c = d
<1>1. <<c>> = <<d>>
  BY NodesEqual DEF FeatureNode
<1> QED
  BY <1>1

\* What a context says by the columns it reads.
StateOf(fast, anchor, slow, w) ==
    [t \in Bars(w) |->
        IF None \in {fast, anchor, slow} THEN "neutral"
        ELSE IF Over(At(w, fast, t), At(w, anchor, t)) /\ Over(At(w, anchor, t), At(w, slow, t)) THEN "up"
        ELSE IF Over(At(w, anchor, t), At(w, fast, t)) /\ Over(At(w, slow, t), At(w, anchor, t)) THEN "down"
        ELSE "neutral"]

\* Equal nodes of contexts stand for one column of states, whatever the references.
LEMMA ContextSame ==
  ASSUME NEW spec \in Specs, NEW other \in Specs, NEW ref \in Consumed(spec), NEW of \in Consumed(other), NEW w,
         EntryContextNode(spec, ref) = EntryContextNode(other, of)
  PROVE  ContextState(spec, ref, w) = ContextState(other, of, w)
<1> DEFINE Named(c) == IF c = None THEN None ELSE FeatureNode(c)
<1>1. PICK c, d : c = spec.contexts[ref] /\ d = other.contexts[of]
  OBVIOUS
<1>2. /\ EntryContextNode(spec, ref)
           = Node("htf_context", <<>>, <<Named(c.fast), Named(c.anchor), Named(c.slow)>>, None)
      /\ EntryContextNode(other, of)
           = Node("htf_context", <<>>, <<Named(d.fast), Named(d.anchor), Named(d.slow)>>, None)
  BY <1>1 DEF EntryContextNode
<1> HIDE DEF Named
<1>3. <<Named(c.fast), Named(c.anchor), Named(c.slow)>> = <<Named(d.fast), Named(d.anchor), Named(d.slow)>>
  BY ONLY <1>2, EntryContextNode(spec, ref) = EntryContextNode(other, of), NodesEqual
<1>4. Named(c.fast) = Named(d.fast) /\ Named(c.anchor) = Named(d.anchor) /\ Named(c.slow) = Named(d.slow)
  BY ONLY <1>3
<1>5. /\ \A name \in {c.fast, c.anchor, c.slow} : FeatureNode(name) # None
      /\ \A name \in {d.fast, d.anchor, d.slow} : FeatureNode(name) # None
  BY <1>1, EntryAssumption DEF SpecAssumed, NodesApart
<1>6. ASSUME NEW x, NEW y, FeatureNode(x) # None, FeatureNode(y) # None, Named(x) = Named(y) PROVE x = y
  BY <1>6, FeatureSame DEF Named
<1>7. c.fast = d.fast /\ c.anchor = d.anchor /\ c.slow = d.slow
  BY ONLY <1>4, <1>5, <1>6
<1>8. /\ ContextState(spec, ref, w) = StateOf(c.fast, c.anchor, c.slow, w)
      /\ ContextState(other, of, w) = StateOf(d.fast, d.anchor, d.slow, w)
  BY <1>1 DEF ContextState, StateOf
<1> QED
  BY <1>7, <1>8

GatedBy(mask, state, s, regimes, w) == [t \in Bars(w) |-> mask[t] /\ Regime(state[t], s) \in regimes]

\* Masks gated alike.
LEMMA GatedSame ==
  ASSUME NEW spec \in Specs, NEW other \in Specs, NEW role, NEW part, NEW i, NEW j, NEW s \in Sides, NEW z \in Sides,
         NEW m, NEW n, NEW c, NEW d, NEW w, m = n => c = d,
         GatedNode(spec, role, i, s, m) = GatedNode(other, part, j, z, n)
  PROVE  Gated(spec, role, i, s, w, c) = Gated(other, part, j, z, w, d)
<1>1. PICK G, H : /\ G = {g \in Gates(spec) : g.role = role /\ g.instance = i}
                  /\ H = {g \in Gates(other) : g.role = part /\ g.instance = j}
  OBVIOUS
<1>2. PICK g, h : g = (CHOOSE x \in G : TRUE) /\ h = (CHOOSE x \in H : TRUE)
  OBVIOUS
<1>3. PICK a, b : /\ a = IF G = {} THEN None ELSE GateNode(spec, g, s)
                  /\ b = IF H = {} THEN None ELSE GateNode(other, h, z)
  OBVIOUS
<1>4. /\ GatedNode(spec, role, i, s, m) = Node("mask_gated", <<>>, <<m, a>>, None)
      /\ GatedNode(other, part, j, z, n) = Node("mask_gated", <<>>, <<n, b>>, None)
  BY <1>1, <1>2, <1>3 DEF GatedNode
<1>5. <<m, a>> = <<n, b>>
  BY ONLY <1>4, GatedNode(spec, role, i, s, m) = GatedNode(other, part, j, z, n), NodesEqual
<1>6. m = n /\ a = b
  BY ONLY <1>5
<1>7. c = d
  BY <1>6
<1>8. /\ G # {} => g \in Gates(spec)
      /\ H # {} => h \in Gates(other)
  BY <1>1, <1>2
<1>9. /\ G # {} => GateNode(spec, g, s) # None
      /\ H # {} => GateNode(other, h, z) # None
  BY <1>8, EntryAssumption DEF SpecAssumed, NodesApart
<1>10. CASE G = {}
  <2>1. H = {}
    BY <1>3, <1>6, <1>9, <1>10
  <2> QED
    BY <1>1, <1>7, <1>10, <2>1 DEF Gated
<1>11. CASE G # {}
  <2>1. H # {} /\ GateNode(spec, g, s) = GateNode(other, h, z)
    BY <1>3, <1>6, <1>9, <1>11
  <2>2. /\ GateNode(spec, g, s) = Node("gate", g.regimes, EntryContextNode(spec, g.context), s)
        /\ GateNode(other, h, z) = Node("gate", h.regimes, EntryContextNode(other, h.context), z)
    BY DEF GateNode
  <2>3. g.regimes = h.regimes /\ EntryContextNode(spec, g.context) = EntryContextNode(other, h.context) /\ s = z
    <3>1. PICK p, q, x, y : /\ p = g.regimes /\ x = EntryContextNode(spec, g.context)
                            /\ q = h.regimes /\ y = EntryContextNode(other, h.context)
      OBVIOUS
    <3>2. Node("gate", p, x, s) = Node("gate", q, y, z)
      BY <2>1, <2>2, <3>1
    <3>3. p = q /\ x = y /\ s = z
      BY ONLY <3>2, NodesEqual
    <3> QED
      BY <3>1, <3>3
  <2>4. g.context \in Consumed(spec) /\ h.context \in Consumed(other)
    BY <1>8, <1>11, <2>1 DEF Consumed
  <2>5. ContextState(spec, g.context, w) = ContextState(other, h.context, w)
    BY <2>3, <2>4, ContextSame
  <2>6. /\ Gated(spec, role, i, s, w, c) = GatedBy(c, ContextState(spec, g.context, w), s, g.regimes, w)
        /\ Gated(other, part, j, z, w, d) = GatedBy(d, ContextState(other, h.context, w), z, h.regimes, w)
    BY <1>1, <1>2, <1>11, <2>1 DEF Gated, GatedBy
  <2> QED
    BY <1>7, <2>3, <2>5, <2>6
<1> QED
  BY <1>10, <1>11

LEMMA ProfileSame ==
  ASSUME NEW spec \in Specs, NEW other \in Specs, NEW s, NEW z, NEW w, ProfileNode(spec, s) = ProfileNode(other, z)
  PROVE  Profile(spec, s, w) = Profile(other, z, w)
<1>1. PICK a, b : /\ a = (spec.profile = None \/ s \notin ToSet(spec.sides))
                  /\ b = (other.profile = None \/ z \notin ToSet(other.sides))
  OBVIOUS
<1>2. /\ ProfileNode(spec, s) = IF a THEN NeutralProfileNode
                                ELSE Node("profile", <<>>, EntryContextNode(spec, spec.profile), s)
      /\ ProfileNode(other, z) = IF b THEN NeutralProfileNode
                                 ELSE Node("profile", <<>>, EntryContextNode(other, other.profile), z)
  BY <1>1 DEF ProfileNode
<1>3. \A u, v : Node("profile", <<>>, u, v) # NeutralProfileNode
  BY NodesEqual DEF NeutralProfileNode
<1>4. CASE a
  <2>1. b
    BY <1>2, <1>3, <1>4
  <2> QED
    BY <1>1, <1>4, <2>1 DEF Profile
<1>5. CASE ~ a
  <2>1. ~ b /\ Node("profile", <<>>, EntryContextNode(spec, spec.profile), s)
                  = Node("profile", <<>>, EntryContextNode(other, other.profile), z)
    BY <1>2, <1>3, <1>5
  <2>2. EntryContextNode(spec, spec.profile) = EntryContextNode(other, other.profile) /\ s = z
    BY ONLY <2>1, NodesEqual
  <2>3. spec.profile \in Consumed(spec) /\ other.profile \in Consumed(other)
    BY <1>1, <1>5, <2>1 DEF Consumed
  <2>4. ContextState(spec, spec.profile, w) = ContextState(other, other.profile, w)
    BY <2>2, <2>3, ContextSame
  <2>5. /\ Profile(spec, s, w) = [t \in Bars(w) |-> Regime(ContextState(spec, spec.profile, w)[t], s)]
        /\ Profile(other, z, w) = [t \in Bars(w) |-> Regime(ContextState(other, other.profile, w)[t], z)]
    BY <1>1, <1>5, <2>1 DEF Profile
  <2> QED
    BY <2>2, <2>4, <2>5
<1> QED
  BY <1>4, <1>5

--------------------------------------------------------------------------------
(* Blockers and triggers. *)

\* What the blockers say by the parameters in their nodes.
CandleOf(s, w) == [t \in Bars(w) |-> AheadOrOn(s, At(w, "close", t), At(w, "open", t))]
RsiOf(column, lookback, threshold, s, w) ==
    LET extreme == [t \in Bars(w) |->
                       IF s = "long" THEN Over(At(w, column, t), threshold) ELSE Over(threshold, At(w, column, t))]
    IN  [t \in Bars(w) |-> ~ RollingAny(extreme, lookback, t)]

LEMMA RsiBlockerIs ==
  ASSUME NEW b, NEW s, NEW w
  PROVE  RsiBlocker(b, s, w) = RsiOf(b.rsi, b.lookback, IF s = "long" THEN b.above ELSE b.below, s, w)
<1>1. CASE s = "long"
  BY <1>1 DEF RsiBlocker, RsiOf
<1>2. CASE s # "long"
  BY <1>2 DEF RsiBlocker, RsiOf
<1> QED
  BY <1>1, <1>2

JudgedBy(age, current, flip, margin, s, t, peak, adx, plus, minus) ==
    LET with == IF s = "long" THEN plus ELSE minus
        against == IF s = "long" THEN minus ELSE plus
    IN  CASE NaN \in {adx, with, against} -> "indicator_not_ready"
          [] OTHER -> IF peak = 0 THEN "no_recent_adx_peak"
                      ELSE IF t - peak > age THEN "peak_too_old"
                      ELSE IF adx < current THEN "current_adx_too_low"
                      ELSE IF flip /\ against > with + margin THEN "opposite_di_flip"
                      ELSE ""

\* Two trend blockers with the same parameters.
LEMMA TrendSame ==
  ASSUME NEW b, NEW d, NEW s, NEW w, w.n \in Nat, b.lookback \in Nat \ {0},
         b.peak = d.peak, b.lookback = d.lookback, b.age = d.age, b.current = d.current,
         b.aligned = d.aligned, b.flip = d.flip, b.margin = d.margin
  PROVE  \A t \in Bars(w) : Blocked(b, s, w, t) = Blocked(d, s, w, t)
<1> SUFFICES ASSUME NEW t \in Bars(w) PROVE Blocked(b, s, w, t) = Blocked(d, s, w, t)
  OBVIOUS
<1>1. t \in Nat
  BY DEF Bars
<1>2. \A u : Strong(b, s, w, u) <=> Strong(d, s, w, u)
  BY DEF Strong
<1>3. PICK p, q : p = PeakAt(b, s, w, t) /\ q = PeakAt(d, s, w, t)
  OBVIOUS
<1>4. p = q
  <2>1. /\ p \in 0..t
        /\ p # 0 => Strong(b, s, w, p) /\ p >= t - b.lookback + 1
        /\ \A x \in 1..t : x >= t - b.lookback + 1 /\ Strong(b, s, w, x) => x <= p
    BY <1>1, <1>3, PeakIs
  <2>2. /\ q \in 0..t
        /\ q # 0 => Strong(d, s, w, q) /\ q >= t - b.lookback + 1
        /\ \A x \in 1..t : x >= t - b.lookback + 1 /\ Strong(d, s, w, x) => x <= q
    BY <1>1, <1>3, PeakIs
  <2>3. p # 0 => p <= q
    BY <1>1, <1>2, <2>1, <2>2
  <2>4. q # 0 => q <= p
    BY <1>1, <1>2, <2>1, <2>2
  <2> QED
    BY <1>1, <2>1, <2>2, <2>3, <2>4
<1>5. /\ Blocked(b, s, w, t) = Judged(b, s, t, p, At(w, "adx", t), At(w, "plus", t), At(w, "minus", t))
      /\ Blocked(d, s, w, t) = Judged(d, s, t, q, At(w, "adx", t), At(w, "plus", t), At(w, "minus", t))
  <2>1. \A x : Blocked(x, s, w, t)
                  = Judged(x, s, t, PeakAt(x, s, w, t), At(w, "adx", t), At(w, "plus", t), At(w, "minus", t))
    BY Zenon DEF Blocked, Judged
  <2> QED
    BY <1>3, <2>1
<1>6. \A peak, adx, plus, minus : Judged(b, s, t, peak, adx, plus, minus) = Judged(d, s, t, peak, adx, plus, minus)
  <2>1. \A x, peak, adx, plus, minus :
           Judged(x, s, t, peak, adx, plus, minus)
             = JudgedBy(x.age, x.current, x.flip, x.margin, s, t, peak, adx, plus, minus)
    BY Zenon DEF Judged, JudgedBy
  <2> QED
    BY <2>1
<1> QED
  BY <1>4, <1>5, <1>6

BlockerIds == {"no_blockers", "counter_candle_blocker", "rsi_lookback_extreme_blocker",
               "trend_strength_episode_blocker"}
NoneNode == Node("no_blockers", <<>>, {}, None)
CandleNode(s) == Node("counter_candle_blocker", <<>>, {}, s)
RsiNode(params, feature, s) == Node("rsi_lookback_extreme_blocker", params, feature, s)
RsiParams(b, s) == <<b.lookback, IF s = "long" THEN b.above ELSE b.below>>
TrendNode(params, features, s) == Node("trend_strength_episode_blocker", params, features, s)
TrendParams(b) == <<b.peak, b.lookback, b.age, b.current, b.aligned, b.flip, b.margin>>
Trends == <<FeatureNode("adx"), FeatureNode("plus"), FeatureNode("minus")>>
TrendOk(b, s, w) == [t \in Bars(w) |-> Blocked(b, s, w, t) = ""]
Always(w) == [t \in Bars(w) |-> TRUE]

LEMMA IntrinsicIs ==
  ASSUME NEW b, NEW s, NEW w
  PROVE  /\ b.id = "no_blockers" => IntrinsicNode(b, s) = NoneNode /\ Intrinsic(b, s, w) = Always(w)
         /\ b.id = "counter_candle_blocker" =>
              IntrinsicNode(b, s) = CandleNode(s) /\ Intrinsic(b, s, w) = CandleOf(s, w)
         /\ b.id = "rsi_lookback_extreme_blocker" =>
              IntrinsicNode(b, s) = RsiNode(RsiParams(b, s), FeatureNode(b.rsi), s)
              /\ Intrinsic(b, s, w) = RsiBlocker(b, s, w)
         /\ b.id = "trend_strength_episode_blocker" =>
              IntrinsicNode(b, s) = TrendNode(TrendParams(b), Trends, s) /\ Intrinsic(b, s, w) = TrendOk(b, s, w)
BY DEF IntrinsicNode, Intrinsic, NoneNode, CandleNode, RsiNode, RsiParams, TrendNode, TrendParams, Trends,
       CandleOf, TrendOk, Always

\* The kind of its node is its id.
LEMMA IntrinsicKind ==
  ASSUME NEW b, BlockerAssumed(b), NEW s
  PROVE  IntrinsicNode(b, s)[1] = b.id /\ b.id \in BlockerIds
<1>1. b.id \in BlockerIds
  BY DEF BlockerAssumed, BlockerIds
<1>2. /\ NoneNode[1] = "no_blockers" /\ CandleNode(s)[1] = "counter_candle_blocker"
      /\ (\A p, f : RsiNode(p, f, s)[1] = "rsi_lookback_extreme_blocker")
      /\ \A p, f : TrendNode(p, f, s)[1] = "trend_strength_episode_blocker"
  BY NodeIs DEF NoneNode, CandleNode, RsiNode, TrendNode
<1> QED
  BY <1>1, <1>2, IntrinsicIs DEF BlockerIds

\* A blocker is known by its parameters and its side.
LEMMA IntrinsicSame ==
  ASSUME NEW b, NEW d, BlockerAssumed(b), BlockerAssumed(d), NEW s, NEW z, NEW w, w.n \in Nat,
         IntrinsicNode(b, s) = IntrinsicNode(d, z)
  PROVE  Intrinsic(b, s, w) = Intrinsic(d, z, w)
<1>2. b.id = d.id /\ b.id \in BlockerIds
  BY IntrinsicKind
<1>3. CASE b.id = "no_blockers"
  BY <1>2, <1>3, IntrinsicIs
<1>4. CASE b.id = "counter_candle_blocker"
  <2>1. CandleNode(s) = CandleNode(z)
    BY <1>2, <1>4, IntrinsicIs
  <2>2. s = z
    BY ONLY <2>1, NodesEqual DEF CandleNode
  <2>3. Intrinsic(b, s, w) = CandleOf(s, w)
    BY ONLY <1>4, IntrinsicIs
  <2>4. Intrinsic(d, z, w) = CandleOf(z, w)
    BY ONLY <1>2, <1>4, IntrinsicIs
  <2> QED
    BY ONLY <2>2, <2>3, <2>4
<1>5. CASE b.id = "rsi_lookback_extreme_blocker"
  <2>1. PICK p, q, f, g : p = RsiParams(b, s) /\ q = RsiParams(d, z) /\ f = FeatureNode(b.rsi) /\ g = FeatureNode(d.rsi)
    OBVIOUS
  <2>2. RsiNode(p, f, s) = RsiNode(q, g, z)
    BY <1>2, <1>5, <2>1, IntrinsicIs
  <2>3. p = q /\ f = g /\ s = z
    BY ONLY <2>2, NodesEqual DEF RsiNode
  <2>4. PICK x, y : x = (IF s = "long" THEN b.above ELSE b.below) /\ y = (IF z = "long" THEN d.above ELSE d.below)
    OBVIOUS
  <2>5. p = <<b.lookback, x>> /\ q = <<d.lookback, y>>
    BY <2>1, <2>4 DEF RsiParams
  <2>6. b.lookback = d.lookback /\ x = y
    <3>1. PICK m, n : m = b.lookback /\ n = d.lookback
      OBVIOUS
    <3>2. <<m, x>> = <<n, y>>
      BY ONLY <2>3, <2>5, <3>1
    <3>3. m = n /\ x = y
      BY ONLY <3>2
    <3> QED
      BY ONLY <3>1, <3>3
  <2>7. b.rsi = d.rsi
    BY <2>1, <2>3, FeatureSame
  <2>8. RsiBlocker(b, s, w) = RsiOf(b.rsi, b.lookback, x, s, w) /\ RsiBlocker(d, z, w) = RsiOf(d.rsi, d.lookback, y, z, w)
    BY <2>4, RsiBlockerIs
  <2>9. Intrinsic(b, s, w) = RsiBlocker(b, s, w) /\ Intrinsic(d, z, w) = RsiBlocker(d, z, w)
    BY <1>2, <1>5, IntrinsicIs
  <2> QED
    BY <2>3, <2>6, <2>7, <2>8, <2>9
<1>6. CASE b.id = "trend_strength_episode_blocker"
  <2>1. PICK p, q : p = TrendParams(b) /\ q = TrendParams(d)
    OBVIOUS
  <2>2. TrendNode(p, Trends, s) = TrendNode(q, Trends, z)
    BY <1>2, <1>6, <2>1, IntrinsicIs
  <2>3. p = q /\ s = z
    BY ONLY <2>2, NodesEqual DEF TrendNode
  <2>4. /\ b.peak = d.peak /\ b.lookback = d.lookback /\ b.age = d.age /\ b.current = d.current
        /\ b.aligned = d.aligned /\ b.flip = d.flip /\ b.margin = d.margin
    BY ONLY <2>1, <2>3 DEF TrendParams
  <2>5. b.lookback \in Nat \ {0}
    BY <1>6 DEF BlockerAssumed
  <2>6. \A t \in Bars(w) : Blocked(b, s, w, t) = Blocked(d, s, w, t)
    BY <2>4, <2>5, TrendSame
  <2>7. TrendOk(b, s, w) = TrendOk(d, s, w)
    BY <2>6 DEF TrendOk
  <2>8. Intrinsic(b, s, w) = TrendOk(b, s, w) /\ Intrinsic(d, z, w) = TrendOk(d, z, w)
    BY <1>2, <1>6, IntrinsicIs
  <2> QED
    BY ONLY <2>3, <2>7, <2>8
<1> QED
  BY <1>2, <1>3, <1>4, <1>5, <1>6 DEF BlockerIds

ReclaimOf(strong, lookback, s, w) ==
    [t \in Bars(w) |->
        /\ t - 1 >= lookback
        /\ \E u \in (t - lookback)..(t - 1) : Probed(strong, s, w, u)
        /\ Ahead(s, At(w, "close", t), At(w, "anchor", t))]

\* A trigger is known by its lookback, which touch_anchor does not read.
LEMMA TriggerSame ==
  ASSUME NEW a, NEW b, NEW s, NEW z, NEW w, TriggerNode(a, s) = TriggerNode(b, z)
  PROVE  Triggered(a, s, w) = Triggered(b, z, w)
<1>1. PICK p, q : /\ p = (IF a.id = "touch_anchor" THEN <<>> ELSE <<a.lookback>>)
                  /\ q = (IF b.id = "touch_anchor" THEN <<>> ELSE <<b.lookback>>)
  OBVIOUS
<1>2. PICK i, j, f : i = a.id /\ j = b.id /\ f = FeatureNode("anchor")
  OBVIOUS
<1>3. Node(i, p, f, s) = Node(j, q, f, z)
  BY <1>1, <1>2 DEF TriggerNode
<1>4. i = j /\ p = q /\ s = z
  BY ONLY <1>3, NodesEqual
<1>5. CASE i = "touch_anchor"
  BY <1>2, <1>4, <1>5 DEF Triggered
<1>6. CASE i # "touch_anchor"
  <2>1. PICK m, n : m = a.lookback /\ n = b.lookback
    OBVIOUS
  <2>2. p = <<m>> /\ q = <<n>>
    BY <1>1, <1>2, <1>4, <1>6, <2>1
  <2>3. m = n
    <3>1. <<m>> = <<n>>
      BY <1>4, <2>2
    <3> QED
      BY ONLY <3>1
  <2>4. PICK strong : strong = (i = "strong_reclaim_anchor")
    OBVIOUS
  <2>5. Reclaim(a, s, w) = ReclaimOf(strong, m, s, w) /\ Reclaim(b, z, w) = ReclaimOf(strong, n, z, w)
    BY <1>2, <1>4, <2>1, <2>4 DEF Reclaim, ReclaimOf
  <2>6. Triggered(a, s, w) = Reclaim(a, s, w) /\ Triggered(b, z, w) = Reclaim(b, z, w)
    BY <1>2, <1>4, <1>6 DEF Triggered
  <2> QED
    BY <1>4, <2>3, <2>5, <2>6
<1> QED
  BY <1>5, <1>6

--------------------------------------------------------------------------------
(* Exit rules. *)

OffNode == Node("constant_false", <<>>, {}, None)
Never(w) == [t \in Bars(w) |-> FALSE]
RsiExitNode(params, feature, s) == Node("rsi_signal_exit", params, feature, s)
CloseExitNode(params, feature, s) == Node("ema_close_loss_exit", params, feature, s)
CrossExitNode(params, features, s) == Node("ema_cross_loss_exit", params, features, s)
Threshold(r, s) == <<IF s = "long" THEN r.above ELSE r.below>>
Confirm(r) == <<r.confirm>>
Crossing(r) == <<FeatureNode(r.fast), FeatureNode(r.slow)>>

RsiExit(r, s, w) ==
    [t \in Bars(w) |-> IF s = "long" THEN Over(At(w, r.rsi, t), r.above) ELSE Over(r.below, At(w, r.rsi, t))]

RsiExitOf(column, threshold, s, w) ==
    [t \in Bars(w) |-> IF s = "long" THEN Over(At(w, column, t), threshold) ELSE Over(threshold, At(w, column, t))]
CloseOf(column, confirm, s, w) ==
    LET lost == [t \in Bars(w) |-> Ahead(s, At(w, column, t), At(w, "close", t))]
    IN  [t \in Bars(w) |-> Held(lost, confirm, t)]
CrossOf(fast, slow, confirm, s, w) ==
    LET adverse == [t \in Bars(w) |-> Ahead(s, At(w, slow, t), At(w, fast, t))]
        cross == [t \in Bars(w) |->
                    adverse[t] /\ t > 1 /\ AheadOrOn(s, At(w, fast, t - 1), At(w, slow, t - 1))]
    IN  IF confirm = 1 THEN cross
        ELSE [t \in Bars(w) |-> Held(adverse, confirm, t) /\ RollingAny(cross, confirm, t)]

LEMMA SignalIs ==
  ASSUME NEW spec, NEW r, NEW s, NEW w
  PROVE  /\ s \notin ToSet(spec.sides) \/ r.id = "no_signal_exit" =>
              SignalNode(spec, r, s) = OffNode /\ Signal(spec, r, s, w) = Never(w)
         /\ s \in ToSet(spec.sides) =>
              /\ r.id = "rsi_signal_exit" =>
                   SignalNode(spec, r, s) = RsiExitNode(Threshold(r, s), FeatureNode(r.rsi), s)
                   /\ Signal(spec, r, s, w) = RsiExit(r, s, w)
              /\ r.id = "ema_close_loss_exit" =>
                   SignalNode(spec, r, s) = CloseExitNode(Confirm(r), FeatureNode(r.ema), s)
                   /\ Signal(spec, r, s, w) = CloseLoss(r, s, w)
              /\ r.id = "ema_cross_loss_exit" =>
                   SignalNode(spec, r, s) = CrossExitNode(Confirm(r), Crossing(r), s)
                   /\ Signal(spec, r, s, w) = CrossLoss(r, s, w)
<1>1. s \notin ToSet(spec.sides) \/ r.id = "no_signal_exit" =>
        SignalNode(spec, r, s) = OffNode /\ Signal(spec, r, s, w) = Never(w)
  BY DEF SignalNode, Signal, OffNode, Never
<1>2. s \in ToSet(spec.sides) /\ r.id = "rsi_signal_exit" =>
        SignalNode(spec, r, s) = RsiExitNode(Threshold(r, s), FeatureNode(r.rsi), s)
        /\ Signal(spec, r, s, w) = RsiExit(r, s, w)
  BY DEF SignalNode, Signal, RsiExitNode, Threshold, RsiExit
<1>3. s \in ToSet(spec.sides) /\ r.id = "ema_close_loss_exit" =>
        SignalNode(spec, r, s) = CloseExitNode(Confirm(r), FeatureNode(r.ema), s)
        /\ Signal(spec, r, s, w) = CloseLoss(r, s, w)
  BY DEF SignalNode, Signal, CloseExitNode, Confirm
<1>4. s \in ToSet(spec.sides) /\ r.id = "ema_cross_loss_exit" =>
        SignalNode(spec, r, s) = CrossExitNode(Confirm(r), Crossing(r), s)
        /\ Signal(spec, r, s, w) = CrossLoss(r, s, w)
  BY DEF SignalNode, Signal, CrossExitNode, Confirm, Crossing
<1> QED
  BY <1>1, <1>2, <1>3, <1>4

\* Which of the four nodes a signal rule has.
Shape(spec, r, s) == IF s \notin ToSet(spec.sides) THEN "no_signal_exit" ELSE r.id
ShapeKind(shape) == IF shape = "no_signal_exit" THEN "constant_false" ELSE shape

\* A rule that is off on a side has the node of a rule that never fires.
LEMMA SignalKind ==
  ASSUME NEW spec, NEW r, r.id \in Signals, NEW s
  PROVE  SignalNode(spec, r, s)[1] = ShapeKind(Shape(spec, r, s)) /\ Shape(spec, r, s) \in Signals
<1>1. /\ OffNode[1] = "constant_false"
      /\ (\A p, f : RsiExitNode(p, f, s)[1] = "rsi_signal_exit")
      /\ (\A p, f : CloseExitNode(p, f, s)[1] = "ema_close_loss_exit")
      /\ \A p, f : CrossExitNode(p, f, s)[1] = "ema_cross_loss_exit"
  BY NodeIs DEF OffNode, RsiExitNode, CloseExitNode, CrossExitNode
<1> QED
  BY <1>1, SignalIs DEF Signals, Shape, ShapeKind

\* A signal rule is known by what its mask reads.
LEMMA SignalSame ==
  ASSUME NEW spec, NEW other, NEW r, NEW q, r.id \in Signals, q.id \in Signals, NEW s, NEW z, NEW w,
         SignalNode(spec, r, s) = SignalNode(other, q, z)
  PROVE  Signal(spec, r, s, w) = Signal(other, q, z, w)
<1>1. Shape(spec, r, s) = Shape(other, q, z)
  <2>1. \A x, y \in Signals : ShapeKind(x) = ShapeKind(y) => x = y
    BY DEF ShapeKind, Signals
  <2> QED
    BY <2>1, SignalKind
<1>2. PICK i : i = Shape(spec, r, s)
  OBVIOUS
<1>3. i # "no_signal_exit" => s \in ToSet(spec.sides) /\ z \in ToSet(other.sides) /\ r.id = i /\ q.id = i
  BY <1>1, <1>2 DEF Shape
<1>4. CASE i = "no_signal_exit"
  <2>1. /\ s \notin ToSet(spec.sides) \/ r.id = "no_signal_exit"
        /\ z \notin ToSet(other.sides) \/ q.id = "no_signal_exit"
    BY <1>1, <1>2, <1>4 DEF Shape
  <2>2. Signal(spec, r, s, w) = Never(w) /\ Signal(other, q, z, w) = Never(w)
    BY <2>1, SignalIs
  <2> QED
    BY <2>2
<1>5. CASE i = "rsi_signal_exit"
  <2>1. PICK p, t, f, g : p = Threshold(r, s) /\ t = Threshold(q, z) /\ f = FeatureNode(r.rsi) /\ g = FeatureNode(q.rsi)
    OBVIOUS
  <2>2. /\ SignalNode(spec, r, s) = RsiExitNode(p, f, s) /\ Signal(spec, r, s, w) = RsiExit(r, s, w)
        /\ SignalNode(other, q, z) = RsiExitNode(t, g, z) /\ Signal(other, q, z, w) = RsiExit(q, z, w)
    BY <1>3, <1>5, <2>1, SignalIs
  <2>3. RsiExitNode(p, f, s) = RsiExitNode(t, g, z)
    BY <2>2
  <2>4. p = t /\ f = g /\ s = z
    BY ONLY <2>3, NodesEqual DEF RsiExitNode
  <2>5. PICK x, y : x = (IF s = "long" THEN r.above ELSE r.below) /\ y = (IF z = "long" THEN q.above ELSE q.below)
    OBVIOUS
  <2>6. p = <<x>> /\ t = <<y>>
    BY <2>1, <2>5 DEF Threshold
  <2>7. x = y
    <3>1. <<x>> = <<y>>
      BY <2>4, <2>6
    <3> QED
      BY ONLY <3>1
  <2>8. r.rsi = q.rsi
    BY <2>1, <2>4, FeatureSame
  <2>9. RsiExit(r, s, w) = RsiExitOf(r.rsi, x, s, w) /\ RsiExit(q, z, w) = RsiExitOf(q.rsi, y, z, w)
    BY <2>5 DEF RsiExit, RsiExitOf
  <2> QED
    BY <2>2, <2>4, <2>7, <2>8, <2>9
<1>6. CASE i = "ema_close_loss_exit"
  <2>1. PICK p, t, f, g : p = Confirm(r) /\ t = Confirm(q) /\ f = FeatureNode(r.ema) /\ g = FeatureNode(q.ema)
    OBVIOUS
  <2>2. /\ SignalNode(spec, r, s) = CloseExitNode(p, f, s) /\ Signal(spec, r, s, w) = CloseLoss(r, s, w)
        /\ SignalNode(other, q, z) = CloseExitNode(t, g, z) /\ Signal(other, q, z, w) = CloseLoss(q, z, w)
    BY <1>3, <1>6, <2>1, SignalIs
  <2>3. CloseExitNode(p, f, s) = CloseExitNode(t, g, z)
    BY <2>2
  <2>4. p = t /\ f = g /\ s = z
    BY ONLY <2>3, NodesEqual DEF CloseExitNode
  <2>5. PICK x, y : x = r.confirm /\ y = q.confirm
    OBVIOUS
  <2>6. p = <<x>> /\ t = <<y>>
    BY <2>1, <2>5 DEF Confirm
  <2>7. x = y
    <3>1. <<x>> = <<y>>
      BY <2>4, <2>6
    <3> QED
      BY ONLY <3>1
  <2>8. r.ema = q.ema
    BY <2>1, <2>4, FeatureSame
  <2>9. CloseLoss(r, s, w) = CloseOf(r.ema, x, s, w) /\ CloseLoss(q, z, w) = CloseOf(q.ema, y, z, w)
    BY <2>5 DEF CloseLoss, CloseOf
  <2> QED
    BY <2>2, <2>4, <2>7, <2>8, <2>9
<1>7. CASE i = "ema_cross_loss_exit"
  <2>1. PICK p, t, f, g : p = Confirm(r) /\ t = Confirm(q) /\ f = Crossing(r) /\ g = Crossing(q)
    OBVIOUS
  <2>2. /\ SignalNode(spec, r, s) = CrossExitNode(p, f, s) /\ Signal(spec, r, s, w) = CrossLoss(r, s, w)
        /\ SignalNode(other, q, z) = CrossExitNode(t, g, z) /\ Signal(other, q, z, w) = CrossLoss(q, z, w)
    BY <1>3, <1>7, <2>1, SignalIs
  <2>3. CrossExitNode(p, f, s) = CrossExitNode(t, g, z)
    BY <2>2
  <2>4. p = t /\ f = g /\ s = z
    BY ONLY <2>3, NodesEqual DEF CrossExitNode
  <2>5. PICK x, y : x = r.confirm /\ y = q.confirm
    OBVIOUS
  <2>6. p = <<x>> /\ t = <<y>>
    BY <2>1, <2>5 DEF Confirm
  <2>7. x = y
    <3>1. <<x>> = <<y>>
      BY <2>4, <2>6
    <3> QED
      BY ONLY <3>1
  <2>8. r.fast = q.fast /\ r.slow = q.slow
    <3>1. PICK a, b, c, d : /\ a = FeatureNode(r.fast) /\ b = FeatureNode(r.slow)
                            /\ c = FeatureNode(q.fast) /\ d = FeatureNode(q.slow)
      OBVIOUS
    <3>2. <<a, b>> = <<c, d>>
      BY <2>1, <2>4, <3>1 DEF Crossing
    <3>3. a = c /\ b = d
      BY ONLY <3>2
    <3> QED
      BY <3>1, <3>3, FeatureSame
  <2>9. CrossLoss(r, s, w) = CrossOf(r.fast, r.slow, x, s, w) /\ CrossLoss(q, z, w) = CrossOf(q.fast, q.slow, y, z, w)
    BY <2>5 DEF CrossLoss, CrossOf
  <2> QED
    BY <2>2, <2>4, <2>7, <2>8, <2>9
<1> QED
  BY <1>2, <1>4, <1>5, <1>6, <1>7, SignalKind DEF Signals

PctNode(params) == Node("distance_pct", params, {}, None)
AtrNode(feature) == Node("distance_atr", <<>>, feature, None)
UsdNode(params) == Node("distance_usd", params, {}, None)

LEMMA DistanceNodeIs ==
  ASSUME NEW r
  PROVE  /\ r.id = "pct_partial_take" => DistanceNode(r) = PctNode(<<r.pct>>)
         /\ r.id \in AtrRules => DistanceNode(r) = AtrNode(FeatureNode(r.atr))
         /\ r.id # "pct_partial_take" /\ r.id \notin AtrRules => DistanceNode(r) = UsdNode(<<r.usd>>)
BY DEF DistanceNode, PctNode, AtrNode, UsdNode, AtrRules

PctDistance(pct, w) == [t \in Bars(w) |-> (At(w, "close", t) * pct) \div Unit]
PctRatio(pct, w) == [t \in Bars(w) |-> pct]

DistanceKinds == {"distance_pct", "distance_atr", "distance_usd"}
DistanceKind(r) ==
    IF r.id = "pct_partial_take" THEN "distance_pct" ELSE IF r.id \in AtrRules THEN "distance_atr" ELSE "distance_usd"

LEMMA DistanceKindIs ==
  ASSUME NEW r
  PROVE  DistanceNode(r)[1] = DistanceKind(r)
<1>1. \A p : PctNode(p)[1] = "distance_pct" /\ AtrNode(p)[1] = "distance_atr" /\ UsdNode(p)[1] = "distance_usd"
  BY NodeIs DEF PctNode, AtrNode, UsdNode
<1> QED
  BY <1>1, DistanceNodeIs DEF DistanceKind, AtrRules

\* A distance rule is known by its distance: its kind is no part of it.
LEMMA DistanceSame ==
  ASSUME NEW r, NEW q, NEW w, DistanceNode(r) = DistanceNode(q)
  PROVE  Distance(r, w) = Distance(q, w) /\ Ratio(r, w) = Ratio(q, w)
<1>1. PICK k : k = DistanceKind(r) /\ k = DistanceKind(q)
  BY DistanceKindIs
<1>2. CASE k = "distance_pct"
  <2>1. r.id = "pct_partial_take" /\ q.id = "pct_partial_take"
    BY <1>1, <1>2 DEF DistanceKind
  <2>2. PICK x, y : x = r.pct /\ y = q.pct
    OBVIOUS
  <2>3. PctNode(<<x>>) = PctNode(<<y>>)
    BY <2>1, <2>2, DistanceNodeIs
  <2>4. <<x>> = <<y>>
    BY ONLY <2>3, NodesEqual DEF PctNode
  <2>5. x = y
    BY ONLY <2>4
  <2>6. \A p : p.id = "pct_partial_take" =>
           Distance(p, w) = PctDistance(p.pct, w) /\ Ratio(p, w) = PctRatio(p.pct, w)
    BY DEF Distance, Ratio, PctDistance, PctRatio
  <2> QED
    BY <2>1, <2>2, <2>5, <2>6
<1>3. CASE k # "distance_pct"
  <2>1. r.id # "pct_partial_take" /\ q.id # "pct_partial_take"
    BY <1>1, <1>3 DEF DistanceKind
  <2>2. Distance(r, w) = Distance(q, w)
    <3>1. CASE k = "distance_atr"
      <4>1. r.id \in AtrRules /\ q.id \in AtrRules
        BY <1>1, <3>1 DEF DistanceKind
      <4>2. PICK x, y : x = r.atr /\ y = q.atr
        OBVIOUS
      <4>3. AtrNode(FeatureNode(x)) = AtrNode(FeatureNode(y))
        BY <4>1, <4>2, DistanceNodeIs
      <4>4. FeatureNode(x) = FeatureNode(y)
        BY ONLY <4>3, NodesEqual DEF AtrNode
      <4>5. x = y
        BY <4>4, FeatureSame
      <4>6. \A p : p.id \in AtrRules => Distance(p, w) = [t \in Bars(w) |-> At(w, p.atr, t)]
        BY DEF Distance, AtrRules
      <4> QED
        BY <4>1, <4>2, <4>5, <4>6
    <3>2. CASE k # "distance_atr"
      <4>1. r.id \notin AtrRules /\ q.id \notin AtrRules
        BY <1>1, <1>3, <3>2 DEF DistanceKind
      <4>2. PICK x, y : x = r.usd /\ y = q.usd
        OBVIOUS
      <4>3. UsdNode(<<x>>) = UsdNode(<<y>>)
        BY <2>1, <4>1, <4>2, DistanceNodeIs
      <4>4. <<x>> = <<y>>
        BY ONLY <4>3, NodesEqual DEF UsdNode
      <4>5. x = y
        BY ONLY <4>4
      <4>6. \A p : p.id # "pct_partial_take" /\ p.id \notin AtrRules => Distance(p, w) = [t \in Bars(w) |-> p.usd]
        BY DEF Distance, AtrRules
      <4> QED
        BY <2>1, <4>1, <4>2, <4>5, <4>6
    <3> QED
      BY <3>1, <3>2
  <2>3. \A p : p.id # "pct_partial_take" =>
           Ratio(p, w) = [t \in Bars(w) |-> IF Distance(p, w)[t] = NaN THEN NaN
                                            ELSE (Unit * Distance(p, w)[t]) \div At(w, "close", t)]
    BY DEF Ratio
  <2> QED
    BY <2>1, <2>2, <2>3
<1> QED
  BY <1>2, <1>3

--------------------------------------------------------------------------------
(* What a profile makes of its rules. *)

LEMMA AggregateSame ==
  ASSUME NEW k, NEW a, NEW b, Aggregate(k, a) = Aggregate(k, b)
  PROVE  a = b
BY NodesEqual DEF Aggregate

LEMMA SignalsSame ==
  ASSUME NEW spec \in Specs, NEW other \in Specs, NEW p \in Profiles, NEW o \in Profiles, NEW s, NEW z, NEW w,
         SignalsNode(spec, p, s) = SignalsNode(other, o, z)
  PROVE  AnySignal(spec, p, s, w) = AnySignal(other, o, z, w)
<1>1. PICK R, Q : R = ToSet(Applying(spec, p, "signal")) /\ Q = ToSet(Applying(other, o, "signal"))
  OBVIOUS
<1>2. (\A r \in R : r.id \in Signals) /\ \A q \in Q : q.id \in Signals
  BY <1>1, ApplyingIs, EntryAssumption DEF RuleAssumed
<1>3. {SignalNode(spec, r, s) : r \in R} = {SignalNode(other, q, z) : q \in Q}
  BY <1>1, AggregateSame DEF SignalsNode
<1>4. \A r \in R, q \in Q : SignalNode(spec, r, s) = SignalNode(other, q, z)
                               => Signal(spec, r, s, w) = Signal(other, q, z, w)
  BY <1>2, SignalSame
<1>5. {Signal(spec, r, s, w) : r \in R} = {Signal(other, q, z, w) : q \in Q}
  <2>1. \A r \in R : \E q \in Q : Signal(spec, r, s, w) = Signal(other, q, z, w)
    BY <1>3, <1>4
  <2>2. \A q \in Q : \E r \in R : Signal(spec, r, s, w) = Signal(other, q, z, w)
    BY <1>3, <1>4
  <2> QED
    BY ONLY <2>1, <2>2
<1>6. PICK F : F = {Signal(spec, r, s, w) : r \in R}
  OBVIOUS
<1>7. /\ AnySignal(spec, p, s, w) = [t \in Bars(w) |-> \E m \in F : m[t]]
      /\ AnySignal(other, o, z, w) = [t \in Bars(w) |-> \E m \in F : m[t]]
  BY <1>1, <1>5, <1>6 DEF AnySignal
<1> QED
  BY <1>7

DistanceNodes(rules) == {DistanceNode(r) : r \in rules}
RatioSet(rules, w) == {Ratio(r, w) : r \in rules}
DistanceSet(rules, w) == {Distance(r, w) : r \in rules}

\* Equal nodes of distances make equal sets of columns, of which the least are the same.
LEMMA ColumnsSame ==
  ASSUME NEW R, NEW Q, NEW w, DistanceNodes(R) = DistanceNodes(Q)
  PROVE  RatioSet(R, w) = RatioSet(Q, w) /\ DistanceSet(R, w) = DistanceSet(Q, w)
<1>2. {DistanceNode(r) : r \in R} = {DistanceNode(q) : q \in Q}
  BY DEF DistanceNodes
<1>3. /\ \A r \in R : \E q \in Q : DistanceNode(r) = DistanceNode(q)
      /\ \A q \in Q : \E r \in R : DistanceNode(r) = DistanceNode(q)
  BY <1>2
<1>4. /\ \A r \in R : \E q \in Q : Distance(r, w) = Distance(q, w) /\ Ratio(r, w) = Ratio(q, w)
      /\ \A q \in Q : \E r \in R : Distance(r, w) = Distance(q, w) /\ Ratio(r, w) = Ratio(q, w)
  BY <1>3, DistanceSame
<1>5. RatioSet(R, w) = RatioSet(Q, w)
  BY ONLY <1>4 DEF RatioSet
<1>6. DistanceSet(R, w) = DistanceSet(Q, w)
  BY ONLY <1>4 DEF DistanceSet
<1> QED
  BY ONLY <1>5, <1>6

LEMMA AggregatesSame ==
  ASSUME NEW spec, NEW other, NEW p, NEW o, NEW kind, NEW sort, NEW what, NEW w,
         DistancesNode(spec, p, kind, what) = DistancesNode(other, o, sort, what)
  PROVE  /\ RatioOf(spec, p, kind, w) = RatioOf(other, o, sort, w)
         /\ DistanceOf(spec, p, kind, w) = DistanceOf(other, o, sort, w)
<1>1. PICK R, Q : R = ToSet(Applying(spec, p, kind)) /\ Q = ToSet(Applying(other, o, sort))
  OBVIOUS
<1>2. Aggregate(what, DistanceNodes(R)) = Aggregate(what, DistanceNodes(Q))
  BY <1>1 DEF DistancesNode, DistanceNodes
<1>3. DistanceNodes(R) = DistanceNodes(Q)
  BY ONLY <1>2, AggregateSame
<1>4. RatioSet(R, w) = RatioSet(Q, w) /\ DistanceSet(R, w) = DistanceSet(Q, w)
  BY ONLY <1>3, ColumnsSame
<1>5. /\ RatioOf(spec, p, kind, w) = Nearest(RatioSet(R, w), w) /\ DistanceOf(spec, p, kind, w) = Nearest(DistanceSet(R, w), w)
      /\ RatioOf(other, o, sort, w) = Nearest(RatioSet(Q, w), w) /\ DistanceOf(other, o, sort, w) = Nearest(DistanceSet(Q, w), w)
  BY <1>1 DEF RatioOf, DistanceOf, RatioSet, DistanceSet
<1> QED
  BY <1>4, <1>5

LEMMA ReadySame ==
  ASSUME NEW spec, NEW other, NEW p, NEW o, NEW w, ReadyNode(spec, p) = ReadyNode(other, o)
  PROVE  Ready(spec, p, w) = Ready(other, o, w)
<1>1. PICK a, b, c, d : /\ a = (Applying(spec, p, "stop_loss") # <<>>) /\ b = (Applying(spec, p, "take_profit") # <<>>)
                        /\ c = (Applying(other, o, "stop_loss") # <<>>) /\ d = (Applying(other, o, "take_profit") # <<>>)
  OBVIOUS
<1>2. PICK e, f, g, h, i, j :
         /\ e = DistancesNode(spec, p, "stop_loss", "min_ratio") /\ f = DistancesNode(spec, p, "take_profit", "min_ratio")
         /\ g = DistancesNode(other, o, "stop_loss", "min_ratio") /\ h = DistancesNode(other, o, "take_profit", "min_ratio")
         /\ i = {DistanceNode(r) : r \in ToSet(Applying(spec, p, "partial_take"))}
         /\ j = {DistanceNode(r) : r \in ToSet(Applying(other, o, "partial_take"))}
  OBVIOUS
<1>3. PICK x, y, u, v : x = <<a, b>> /\ y = <<c, d>> /\ u = <<e, f, i>> /\ v = <<g, h, j>>
  OBVIOUS
<1>4. Node("ready", x, u, None) = Node("ready", y, v, None)
  BY <1>1, <1>2, <1>3 DEF ReadyNode
<1>5. x = y /\ u = v
  BY ONLY <1>4, NodesEqual
<1>6. (a <=> c) /\ (b <=> d) /\ e = g /\ f = h /\ i = j
  <2>1. <<a, b>> = <<c, d>> /\ <<e, f, i>> = <<g, h, j>>
    BY ONLY <1>3, <1>5
  <2>2. e = g /\ f = h /\ i = j
    BY ONLY <2>1
  <2>3. (a <=> c) /\ (b <=> d)
    BY ONLY <2>1
  <2> QED
    BY <2>2, <2>3
<1>7. /\ RatioOf(spec, p, "stop_loss", w) = RatioOf(other, o, "stop_loss", w)
      /\ RatioOf(spec, p, "take_profit", w) = RatioOf(other, o, "take_profit", w)
  BY <1>2, <1>6, AggregatesSame
<1>8. PICK P, Q : P = ToSet(Applying(spec, p, "partial_take")) /\ Q = ToSet(Applying(other, o, "partial_take"))
  OBVIOUS
<1>9. RatioSet(P, w) = RatioSet(Q, w)
  <2>1. i = j /\ i = DistanceNodes(P) /\ j = DistanceNodes(Q)
    BY <1>2, <1>6, <1>8 DEF DistanceNodes
  <2>2. DistanceNodes(P) = DistanceNodes(Q)
    BY ONLY <2>1
  <2> QED
    BY ONLY <2>2, ColumnsSame
<1>10. ASSUME NEW t \in Bars(w) PROVE (\A r \in P : Ratio(r, w)[t] # NaN) <=> \A r \in Q : Ratio(r, w)[t] # NaN
  BY ONLY <1>9 DEF RatioSet
<1>11. ASSUME NEW t \in Bars(w) PROVE Ready(spec, p, w)[t] <=> Ready(other, o, w)[t]
  BY <1>1, <1>6, <1>7, <1>8, <1>10, ReadyIs
<1>12. ASSUME NEW t \in Bars(w) PROVE Ready(spec, p, w)[t] \in BOOLEAN /\ Ready(other, o, w)[t] \in BOOLEAN
  BY DEF Ready
<1>13. /\ Ready(spec, p, w) = [t \in Bars(w) |-> Ready(spec, p, w)[t]]
       /\ Ready(other, o, w) = [t \in Bars(w) |-> Ready(other, o, w)[t]]
  BY DEF Ready
<1>14. \A t \in Bars(w) : Ready(spec, p, w)[t] = Ready(other, o, w)[t]
  BY <1>11, <1>12
<1> QED
  BY ONLY <1>13, <1>14

--------------------------------------------------------------------------------
(* Selections by profile. *)

\* The value of the bar's profile among the columns.
Picked(profile, columns, w) == [t \in Bars(w) |-> columns[profile[t]][t]]

SignalColumns(spec, s, w) == [p \in Profiles |-> AnySignal(spec, p, s, w)]
ReadyColumns(spec, w) == [p \in Profiles |-> Ready(spec, p, w)]
RatioColumns(spec, kind, w) == [p \in Profiles |-> RatioOf(spec, p, kind, w)]
DistanceColumns(spec, kind, w) == [p \in Profiles |-> DistanceOf(spec, p, kind, w)]

LEMMA SignalSelected ==
  ASSUME NEW spec, NEW s, NEW w
  PROVE  SelectedSignal(spec, s, w) = Picked(Profile(spec, s, w), SignalColumns(spec, s, w), w)
BY DEF SelectedSignal, Select, Picked, SignalColumns

LEMMA ReadySelected ==
  ASSUME NEW spec, NEW s, NEW w
  PROVE  SelectedReady(spec, s, w) = Picked(Profile(spec, s, w), ReadyColumns(spec, w), w)
BY DEF SelectedReady, Select, Picked, ReadyColumns

LEMMA RatioSelected ==
  ASSUME NEW spec, NEW s, NEW w, NEW kind
  PROVE  SelectedRatio(spec, kind, s, w) = Picked(Profile(spec, s, w), RatioColumns(spec, kind, w), w)
BY DEF SelectedRatio, Select, Picked, RatioColumns

LEMMA DistanceSelected ==
  ASSUME NEW spec, NEW s, NEW w, NEW kind
  PROVE  SelectedDistance(spec, kind, s, w) = Picked(Profile(spec, s, w), DistanceColumns(spec, kind, w), w)
BY DEF SelectedDistance, Select, Picked, DistanceColumns

\* A selection is known by the profile and the three columns it picks from.
LEMMA SelectNodeSame ==
  ASSUME NEW k, NEW spec \in Specs, NEW other \in Specs, NEW s, NEW z, NEW f, NEW g, NEW w,
         SelectNode(k, spec, s, f) = SelectNode(k, other, z, g)
  PROVE  f = g /\ Profile(spec, s, w) = Profile(other, z, w)
<1>1. PICK m, n, u, v : m = ProfileNode(spec, s) /\ n = ProfileNode(other, z) /\ u = <<m, f>> /\ v = <<n, g>>
  OBVIOUS
<1>2. Node(k, <<>>, u, None) = Node(k, <<>>, v, None)
  BY <1>1 DEF SelectNode
<1>3. u = v
  BY ONLY <1>2, NodesEqual
<1>4. m = n /\ f = g
  BY ONLY <1>1, <1>3
<1>5. ProfileNode(spec, s) = ProfileNode(other, z)
  BY ONLY <1>1, <1>4
<1>6. Profile(spec, s, w) = Profile(other, z, w)
  BY <1>5, ProfileSame
<1> QED
  BY ONLY <1>4, <1>6

LEMMA SignalSelectSame ==
  ASSUME NEW spec \in Specs, NEW other \in Specs, NEW s, NEW z, NEW w,
         SignalSelectNode(spec, s) = SignalSelectNode(other, z)
  PROVE  SelectedSignal(spec, s, w) = SelectedSignal(other, z, w)
<1>1. PICK f, g : /\ f = [p \in Profiles |-> SignalsNode(spec, p, s)] /\ g = [p \in Profiles |-> SignalsNode(other, p, z)]
  OBVIOUS
<1>2. f = g /\ Profile(spec, s, w) = Profile(other, z, w)
  BY <1>1, SelectNodeSame DEF SignalSelectNode
<1>3. \A p \in Profiles : SignalsNode(spec, p, s) = SignalsNode(other, p, z)
  <2>1. \A p \in Profiles : f[p] = SignalsNode(spec, p, s) /\ g[p] = SignalsNode(other, p, z)
    BY <1>1
  <2> QED
    BY <1>2, <2>1
<1>4. \A p \in Profiles : AnySignal(spec, p, s, w) = AnySignal(other, p, z, w)
  BY <1>3, SignalsSame
<1>5. SignalColumns(spec, s, w) = SignalColumns(other, z, w)
  BY <1>4 DEF SignalColumns
<1> QED
  BY <1>2, <1>5, SignalSelected

LEMMA ReadySelectSame ==
  ASSUME NEW spec \in Specs, NEW other \in Specs, NEW s, NEW z, NEW w,
         ReadySelectNode(spec, s) = ReadySelectNode(other, z)
  PROVE  SelectedReady(spec, s, w) = SelectedReady(other, z, w)
<1>1. PICK f, g : f = [p \in Profiles |-> ReadyNode(spec, p)] /\ g = [p \in Profiles |-> ReadyNode(other, p)]
  OBVIOUS
<1>2. f = g /\ Profile(spec, s, w) = Profile(other, z, w)
  BY <1>1, SelectNodeSame DEF ReadySelectNode
<1>3. \A p \in Profiles : ReadyNode(spec, p) = ReadyNode(other, p)
  <2>1. \A p \in Profiles : f[p] = ReadyNode(spec, p) /\ g[p] = ReadyNode(other, p)
    BY <1>1
  <2> QED
    BY <1>2, <2>1
<1>4. \A p \in Profiles : Ready(spec, p, w) = Ready(other, p, w)
  BY <1>3, ReadySame
<1>5. ReadyColumns(spec, w) = ReadyColumns(other, w)
  BY <1>4 DEF ReadyColumns
<1> QED
  BY <1>2, <1>5, ReadySelected

LEMMA DistanceSelectSame ==
  ASSUME NEW spec \in Specs, NEW other \in Specs, NEW s, NEW z, NEW kind, NEW sort, NEW what, NEW w,
         DistanceSelectNode(spec, s, kind, what) = DistanceSelectNode(other, z, sort, what)
  PROVE  /\ SelectedRatio(spec, kind, s, w) = SelectedRatio(other, sort, z, w)
         /\ SelectedDistance(spec, kind, s, w) = SelectedDistance(other, sort, z, w)
<1>1. PICK f, g : /\ f = [p \in Profiles |-> DistancesNode(spec, p, kind, what)]
                  /\ g = [p \in Profiles |-> DistancesNode(other, p, sort, what)]
  OBVIOUS
<1>2. f = g /\ Profile(spec, s, w) = Profile(other, z, w)
  BY <1>1, SelectNodeSame DEF DistanceSelectNode
<1>3. \A p \in Profiles : DistancesNode(spec, p, kind, what) = DistancesNode(other, p, sort, what)
  <2>1. \A p \in Profiles : f[p] = DistancesNode(spec, p, kind, what) /\ g[p] = DistancesNode(other, p, sort, what)
    BY <1>1
  <2> QED
    BY <1>2, <2>1
<1>4. \A p \in Profiles : /\ RatioOf(spec, p, kind, w) = RatioOf(other, p, sort, w)
                          /\ DistanceOf(spec, p, kind, w) = DistanceOf(other, p, sort, w)
  BY <1>3, AggregatesSame
<1>5. RatioColumns(spec, kind, w) = RatioColumns(other, sort, w)
  BY <1>4 DEF RatioColumns
<1>6. DistanceColumns(spec, kind, w) = DistanceColumns(other, sort, w)
  BY <1>4 DEF DistanceColumns
<1> QED
  BY <1>2, <1>5, <1>6, RatioSelected, DistanceSelected

--------------------------------------------------------------------------------
(* The masks of a side. *)

LEMMA DirectionSame ==
  ASSUME NEW s, NEW z, DirectionNode(s) = DirectionNode(z)
  PROVE  s = z
BY NodesEqual DEF DirectionNode

LEMMA LocalSame ==
  ASSUME NEW s, NEW z, LocalNode(s) = LocalNode(z)
  PROVE  s = z
BY NodesEqual DEF LocalNode

LEMMA AllNodeSame ==
  ASSUME NEW M, NEW N, AllNode(M) = AllNode(N)
  PROVE  M = N
BY NodesEqual DEF AllNode

LEMMA ItemsAssumedToo ==
  ASSUME NEW spec \in Specs
  PROVE  (\A b \in ToSet(BlockerItems(spec)) : BlockerAssumed(b)) /\ ToSet(BlockerItems(spec)) # {}
<1>1. SpecAssumed(spec)
  BY EntryAssumption
<1>2. CASE spec.blockers = <<>>
  <2>1. PICK b : b = [id |-> "no_blockers", instance |-> "no_blockers", gate |-> None]
    OBVIOUS
  <2>2. BlockerItems(spec) = <<b>>
    BY <1>2, <2>1 DEF BlockerItems
  <2>3. ToSet(<<b>>) = {b}
    BY DEF ToSet
  <2>4. BlockerAssumed(b)
    BY <2>1 DEF BlockerAssumed
  <2> QED
    BY <2>2, <2>3, <2>4
<1>3. CASE spec.blockers # <<>>
  <2>1. BlockerItems(spec) = spec.blockers /\ \A b \in ToSet(spec.blockers) : BlockerAssumed(b)
    BY <1>1, <1>3 DEF BlockerItems, SpecAssumed
  <2>2. ToSet(spec.blockers) # {}
    <3>1. PICK q, T : q = spec.blockers /\ T = ToSet(q)
      OBVIOUS
    <3>2. q \in Seq(T) /\ q # <<>>
      BY <1>1, <1>3, <3>1 DEF SpecAssumed, Listed
    <3>3. q[1] \in T
      BY ONLY <3>2
    <3> QED
      BY <3>1, <3>3
  <2> QED
    BY <2>1, <2>2
<1> QED
  BY <1>2, <1>3

\* A gated mask is known by the mask and the gate.
LEMMA AllowedSame ==
  ASSUME NEW spec \in Specs, NEW other \in Specs, NEW s \in Sides, NEW z \in Sides, NEW w, w.n \in Nat,
         NEW b \in ToSet(BlockerItems(spec)), NEW d \in ToSet(BlockerItems(other)),
         AllowedNode(spec, b, s) = AllowedNode(other, d, z)
  PROVE  BlockerAllowed(spec, b, s, w) = BlockerAllowed(other, d, z, w)
<1>1. PICK m, n, c, e : /\ m = IntrinsicNode(b, s) /\ n = IntrinsicNode(d, z)
                        /\ c = Intrinsic(b, s, w) /\ e = Intrinsic(d, z, w)
  OBVIOUS
<1>2. BlockerAssumed(b) /\ BlockerAssumed(d)
  BY ItemsAssumedToo
<1>3. m = n => c = e
  <2> SUFFICES ASSUME m = n PROVE c = e
    OBVIOUS
  <2>1. IntrinsicNode(b, s) = IntrinsicNode(d, z)
    BY <1>1
  <2>2. Intrinsic(b, s, w) = Intrinsic(d, z, w)
    BY ONLY <1>2, <2>1, w.n \in Nat, IntrinsicSame
  <2> QED
    BY <1>1, <2>2
<1>4. GatedNode(spec, "blocker", b.instance, s, m) = GatedNode(other, "blocker", d.instance, z, n)
  BY <1>1 DEF AllowedNode
<1>5. Gated(spec, "blocker", b.instance, s, w, c) = Gated(other, "blocker", d.instance, z, w, e)
  BY <1>3, <1>4, GatedSame
<1> QED
  BY <1>1, <1>5 DEF BlockerAllowed

LEMMA FinalSame ==
  ASSUME NEW spec \in Specs, NEW other \in Specs, NEW s \in Sides, NEW z \in Sides, NEW w,
         NEW u, NEW v, FinalNode(spec, u, s) = FinalNode(other, v, z)
  PROVE  SetupAllowed(spec, u, s, w) = SetupAllowed(other, v, z, w)
<1>1. PICK m, n, c : m = LocalNode(s) /\ n = LocalNode(z) /\ c = Local(w)
  OBVIOUS
<1>2. GatedNode(spec, "setup", u.instance, s, m) = GatedNode(other, "setup", v.instance, z, n)
  BY <1>1 DEF FinalNode
<1>3. Gated(spec, "setup", u.instance, s, w, c) = Gated(other, "setup", v.instance, z, w, c)
  BY <1>2, GatedSame
<1> QED
  BY <1>1, <1>3 DEF SetupAllowed

\* What a conjunction conjoins, by the kinds of its masks.
Conjunction(masks) ==
    IF \E m \in masks : m[1] = "direction" THEN "pre_setup"
    ELSE IF \E m \in masks : m[1] \in Triggers THEN "pre_risk"
    ELSE IF \E m \in masks : m[1] = "mask_all" THEN "pre_trigger"
    ELSE IF \E m \in masks : m[3][1][1] # "setup" THEN "blockers"
    ELSE "setups"

LEMMA MaskKinds ==
  ASSUME NEW s
  PROVE  /\ DirectionNode(s)[1] = "direction" /\ LocalNode(s)[1] = "setup"
         /\ \A M : AllNode(M)[1] = "mask_all" /\ AllNode(M)[3] = M
         /\ \A trigger : TriggerNode(trigger, s)[1] = trigger.id
BY NodeIs DEF DirectionNode, LocalNode, AllNode, TriggerNode

LEMMA TriggerKind ==
  ASSUME NEW trigger, NEW s
  PROVE  TriggerNode(trigger, s)[1] = trigger.id
BY NodeIs DEF TriggerNode

LEMMA AllKind ==
  ASSUME NEW M
  PROVE  AllNode(M)[1] = "mask_all" /\ AllNode(M)[3] = M
BY NodeIs DEF AllNode

LEMMA GatedKind ==
  ASSUME NEW spec, NEW role, NEW i, NEW s, NEW m
  PROVE  GatedNode(spec, role, i, s, m)[1] = "mask_gated" /\ GatedNode(spec, role, i, s, m)[3][1] = m
<1>1. PICK u : /\ GatedNode(spec, role, i, s, m) = Node("mask_gated", <<>>, u, None) /\ u[1] = m
  <2>1. PICK G : G = {g \in Gates(spec) : g.role = role /\ g.instance = i}
    OBVIOUS
  <2>2. PICK a : a = IF G = {} THEN None ELSE GateNode(spec, CHOOSE g \in G : TRUE, s)
    OBVIOUS
  <2>3. GatedNode(spec, role, i, s, m) = Node("mask_gated", <<>>, <<m, a>>, None)
    BY <2>1, <2>2 DEF GatedNode
  <2>4. <<m, a>>[1] = m
    OBVIOUS
  <2> QED
    BY <2>3, <2>4
<1> QED
  BY <1>1, NodeIs

LEMMA AllowedKind ==
  ASSUME NEW spec \in Specs, NEW b \in ToSet(BlockerItems(spec)), NEW s
  PROVE  AllowedNode(spec, b, s)[1] = "mask_gated" /\ AllowedNode(spec, b, s)[3][1][1] = b.id /\ b.id \in BlockerIds
<1>1. BlockerAssumed(b)
  BY ItemsAssumedToo
<1>2. AllowedNode(spec, b, s)[1] = "mask_gated" /\ AllowedNode(spec, b, s)[3][1] = IntrinsicNode(b, s)
  BY GatedKind DEF AllowedNode
<1> QED
  BY <1>1, <1>2, IntrinsicKind

LEMMA FinalKind ==
  ASSUME NEW spec, NEW u, NEW s
  PROVE  FinalNode(spec, u, s)[1] = "mask_gated" /\ FinalNode(spec, u, s)[3][1][1] = "setup"
<1>1. FinalNode(spec, u, s)[1] = "mask_gated" /\ FinalNode(spec, u, s)[3][1] = LocalNode(s)
  BY GatedKind DEF FinalNode
<1> QED
  BY <1>1, MaskKinds

AllowedNodes(spec, s) == {AllowedNode(spec, b, s) : b \in ToSet(BlockerItems(spec))}
FinalNodes(spec, s) == {FinalNode(spec, u, s) : u \in ToSet(spec.setups)}

\* The conjunctions have masks of different kinds.
LEMMA ConjunctionKinds ==
  ASSUME NEW spec \in Specs, NEW s
  PROVE  /\ Conjunction(AllowedNodes(spec, s)) = "blockers"
         /\ Conjunction({DirectionNode(s), BlockersNode(spec, s)}) = "pre_setup"
         /\ Conjunction(FinalNodes(spec, s)) = "setups"
         /\ Conjunction({PreSetupNode(spec, s), SetupsNode(spec, s)}) = "pre_trigger"
         /\ Conjunction({PreTriggerNode(spec, s), TriggerNode(spec.trigger, s)}) = "pre_risk"
<1>0. "direction" \notin Triggers /\ "mask_all" \notin Triggers /\ "mask_gated" \notin Triggers /\ "setup" \notin BlockerIds
  BY DEF Triggers, BlockerIds
<1>1. Conjunction(AllowedNodes(spec, s)) = "blockers"
  <2>1. \A m \in AllowedNodes(spec, s) : m[1] = "mask_gated" /\ m[3][1][1] # "setup"
    BY <1>0, AllowedKind DEF AllowedNodes
  <2>2. AllowedNodes(spec, s) # {}
    BY ItemsAssumedToo DEF AllowedNodes
  <2> QED
    BY <1>0, <2>1, <2>2 DEF Conjunction
<1>2. Conjunction({DirectionNode(s), BlockersNode(spec, s)}) = "pre_setup"
  BY MaskKinds DEF Conjunction
<1>3. Conjunction(FinalNodes(spec, s)) = "setups"
  <2>1. \A m \in FinalNodes(spec, s) : m[1] = "mask_gated" /\ m[3][1][1] = "setup"
    BY FinalKind DEF FinalNodes
  <2> QED
    BY <1>0, <2>1 DEF Conjunction
<1>4. Conjunction({PreSetupNode(spec, s), SetupsNode(spec, s)}) = "pre_trigger"
  <2>1. \A m \in {PreSetupNode(spec, s), SetupsNode(spec, s)} : m[1] = "mask_all"
    BY MaskKinds DEF PreSetupNode, SetupsNode
  <2> QED
    BY <1>0, <2>1 DEF Conjunction
<1>5. Conjunction({PreTriggerNode(spec, s), TriggerNode(spec.trigger, s)}) = "pre_risk"
  <2>1. PICK m, n : m = PreTriggerNode(spec, s) /\ n = TriggerNode(spec.trigger, s)
    OBVIOUS
  <2>2. spec.trigger.id \in Triggers
    BY EntryAssumption DEF SpecAssumed
  <2>3. m[1] = "mask_all" /\ n[1] \in Triggers
    <3>1. m[1] = "mask_all"
      BY <2>1, AllKind DEF PreTriggerNode
    <3>2. n[1] = spec.trigger.id
      BY <2>1, TriggerKind
    <3> QED
      BY ONLY <2>2, <3>1, <3>2
  <2>4. Conjunction({m, n}) = "pre_risk"
    BY ONLY <1>0, <2>3 DEF Conjunction
  <2> QED
    BY <2>1, <2>4
<1> QED
  BY ONLY <1>1, <1>2, <1>3, <1>4, <1>5

\* The conjunctions of one side of a specification, with their masks.
LEMMA ConjunctionsAre ==
  ASSUME NEW spec \in Specs, NEW s
  PROVE  /\ Conjunction(BlockersNode(spec, s)[3]) = "blockers" /\ Conjunction(PreSetupNode(spec, s)[3]) = "pre_setup"
         /\ Conjunction(SetupsNode(spec, s)[3]) = "setups" /\ Conjunction(PreTriggerNode(spec, s)[3]) = "pre_trigger"
         /\ Conjunction(PreRiskNode(spec, s)[3]) = "pre_risk"
<1>1. /\ BlockersNode(spec, s) = AllNode(AllowedNodes(spec, s))
      /\ PreSetupNode(spec, s) = AllNode({DirectionNode(s), BlockersNode(spec, s)})
      /\ SetupsNode(spec, s) = AllNode(FinalNodes(spec, s))
      /\ PreTriggerNode(spec, s) = AllNode({PreSetupNode(spec, s), SetupsNode(spec, s)})
      /\ PreRiskNode(spec, s) = AllNode({PreTriggerNode(spec, s), TriggerNode(spec.trigger, s)})
  <2>1. BlockersNode(spec, s) = AllNode(AllowedNodes(spec, s))
    BY DEF BlockersNode, AllowedNodes
  <2>2. SetupsNode(spec, s) = AllNode(FinalNodes(spec, s))
    BY DEF SetupsNode, FinalNodes
  <2>3. PreSetupNode(spec, s) = AllNode({DirectionNode(s), BlockersNode(spec, s)})
    BY DEF PreSetupNode
  <2>4. PreTriggerNode(spec, s) = AllNode({PreSetupNode(spec, s), SetupsNode(spec, s)})
    BY DEF PreTriggerNode
  <2>5. PreRiskNode(spec, s) = AllNode({PreTriggerNode(spec, s), TriggerNode(spec.trigger, s)})
    BY DEF PreRiskNode
  <2> QED
    BY ONLY <2>1, <2>2, <2>3, <2>4, <2>5
<1>2. \A M : AllNode(M)[3] = M
  BY MaskKinds
<1>3. /\ BlockersNode(spec, s)[3] = AllowedNodes(spec, s)
      /\ PreSetupNode(spec, s)[3] = {DirectionNode(s), BlockersNode(spec, s)}
      /\ SetupsNode(spec, s)[3] = FinalNodes(spec, s)
      /\ PreTriggerNode(spec, s)[3] = {PreSetupNode(spec, s), SetupsNode(spec, s)}
      /\ PreRiskNode(spec, s)[3] = {PreTriggerNode(spec, s), TriggerNode(spec.trigger, s)}
  <2>1. BlockersNode(spec, s)[3] = AllowedNodes(spec, s)
    BY ONLY <1>1, <1>2
  <2>2. PreSetupNode(spec, s)[3] = {DirectionNode(s), BlockersNode(spec, s)}
    BY ONLY <1>1, <1>2
  <2>3. SetupsNode(spec, s)[3] = FinalNodes(spec, s)
    BY ONLY <1>1, <1>2
  <2>4. PreTriggerNode(spec, s)[3] = {PreSetupNode(spec, s), SetupsNode(spec, s)}
    BY ONLY <1>1, <1>2
  <2>5. PreRiskNode(spec, s)[3] = {PreTriggerNode(spec, s), TriggerNode(spec.trigger, s)}
    BY ONLY <1>1, <1>2
  <2> QED
    BY ONLY <2>1, <2>2, <2>3, <2>4, <2>5
<1> QED
  BY <1>3, ConjunctionKinds

\* Equal nodes of conjunctions have equal masks, which are the columns they join.
LEMMA BlockersSame ==
  ASSUME NEW spec \in Specs, NEW other \in Specs, NEW s \in Sides, NEW z \in Sides, NEW w, w.n \in Nat,
         BlockersNode(spec, s) = BlockersNode(other, z)
  PROVE  BlockersOk(spec, s, w) = BlockersOk(other, z, w)
<1>1. PICK B, D : B = ToSet(BlockerItems(spec)) /\ D = ToSet(BlockerItems(other))
  OBVIOUS
<1>2. AllNode(AllowedNodes(spec, s)) = AllNode(AllowedNodes(other, z))
  BY DEF BlockersNode, AllowedNodes
<1>3. AllowedNodes(spec, s) = AllowedNodes(other, z)
  BY ONLY <1>2, AllNodeSame
<1>4. /\ AllowedNodes(spec, s) = {AllowedNode(spec, b, s) : b \in B}
      /\ AllowedNodes(other, z) = {AllowedNode(other, d, z) : d \in D}
  BY <1>1 DEF AllowedNodes
<1>5. \A b \in B, d \in D : AllowedNode(spec, b, s) = AllowedNode(other, d, z)
                               => BlockerAllowed(spec, b, s, w) = BlockerAllowed(other, d, z, w)
  BY <1>1, AllowedSame
<1>6. PICK F, G : F = {BlockerAllowed(spec, b, s, w) : b \in B} /\ G = {BlockerAllowed(other, d, z, w) : d \in D}
  OBVIOUS
<1>7. F = G
  <2>1. \A b \in B : \E d \in D : BlockerAllowed(spec, b, s, w) = BlockerAllowed(other, d, z, w)
    BY ONLY <1>3, <1>4, <1>5
  <2>2. \A d \in D : \E b \in B : BlockerAllowed(spec, b, s, w) = BlockerAllowed(other, d, z, w)
    BY ONLY <1>3, <1>4, <1>5
  <2> QED
    BY ONLY <1>6, <2>1, <2>2
<1>8. BlockersOk(spec, s, w) = All(F, w) /\ BlockersOk(other, z, w) = All(G, w)
  BY <1>1, <1>6 DEF BlockersOk
<1> QED
  BY <1>7, <1>8

LEMMA SetupsSame ==
  ASSUME NEW spec \in Specs, NEW other \in Specs, NEW s \in Sides, NEW z \in Sides, NEW w,
         SetupsNode(spec, s) = SetupsNode(other, z)
  PROVE  SetupsOk(spec, s, w) = SetupsOk(other, z, w)
<1>1. PICK B, D : B = ToSet(spec.setups) /\ D = ToSet(other.setups)
  OBVIOUS
<1>2. AllNode(FinalNodes(spec, s)) = AllNode(FinalNodes(other, z))
  BY DEF SetupsNode, FinalNodes
<1>3. FinalNodes(spec, s) = FinalNodes(other, z)
  BY ONLY <1>2, AllNodeSame
<1>4. /\ FinalNodes(spec, s) = {FinalNode(spec, b, s) : b \in B}
      /\ FinalNodes(other, z) = {FinalNode(other, d, z) : d \in D}
  BY <1>1 DEF FinalNodes
<1>5. \A b \in B, d \in D : FinalNode(spec, b, s) = FinalNode(other, d, z)
                               => SetupAllowed(spec, b, s, w) = SetupAllowed(other, d, z, w)
  BY FinalSame
<1>6. PICK F, G : F = {SetupAllowed(spec, b, s, w) : b \in B} /\ G = {SetupAllowed(other, d, z, w) : d \in D}
  OBVIOUS
<1>7. F = G
  <2>1. \A b \in B : \E d \in D : SetupAllowed(spec, b, s, w) = SetupAllowed(other, d, z, w)
    BY ONLY <1>3, <1>4, <1>5
  <2>2. \A d \in D : \E b \in B : SetupAllowed(spec, b, s, w) = SetupAllowed(other, d, z, w)
    BY ONLY <1>3, <1>4, <1>5
  <2> QED
    BY ONLY <1>6, <2>1, <2>2
<1>8. SetupsOk(spec, s, w) = All(F, w) /\ SetupsOk(other, z, w) = All(G, w)
  BY <1>1, <1>6 DEF SetupsOk
<1> QED
  BY <1>7, <1>8

\* Two pairs of which the first parts differ from the second ones.
LEMMA PairsSame ==
  ASSUME NEW m, NEW n, NEW p, NEW q, {m, n} = {p, q}, m # q, n # p
  PROVE  m = p /\ n = q
OBVIOUS

LEMMA PreSetupSame ==
  ASSUME NEW spec \in Specs, NEW other \in Specs, NEW s \in Sides, NEW z \in Sides, NEW w, w.n \in Nat,
         PreSetupNode(spec, s) = PreSetupNode(other, z)
  PROVE  PreSetup(spec, s, w) = PreSetup(other, z, w)
<1>1. PICK m, n, p, q : /\ m = DirectionNode(s) /\ n = BlockersNode(spec, s)
                        /\ p = DirectionNode(z) /\ q = BlockersNode(other, z)
  OBVIOUS
<1>2. AllNode({m, n}) = AllNode({p, q})
  BY <1>1 DEF PreSetupNode
<1>3. {m, n} = {p, q}
  BY ONLY <1>2, AllNodeSame
<1>4. m[1] = "direction" /\ n[1] = "mask_all" /\ p[1] = "direction" /\ q[1] = "mask_all"
  BY <1>1, MaskKinds DEF BlockersNode
<1>5. m = p /\ n = q
  BY ONLY <1>3, <1>4, PairsSame
<1>6. Direction(s, w) = Direction(z, w)
  BY <1>1, <1>5, DirectionSame
<1>7. BlockersOk(spec, s, w) = BlockersOk(other, z, w)
  <2>1. BlockersNode(spec, s) = BlockersNode(other, z)
    BY ONLY <1>1, <1>5
  <2> QED
    BY ONLY spec \in Specs, other \in Specs, s \in Sides, z \in Sides, w.n \in Nat, <2>1, BlockersSame
<1> QED
  BY <1>6, <1>7 DEF PreSetup

LEMMA PreTriggerSame ==
  ASSUME NEW spec \in Specs, NEW other \in Specs, NEW s \in Sides, NEW z \in Sides, NEW w, w.n \in Nat,
         PreTriggerNode(spec, s) = PreTriggerNode(other, z)
  PROVE  PreTrigger(spec, s, w) = PreTrigger(other, z, w)
<1>1. PICK m, n, p, q : /\ m = PreSetupNode(spec, s) /\ n = SetupsNode(spec, s)
                        /\ p = PreSetupNode(other, z) /\ q = SetupsNode(other, z)
  OBVIOUS
<1>2. AllNode({m, n}) = AllNode({p, q})
  BY <1>1 DEF PreTriggerNode
<1>3. {m, n} = {p, q}
  BY ONLY <1>2, AllNodeSame
<1>4. /\ Conjunction(m[3]) = "pre_setup" /\ Conjunction(n[3]) = "setups"
      /\ Conjunction(p[3]) = "pre_setup" /\ Conjunction(q[3]) = "setups"
  <2>1. ASSUME NEW x \in Specs, NEW y
        PROVE  Conjunction(PreSetupNode(x, y)[3]) = "pre_setup" /\ Conjunction(SetupsNode(x, y)[3]) = "setups"
    BY ONLY <2>1, ConjunctionsAre
  <2> QED
    BY <1>1, <2>1
<1>5. m = p /\ n = q
  BY ONLY <1>3, <1>4, PairsSame
<1>6. PreSetup(spec, s, w) = PreSetup(other, z, w)
  <2>1. PreSetupNode(spec, s) = PreSetupNode(other, z)
    BY ONLY <1>1, <1>5
  <2> QED
    BY ONLY spec \in Specs, other \in Specs, s \in Sides, z \in Sides, w.n \in Nat, <2>1, PreSetupSame
<1>7. SetupsOk(spec, s, w) = SetupsOk(other, z, w)
  <2>1. SetupsNode(spec, s) = SetupsNode(other, z)
    BY ONLY <1>1, <1>5
  <2> QED
    BY ONLY spec \in Specs, other \in Specs, s \in Sides, z \in Sides, w.n \in Nat, <2>1, SetupsSame
<1> QED
  BY <1>6, <1>7 DEF PreTrigger

LEMMA PreRiskSame ==
  ASSUME NEW spec \in Specs, NEW other \in Specs, NEW s \in Sides, NEW z \in Sides, NEW w, w.n \in Nat,
         PreRiskNode(spec, s) = PreRiskNode(other, z)
  PROVE  PreRisk(spec, s, w) = PreRisk(other, z, w)
<1>1. PICK m, n, p, q : /\ m = PreTriggerNode(spec, s) /\ n = TriggerNode(spec.trigger, s)
                        /\ p = PreTriggerNode(other, z) /\ q = TriggerNode(other.trigger, z)
  OBVIOUS
<1>2. AllNode({m, n}) = AllNode({p, q})
  BY <1>1 DEF PreRiskNode
<1>3. {m, n} = {p, q}
  BY ONLY <1>2, AllNodeSame
<1>4. m[1] = "mask_all" /\ n[1] # "mask_all" /\ p[1] = "mask_all" /\ q[1] # "mask_all"
  <2>1. spec.trigger.id # "mask_all" /\ other.trigger.id # "mask_all"
    BY EntryAssumption DEF SpecAssumed, Triggers
  <2>2. m[1] = "mask_all" /\ p[1] = "mask_all"
    BY <1>1, AllKind DEF PreTriggerNode
  <2>3. n[1] = spec.trigger.id /\ q[1] = other.trigger.id
    BY <1>1, TriggerKind
  <2> QED
    BY ONLY <2>1, <2>2, <2>3
<1>5. m = p /\ n = q
  BY ONLY <1>3, <1>4, PairsSame
<1>6. PreTrigger(spec, s, w) = PreTrigger(other, z, w)
  <2>1. PreTriggerNode(spec, s) = PreTriggerNode(other, z)
    BY ONLY <1>1, <1>5
  <2> QED
    BY ONLY spec \in Specs, other \in Specs, s \in Sides, z \in Sides, w.n \in Nat, <2>1, PreTriggerSame
<1>7. Triggered(spec.trigger, s, w) = Triggered(other.trigger, z, w)
  <2>1. TriggerNode(spec.trigger, s) = TriggerNode(other.trigger, z)
    BY ONLY <1>1, <1>5
  <2> QED
    BY ONLY <2>1, TriggerSame
<1> QED
  BY <1>6, <1>7 DEF PreRisk

--------------------------------------------------------------------------------
(* What an evaluation asks for, class by class: nodes of one class differ in  *)
(* their kinds from those of another, and stand for one column each.          *)

SignalKinds == {"constant_false", "rsi_signal_exit", "ema_close_loss_exit", "ema_cross_loss_exit"}
Class(node) ==
    IF node[1] \in BlockerIds THEN "blocker"
    ELSE IF node[1] \in Triggers THEN "trigger"
    ELSE IF node[1] \in SignalKinds THEN "signal"
    ELSE IF node[1] \in DistanceKinds THEN "distance"
    ELSE node[1]

OfDirection(a, w) == \E s \in Sides : a = Asked(DirectionNode(s), Direction(s, w))
OfBlocker(spec, a, w) ==
    \E s \in Sides, b \in ToSet(BlockerItems(spec)) : a = Asked(IntrinsicNode(b, s), Intrinsic(b, s, w))
OfAllowed(spec, a, w) ==
    \E s \in Sides, b \in ToSet(BlockerItems(spec)) : a = Asked(AllowedNode(spec, b, s), BlockerAllowed(spec, b, s, w))
OfFinal(spec, a, w) ==
    \E s \in Sides, u \in ToSet(spec.setups) : a = Asked(FinalNode(spec, u, s), SetupAllowed(spec, u, s, w))
OfGated(spec, a, w) == OfAllowed(spec, a, w) \/ OfFinal(spec, a, w)
OfConjunction(spec, a, w) ==
    \E s \in Sides :
       \/ a = Asked(BlockersNode(spec, s), BlockersOk(spec, s, w))
       \/ a = Asked(PreSetupNode(spec, s), PreSetup(spec, s, w))
       \/ a = Asked(SetupsNode(spec, s), SetupsOk(spec, s, w))
       \/ a = Asked(PreTriggerNode(spec, s), PreTrigger(spec, s, w))
       \/ a = Asked(PreRiskNode(spec, s), PreRisk(spec, s, w))
OfSetup(a, w) == \E s \in Sides : a = Asked(LocalNode(s), Local(w))
OfTrigger(spec, a, w) == \E s \in Sides : a = Asked(TriggerNode(spec.trigger, s), Triggered(spec.trigger, s, w))

\* Of each class one node stands for one column.
LEMMA OneDirected ==
  ASSUME NEW a, NEW b, NEW w, OfDirection(a, w), OfDirection(b, w), a.node = b.node
  PROVE  a = b
<1>1. PICK s \in Sides : a = Asked(DirectionNode(s), Direction(s, w))
  BY DEF OfDirection
<1>2. PICK z \in Sides : b = Asked(DirectionNode(z), Direction(z, w))
  BY DEF OfDirection
<1>3. DirectionNode(s) = DirectionNode(z)
  BY <1>1, <1>2 DEF Asked
<1> QED
  BY <1>1, <1>2, <1>3, DirectionSame

LEMMA OneBlocker ==
  ASSUME NEW spec \in Specs, NEW other \in Specs, NEW a, NEW b, NEW w, w.n \in Nat,
         OfBlocker(spec, a, w), OfBlocker(other, b, w), a.node = b.node
  PROVE  a = b
<1>1. PICK s \in Sides, c \in ToSet(BlockerItems(spec)) : a = Asked(IntrinsicNode(c, s), Intrinsic(c, s, w))
  BY DEF OfBlocker
<1>2. PICK z \in Sides, d \in ToSet(BlockerItems(other)) : b = Asked(IntrinsicNode(d, z), Intrinsic(d, z, w))
  BY DEF OfBlocker
<1>3. IntrinsicNode(c, s) = IntrinsicNode(d, z)
  BY <1>1, <1>2 DEF Asked
<1>4. BlockerAssumed(c) /\ BlockerAssumed(d)
  BY ItemsAssumedToo
<1>5. Intrinsic(c, s, w) = Intrinsic(d, z, w)
  BY ONLY <1>3, <1>4, w.n \in Nat, IntrinsicSame
<1> QED
  BY ONLY <1>1, <1>2, <1>3, <1>5

LEMMA OneGated ==
  ASSUME NEW spec \in Specs, NEW other \in Specs, NEW a, NEW b, NEW w, w.n \in Nat,
         OfGated(spec, a, w), OfGated(other, b, w), a.node = b.node
  PROVE  a = b
<1>1. ASSUME NEW x \in Specs, NEW e, OfAllowed(x, e, w) PROVE e.node[3][1][1] \in BlockerIds
  <2>1. PICK s \in Sides, c \in ToSet(BlockerItems(x)) : e = Asked(AllowedNode(x, c, s), BlockerAllowed(x, c, s, w))
    BY <1>1 DEF OfAllowed
  <2>2. e.node = AllowedNode(x, c, s)
    BY <2>1 DEF Asked
  <2> QED
    BY <2>2, AllowedKind
<1>2. ASSUME NEW x \in Specs, NEW e, OfFinal(x, e, w) PROVE e.node[3][1][1] \notin BlockerIds
  <2>1. PICK s \in Sides, u \in ToSet(x.setups) : e = Asked(FinalNode(x, u, s), SetupAllowed(x, u, s, w))
    BY <1>2 DEF OfFinal
  <2>2. e.node = FinalNode(x, u, s)
    BY <2>1 DEF Asked
  <2>3. "setup" \notin BlockerIds
    BY DEF BlockerIds
  <2> QED
    BY <2>2, <2>3, FinalKind
<1>3. CASE OfAllowed(spec, a, w)
  <2>1. OfAllowed(other, b, w)
    BY <1>1, <1>2, <1>3 DEF OfGated
  <2>2. PICK s \in Sides, c \in ToSet(BlockerItems(spec)) :
           a = Asked(AllowedNode(spec, c, s), BlockerAllowed(spec, c, s, w))
    BY <1>3 DEF OfAllowed
  <2>3. PICK z \in Sides, d \in ToSet(BlockerItems(other)) :
           b = Asked(AllowedNode(other, d, z), BlockerAllowed(other, d, z, w))
    BY <2>1 DEF OfAllowed
  <2>4. AllowedNode(spec, c, s) = AllowedNode(other, d, z)
    BY <2>2, <2>3 DEF Asked
  <2>5. BlockerAllowed(spec, c, s, w) = BlockerAllowed(other, d, z, w)
    BY <2>4, AllowedSame
  <2> QED
    BY ONLY <2>2, <2>3, <2>4, <2>5
<1>4. CASE OfFinal(spec, a, w)
  <2>1. OfFinal(other, b, w)
    BY <1>1, <1>2, <1>4 DEF OfGated
  <2>2. PICK s \in Sides, c \in ToSet(spec.setups) : a = Asked(FinalNode(spec, c, s), SetupAllowed(spec, c, s, w))
    BY <1>4 DEF OfFinal
  <2>3. PICK z \in Sides, d \in ToSet(other.setups) : b = Asked(FinalNode(other, d, z), SetupAllowed(other, d, z, w))
    BY <2>1 DEF OfFinal
  <2>4. FinalNode(spec, c, s) = FinalNode(other, d, z)
    BY <2>2, <2>3 DEF Asked
  <2>5. SetupAllowed(spec, c, s, w) = SetupAllowed(other, d, z, w)
    BY <2>4, FinalSame
  <2> QED
    BY ONLY <2>2, <2>3, <2>4, <2>5
<1> QED
  BY <1>3, <1>4 DEF OfGated

LEMMA OneSetup ==
  ASSUME NEW a, NEW b, NEW w, OfSetup(a, w), OfSetup(b, w), a.node = b.node
  PROVE  a = b
<1>1. PICK s \in Sides : a = Asked(LocalNode(s), Local(w))
  BY DEF OfSetup
<1>2. PICK z \in Sides : b = Asked(LocalNode(z), Local(w))
  BY DEF OfSetup
<1>3. LocalNode(s) = LocalNode(z)
  BY <1>1, <1>2 DEF Asked
<1> QED
  BY ONLY <1>1, <1>2, <1>3

LEMMA OneTrigger ==
  ASSUME NEW spec, NEW other, NEW a, NEW b, NEW w, OfTrigger(spec, a, w), OfTrigger(other, b, w), a.node = b.node
  PROVE  a = b
<1>1. PICK s \in Sides : a = Asked(TriggerNode(spec.trigger, s), Triggered(spec.trigger, s, w))
  BY DEF OfTrigger
<1>2. PICK z \in Sides : b = Asked(TriggerNode(other.trigger, z), Triggered(other.trigger, z, w))
  BY DEF OfTrigger
<1>3. TriggerNode(spec.trigger, s) = TriggerNode(other.trigger, z)
  BY <1>1, <1>2 DEF Asked
<1>4. Triggered(spec.trigger, s, w) = Triggered(other.trigger, z, w)
  BY ONLY <1>3, TriggerSame
<1> QED
  BY ONLY <1>1, <1>2, <1>3, <1>4

LEMMA OneConjunction ==
  ASSUME NEW spec \in Specs, NEW other \in Specs, NEW a, NEW b, NEW w, w.n \in Nat,
         OfConjunction(spec, a, w), OfConjunction(other, b, w), a.node = b.node
  PROVE  a = b
<1>1. PICK s \in Sides :
         \/ a = Asked(BlockersNode(spec, s), BlockersOk(spec, s, w))
         \/ a = Asked(PreSetupNode(spec, s), PreSetup(spec, s, w))
         \/ a = Asked(SetupsNode(spec, s), SetupsOk(spec, s, w))
         \/ a = Asked(PreTriggerNode(spec, s), PreTrigger(spec, s, w))
         \/ a = Asked(PreRiskNode(spec, s), PreRisk(spec, s, w))
  BY DEF OfConjunction
<1>2. PICK z \in Sides :
         \/ b = Asked(BlockersNode(other, z), BlockersOk(other, z, w))
         \/ b = Asked(PreSetupNode(other, z), PreSetup(other, z, w))
         \/ b = Asked(SetupsNode(other, z), SetupsOk(other, z, w))
         \/ b = Asked(PreTriggerNode(other, z), PreTrigger(other, z, w))
         \/ b = Asked(PreRiskNode(other, z), PreRisk(other, z, w))
  BY DEF OfConjunction
<1>3. \A n, c : Asked(n, c).node = n
  BY DEF Asked
<1>4. PICK k : k = Conjunction(a.node[3]) /\ k = Conjunction(b.node[3])
  OBVIOUS
<1>5. \/ k = "blockers" /\ a = Asked(BlockersNode(spec, s), BlockersOk(spec, s, w))
      \/ k = "pre_setup" /\ a = Asked(PreSetupNode(spec, s), PreSetup(spec, s, w))
      \/ k = "setups" /\ a = Asked(SetupsNode(spec, s), SetupsOk(spec, s, w))
      \/ k = "pre_trigger" /\ a = Asked(PreTriggerNode(spec, s), PreTrigger(spec, s, w))
      \/ k = "pre_risk" /\ a = Asked(PreRiskNode(spec, s), PreRisk(spec, s, w))
  BY <1>1, <1>3, <1>4, ConjunctionsAre
<1>6. \/ k = "blockers" /\ b = Asked(BlockersNode(other, z), BlockersOk(other, z, w))
      \/ k = "pre_setup" /\ b = Asked(PreSetupNode(other, z), PreSetup(other, z, w))
      \/ k = "setups" /\ b = Asked(SetupsNode(other, z), SetupsOk(other, z, w))
      \/ k = "pre_trigger" /\ b = Asked(PreTriggerNode(other, z), PreTrigger(other, z, w))
      \/ k = "pre_risk" /\ b = Asked(PreRiskNode(other, z), PreRisk(other, z, w))
  BY <1>2, <1>3, <1>4, ConjunctionsAre
<1>7. CASE k = "blockers"
  <2>1. /\ a = Asked(BlockersNode(spec, s), BlockersOk(spec, s, w))
        /\ b = Asked(BlockersNode(other, z), BlockersOk(other, z, w))
    BY ONLY <1>5, <1>6, <1>7
  <2>2. BlockersNode(spec, s) = BlockersNode(other, z)
    BY ONLY <1>3, <2>1, a.node = b.node
  <2>3. BlockersOk(spec, s, w) = BlockersOk(other, z, w)
    BY <2>2, BlockersSame
  <2> QED
    BY ONLY <2>1, <2>2, <2>3
<1>8. CASE k = "pre_setup"
  <2>1. /\ a = Asked(PreSetupNode(spec, s), PreSetup(spec, s, w))
        /\ b = Asked(PreSetupNode(other, z), PreSetup(other, z, w))
    BY ONLY <1>5, <1>6, <1>8
  <2>2. PreSetupNode(spec, s) = PreSetupNode(other, z)
    BY ONLY <1>3, <2>1, a.node = b.node
  <2>3. PreSetup(spec, s, w) = PreSetup(other, z, w)
    BY <2>2, PreSetupSame
  <2> QED
    BY ONLY <2>1, <2>2, <2>3
<1>9. CASE k = "setups"
  <2>1. /\ a = Asked(SetupsNode(spec, s), SetupsOk(spec, s, w))
        /\ b = Asked(SetupsNode(other, z), SetupsOk(other, z, w))
    BY ONLY <1>5, <1>6, <1>9
  <2>2. SetupsNode(spec, s) = SetupsNode(other, z)
    BY ONLY <1>3, <2>1, a.node = b.node
  <2>3. SetupsOk(spec, s, w) = SetupsOk(other, z, w)
    BY <2>2, SetupsSame
  <2> QED
    BY ONLY <2>1, <2>2, <2>3
<1>10. CASE k = "pre_trigger"
  <2>1. /\ a = Asked(PreTriggerNode(spec, s), PreTrigger(spec, s, w))
        /\ b = Asked(PreTriggerNode(other, z), PreTrigger(other, z, w))
    BY ONLY <1>5, <1>6, <1>10
  <2>2. PreTriggerNode(spec, s) = PreTriggerNode(other, z)
    BY ONLY <1>3, <2>1, a.node = b.node
  <2>3. PreTrigger(spec, s, w) = PreTrigger(other, z, w)
    BY <2>2, PreTriggerSame
  <2> QED
    BY ONLY <2>1, <2>2, <2>3
<1>11. CASE k = "pre_risk"
  <2>1. /\ a = Asked(PreRiskNode(spec, s), PreRisk(spec, s, w))
        /\ b = Asked(PreRiskNode(other, z), PreRisk(other, z, w))
    BY ONLY <1>5, <1>6, <1>11
  <2>2. PreRiskNode(spec, s) = PreRiskNode(other, z)
    BY ONLY <1>3, <2>1, a.node = b.node
  <2>3. PreRisk(spec, s, w) = PreRisk(other, z, w)
    BY <2>2, PreRiskSame
  <2> QED
    BY ONLY <2>1, <2>2, <2>3
<1> QED
  BY ONLY <1>5, <1>7, <1>8, <1>9, <1>10, <1>11

OfSignal(spec, a, w) ==
    \E r \in ToSet(Rules(spec)), s \in Sides :
       r.kind = "signal" /\ a = Asked(SignalNode(spec, r, s), Signal(spec, r, s, w))
OfDistance(spec, a, w) == \E r \in ToSet(Rules(spec)) : a = Asked(DistanceNode(r), <<Distance(r, w), Ratio(r, w)>>)
OfSignals(spec, a, w) ==
    \E p \in Profiles, s \in Sides : a = Asked(SignalsNode(spec, p, s), AnySignal(spec, p, s, w))
OfMinRatio(spec, a, w) ==
    \E p \in Profiles, kind \in ToSet(Kinds) :
       a = Asked(DistancesNode(spec, p, kind, "min_ratio"), RatioOf(spec, p, kind, w))
OfMinDistance(spec, a, w) ==
    \E p \in Profiles, kind \in ToSet(Kinds) :
       a = Asked(DistancesNode(spec, p, kind, "min_distance"), DistanceOf(spec, p, kind, w))
OfReady(spec, a, w) == \E p \in Profiles : a = Asked(ReadyNode(spec, p), Ready(spec, p, w))
OfMask(spec, a, w) == \E s \in Sides : a = AskedSignal(spec, s, w) \/ a = AskedReady(spec, s, w)
OfColumn(spec, a, w) ==
    \E s \in Sides, kind \in ToSet(Kinds) : a = AskedRatio(spec, kind, s, w) \/ a = AskedDistance(spec, kind, s, w)

LEMMA RulesAssumed ==
  ASSUME NEW spec \in Specs, NEW r \in ToSet(Rules(spec))
  PROVE  RuleAssumed(r)
<1>1. SpecAssumed(spec)
  BY EntryAssumption
<1>2. PICK g \in Groups : r \in ToSet(spec.exits[g])
  BY <1>1, RulesIs
<1> QED
  BY <1>1, <1>2 DEF SpecAssumed

LEMMA OneSignal ==
  ASSUME NEW spec \in Specs, NEW other \in Specs, NEW a, NEW b, NEW w,
         OfSignal(spec, a, w), OfSignal(other, b, w), a.node = b.node
  PROVE  a = b
<1>1. PICK r \in ToSet(Rules(spec)), s \in Sides :
         r.kind = "signal" /\ a = Asked(SignalNode(spec, r, s), Signal(spec, r, s, w))
  BY DEF OfSignal
<1>2. PICK q \in ToSet(Rules(other)), z \in Sides :
         q.kind = "signal" /\ b = Asked(SignalNode(other, q, z), Signal(other, q, z, w))
  BY DEF OfSignal
<1>3. SignalNode(spec, r, s) = SignalNode(other, q, z)
  BY <1>1, <1>2 DEF Asked
<1>4. r.id \in Signals /\ q.id \in Signals
  <2>1. RuleAssumed(r) /\ RuleAssumed(q)
    BY RulesAssumed
  <2> QED
    BY <1>1, <1>2, <2>1 DEF RuleAssumed
<1>5. Signal(spec, r, s, w) = Signal(other, q, z, w)
  BY ONLY <1>3, <1>4, SignalSame
<1> QED
  BY ONLY <1>1, <1>2, <1>3, <1>5

LEMMA OneDistance ==
  ASSUME NEW spec, NEW other, NEW a, NEW b, NEW w, OfDistance(spec, a, w), OfDistance(other, b, w), a.node = b.node
  PROVE  a = b
<1>1. PICK r \in ToSet(Rules(spec)) : a = Asked(DistanceNode(r), <<Distance(r, w), Ratio(r, w)>>)
  BY DEF OfDistance
<1>2. PICK q \in ToSet(Rules(other)) : b = Asked(DistanceNode(q), <<Distance(q, w), Ratio(q, w)>>)
  BY DEF OfDistance
<1>3. DistanceNode(r) = DistanceNode(q)
  BY <1>1, <1>2 DEF Asked
<1>4. Distance(r, w) = Distance(q, w) /\ Ratio(r, w) = Ratio(q, w)
  BY ONLY <1>3, DistanceSame
<1> QED
  BY ONLY <1>1, <1>2, <1>3, <1>4

LEMMA OneSignals ==
  ASSUME NEW spec \in Specs, NEW other \in Specs, NEW a, NEW b, NEW w,
         OfSignals(spec, a, w), OfSignals(other, b, w), a.node = b.node
  PROVE  a = b
<1>1. PICK p \in Profiles, s \in Sides : a = Asked(SignalsNode(spec, p, s), AnySignal(spec, p, s, w))
  BY DEF OfSignals
<1>2. PICK o \in Profiles, z \in Sides : b = Asked(SignalsNode(other, o, z), AnySignal(other, o, z, w))
  BY DEF OfSignals
<1>3. SignalsNode(spec, p, s) = SignalsNode(other, o, z)
  BY <1>1, <1>2 DEF Asked
<1>4. AnySignal(spec, p, s, w) = AnySignal(other, o, z, w)
  BY <1>3, SignalsSame
<1> QED
  BY ONLY <1>1, <1>2, <1>3, <1>4

LEMMA OneMinRatio ==
  ASSUME NEW spec, NEW other, NEW a, NEW b, NEW w, OfMinRatio(spec, a, w), OfMinRatio(other, b, w), a.node = b.node
  PROVE  a = b
<1>1. PICK p \in Profiles, kind \in ToSet(Kinds) :
         a = Asked(DistancesNode(spec, p, kind, "min_ratio"), RatioOf(spec, p, kind, w))
  BY DEF OfMinRatio
<1>2. PICK o \in Profiles, sort \in ToSet(Kinds) :
         b = Asked(DistancesNode(other, o, sort, "min_ratio"), RatioOf(other, o, sort, w))
  BY DEF OfMinRatio
<1>3. DistancesNode(spec, p, kind, "min_ratio") = DistancesNode(other, o, sort, "min_ratio")
  BY <1>1, <1>2 DEF Asked
<1>4. RatioOf(spec, p, kind, w) = RatioOf(other, o, sort, w)
  BY ONLY <1>3, AggregatesSame
<1> QED
  BY ONLY <1>1, <1>2, <1>3, <1>4

LEMMA OneMinDistance ==
  ASSUME NEW spec, NEW other, NEW a, NEW b, NEW w,
         OfMinDistance(spec, a, w), OfMinDistance(other, b, w), a.node = b.node
  PROVE  a = b
<1>1. PICK p \in Profiles, kind \in ToSet(Kinds) :
         a = Asked(DistancesNode(spec, p, kind, "min_distance"), DistanceOf(spec, p, kind, w))
  BY DEF OfMinDistance
<1>2. PICK o \in Profiles, sort \in ToSet(Kinds) :
         b = Asked(DistancesNode(other, o, sort, "min_distance"), DistanceOf(other, o, sort, w))
  BY DEF OfMinDistance
<1>3. DistancesNode(spec, p, kind, "min_distance") = DistancesNode(other, o, sort, "min_distance")
  BY <1>1, <1>2 DEF Asked
<1>4. DistanceOf(spec, p, kind, w) = DistanceOf(other, o, sort, w)
  BY ONLY <1>3, AggregatesSame
<1> QED
  BY ONLY <1>1, <1>2, <1>3, <1>4

LEMMA OneReady ==
  ASSUME NEW spec, NEW other, NEW a, NEW b, NEW w, OfReady(spec, a, w), OfReady(other, b, w), a.node = b.node
  PROVE  a = b
<1>1. PICK p \in Profiles : a = Asked(ReadyNode(spec, p), Ready(spec, p, w))
  BY DEF OfReady
<1>2. PICK o \in Profiles : b = Asked(ReadyNode(other, o), Ready(other, o, w))
  BY DEF OfReady
<1>3. ReadyNode(spec, p) = ReadyNode(other, o)
  BY <1>1, <1>2 DEF Asked
<1>4. Ready(spec, p, w) = Ready(other, o, w)
  BY ONLY <1>3, ReadySame
<1> QED
  BY ONLY <1>1, <1>2, <1>3, <1>4

LEMMA AggregateKinds ==
  ASSUME NEW spec, NEW p
  PROVE  /\ \A s : SignalsNode(spec, p, s)[1] = "any_signal"
         /\ \A kind, what : DistancesNode(spec, p, kind, what)[1] = what
         /\ ReadyNode(spec, p)[1] = "ready"
<1>1. \A k, nodes : Aggregate(k, nodes)[1] = k
  BY NodeIs DEF Aggregate
<1>2. \A s : SignalsNode(spec, p, s)[1] = "any_signal"
  BY <1>1 DEF SignalsNode
<1>3. \A kind, what : DistancesNode(spec, p, kind, what)[1] = what
  BY <1>1 DEF DistancesNode
<1>4. ReadyNode(spec, p)[1] = "ready"
  BY NodeIs DEF ReadyNode
<1> QED
  BY ONLY <1>2, <1>3, <1>4

LEMMA SelectKind ==
  ASSUME NEW k, NEW spec, NEW s, NEW f
  PROVE  SelectNode(k, spec, s, f)[1] = k /\ SelectNode(k, spec, s, f)[3][2] = f
<1>1. PICK m, u : m = ProfileNode(spec, s) /\ u = <<m, f>>
  OBVIOUS
<1>2. SelectNode(k, spec, s, f) = Node(k, <<>>, u, None)
  BY <1>1 DEF SelectNode
<1>3. u[2] = f
  BY ONLY <1>1
<1> QED
  BY <1>2, <1>3, NodeIs

LEMMA SignalsKind ==
  ASSUME NEW spec, NEW p, NEW s
  PROVE  SignalsNode(spec, p, s)[1] = "any_signal"
BY NodeIs DEF SignalsNode, Aggregate

LEMMA ReadyKind ==
  ASSUME NEW spec, NEW p
  PROVE  ReadyNode(spec, p)[1] = "ready"
BY NodeIs DEF ReadyNode

LEMMA DistancesKind ==
  ASSUME NEW spec, NEW p, NEW kind, NEW what
  PROVE  DistancesNode(spec, p, kind, what)[1] = what
BY NodeIs DEF DistancesNode, Aggregate

LEMMA DistanceSelectKind ==
  ASSUME NEW spec, NEW s, NEW kind, NEW what
  PROVE  /\ DistanceSelectNode(spec, s, kind, what)[1] = "select_float"
         /\ DistanceSelectNode(spec, s, kind, what)[3][2]["neutral"][1] = what
<1>0. "neutral" \in Profiles
  BY DEF Profiles
<1>1. PICK f : f = [p \in Profiles |-> DistancesNode(spec, p, kind, what)]
  OBVIOUS
<1>2. DistanceSelectNode(spec, s, kind, what)[1] = "select_float" /\ DistanceSelectNode(spec, s, kind, what)[3][2] = f
  BY <1>1, SelectKind DEF DistanceSelectNode
<1>3. f["neutral"] = DistancesNode(spec, "neutral", kind, what)
  BY ONLY <1>0, <1>1
<1>4. DistancesNode(spec, "neutral", kind, what)[1] = what
  BY DistancesKind
<1>5. PICK n : n = DistanceSelectNode(spec, s, kind, what)
  OBVIOUS
<1>6. n[1] = "select_float" /\ n[3][2] = f
  BY ONLY <1>2, <1>5
<1>7. n[3][2]["neutral"][1] = what
  BY ONLY <1>3, <1>4, <1>6
<1> QED
  BY ONLY <1>5, <1>6, <1>7

LEMMA SelectKinds ==
  ASSUME NEW spec, NEW s
  PROVE  /\ SignalSelectNode(spec, s)[1] = "select_bool" /\ SignalSelectNode(spec, s)[3][2]["neutral"][1] = "any_signal"
         /\ ReadySelectNode(spec, s)[1] = "select_bool" /\ ReadySelectNode(spec, s)[3][2]["neutral"][1] = "ready"
         /\ \A kind, what : /\ DistanceSelectNode(spec, s, kind, what)[1] = "select_float"
                            /\ DistanceSelectNode(spec, s, kind, what)[3][2]["neutral"][1] = what
<1>1. "neutral" \in Profiles
  BY DEF Profiles
<1>2. SignalSelectNode(spec, s)[1] = "select_bool" /\ SignalSelectNode(spec, s)[3][2]["neutral"][1] = "any_signal"
  <2>1. PICK f : f = [p \in Profiles |-> SignalsNode(spec, p, s)]
    OBVIOUS
  <2>2. SignalSelectNode(spec, s)[1] = "select_bool" /\ SignalSelectNode(spec, s)[3][2] = f
    BY <2>1, SelectKind DEF SignalSelectNode
  <2>3. f["neutral"] = SignalsNode(spec, "neutral", s)
    BY ONLY <1>1, <2>1
  <2>4. SignalsNode(spec, "neutral", s)[1] = "any_signal"
    BY SignalsKind
  <2>5. PICK n : n = SignalSelectNode(spec, s)
    OBVIOUS
  <2>6. n[1] = "select_bool" /\ n[3][2] = f
    BY ONLY <2>2, <2>5
  <2>7. n[3][2]["neutral"][1] = "any_signal"
    BY ONLY <2>3, <2>4, <2>6
  <2> QED
    BY ONLY <2>5, <2>6, <2>7
<1>3. ReadySelectNode(spec, s)[1] = "select_bool" /\ ReadySelectNode(spec, s)[3][2]["neutral"][1] = "ready"
  <2>1. PICK f : f = [p \in Profiles |-> ReadyNode(spec, p)]
    OBVIOUS
  <2>2. ReadySelectNode(spec, s)[1] = "select_bool" /\ ReadySelectNode(spec, s)[3][2] = f
    BY <2>1, SelectKind DEF ReadySelectNode
  <2>3. f["neutral"] = ReadyNode(spec, "neutral")
    BY ONLY <1>1, <2>1
  <2>4. ReadyNode(spec, "neutral")[1] = "ready"
    BY ReadyKind
  <2>5. PICK n : n = ReadySelectNode(spec, s)
    OBVIOUS
  <2>6. n[1] = "select_bool" /\ n[3][2] = f
    BY ONLY <2>2, <2>5
  <2>7. n[3][2]["neutral"][1] = "ready"
    BY ONLY <2>3, <2>4, <2>6
  <2> QED
    BY ONLY <2>5, <2>6, <2>7
<1>4. \A kind, what : /\ DistanceSelectNode(spec, s, kind, what)[1] = "select_float"
                      /\ DistanceSelectNode(spec, s, kind, what)[3][2]["neutral"][1] = what
  BY DistanceSelectKind
<1> QED
  BY ONLY <1>2, <1>3, <1>4

LEMMA OneMask ==
  ASSUME NEW spec \in Specs, NEW other \in Specs, NEW a, NEW b, NEW w,
         OfMask(spec, a, w), OfMask(other, b, w), a.node = b.node
  PROVE  a = b
<1>1. PICK s \in Sides : a = AskedSignal(spec, s, w) \/ a = AskedReady(spec, s, w)
  BY DEF OfMask
<1>2. PICK z \in Sides : b = AskedSignal(other, z, w) \/ b = AskedReady(other, z, w)
  BY DEF OfMask
<1>3. \A x, y : /\ AskedSignal(x, y, w).node = SignalSelectNode(x, y)
                /\ AskedReady(x, y, w).node = ReadySelectNode(x, y)
  BY DEF AskedSignal, AskedReady, Asked
<1>4. SignalSelectNode(spec, s) # ReadySelectNode(other, z) /\ ReadySelectNode(spec, s) # SignalSelectNode(other, z)
  BY SelectKinds
<1>5. CASE a = AskedSignal(spec, s, w)
  <2>1. b = AskedSignal(other, z, w) /\ SignalSelectNode(spec, s) = SignalSelectNode(other, z)
    BY <1>2, <1>3, <1>4, <1>5
  <2>2. SelectedSignal(spec, s, w) = SelectedSignal(other, z, w)
    BY <2>1, SignalSelectSame
  <2> QED
    BY <1>5, <2>1, <2>2 DEF AskedSignal
<1>6. CASE a = AskedReady(spec, s, w)
  <2>1. b = AskedReady(other, z, w) /\ ReadySelectNode(spec, s) = ReadySelectNode(other, z)
    BY <1>2, <1>3, <1>4, <1>6
  <2>2. SelectedReady(spec, s, w) = SelectedReady(other, z, w)
    BY <2>1, ReadySelectSame
  <2> QED
    BY <1>6, <2>1, <2>2 DEF AskedReady
<1> QED
  BY <1>1, <1>5, <1>6

LEMMA OneColumnPicked ==
  ASSUME NEW spec \in Specs, NEW other \in Specs, NEW a, NEW b, NEW w,
         OfColumn(spec, a, w), OfColumn(other, b, w), a.node = b.node
  PROVE  a = b
<1>1. PICK s \in Sides, kind \in ToSet(Kinds) : a = AskedRatio(spec, kind, s, w) \/ a = AskedDistance(spec, kind, s, w)
  BY DEF OfColumn
<1>2. PICK z \in Sides, sort \in ToSet(Kinds) : b = AskedRatio(other, sort, z, w) \/ b = AskedDistance(other, sort, z, w)
  BY DEF OfColumn
<1>3. \A x, k, y : /\ AskedRatio(x, k, y, w).node = DistanceSelectNode(x, y, k, "min_ratio")
                   /\ AskedDistance(x, k, y, w).node = DistanceSelectNode(x, y, k, "min_distance")
  BY DEF AskedRatio, AskedDistance, Asked
<1>4. /\ DistanceSelectNode(spec, s, kind, "min_ratio") # DistanceSelectNode(other, z, sort, "min_distance")
      /\ DistanceSelectNode(spec, s, kind, "min_distance") # DistanceSelectNode(other, z, sort, "min_ratio")
  <2>1. \A x, y, k, what : DistanceSelectNode(x, y, k, what)[3][2]["neutral"][1] = what
    BY ONLY DistanceSelectKind
  <2>2. "min_ratio" # "min_distance"
    OBVIOUS
  <2> QED
    BY ONLY <2>1, <2>2
<1>5. CASE a = AskedRatio(spec, kind, s, w)
  <2>1. /\ b = AskedRatio(other, sort, z, w)
        /\ DistanceSelectNode(spec, s, kind, "min_ratio") = DistanceSelectNode(other, z, sort, "min_ratio")
    BY <1>2, <1>3, <1>4, <1>5
  <2>2. SelectedRatio(spec, kind, s, w) = SelectedRatio(other, sort, z, w)
    BY <2>1, DistanceSelectSame
  <2> QED
    BY <1>5, <2>1, <2>2 DEF AskedRatio
<1>6. CASE a = AskedDistance(spec, kind, s, w)
  <2>1. /\ b = AskedDistance(other, sort, z, w)
        /\ DistanceSelectNode(spec, s, kind, "min_distance") = DistanceSelectNode(other, z, sort, "min_distance")
    BY <1>2, <1>3, <1>4, <1>6
  <2>2. SelectedDistance(spec, kind, s, w) = SelectedDistance(other, sort, z, w)
    BY <2>1, DistanceSelectSame
  <2> QED
    BY <1>6, <2>1, <2>2 DEF AskedDistance
<1> QED
  BY <1>1, <1>5, <1>6

\* An asking of the class c.
Of(c, spec, a, w) ==
    \/ c = "direction" /\ OfDirection(a, w)
    \/ c = "blocker" /\ OfBlocker(spec, a, w)
    \/ c = "mask_gated" /\ OfGated(spec, a, w)
    \/ c = "mask_all" /\ OfConjunction(spec, a, w)
    \/ c = "setup" /\ OfSetup(a, w)
    \/ c = "trigger" /\ OfTrigger(spec, a, w)
    \/ c = "signal" /\ OfSignal(spec, a, w)
    \/ c = "distance" /\ OfDistance(spec, a, w)
    \/ c = "any_signal" /\ OfSignals(spec, a, w)
    \/ c = "min_ratio" /\ OfMinRatio(spec, a, w)
    \/ c = "min_distance" /\ OfMinDistance(spec, a, w)
    \/ c = "ready" /\ OfReady(spec, a, w)
    \/ c = "select_bool" /\ OfMask(spec, a, w)
    \/ c = "select_float" /\ OfColumn(spec, a, w)

Others == {"direction", "mask_gated", "mask_all", "setup", "any_signal", "min_ratio", "min_distance", "ready",
           "select_bool", "select_float"}

LEMMA ClassIs ==
  ASSUME NEW n
  PROVE  /\ n[1] \in BlockerIds => Class(n) = "blocker"
         /\ n[1] \in Triggers => Class(n) = "trigger"
         /\ n[1] \in SignalKinds => Class(n) = "signal"
         /\ n[1] \in DistanceKinds => Class(n) = "distance"
         /\ n[1] \in Others => Class(n) = n[1]
<1>1. PICK k : k = n[1]
  OBVIOUS
<1> QED
  BY <1>1 DEF Class, BlockerIds, Triggers, SignalKinds, DistanceKinds, Others

LEMMA MaskClasses ==
  ASSUME NEW spec \in Specs, NEW a, NEW w
  PROVE  /\ OfDirection(a, w) => a.node[1] = "direction"
         /\ OfBlocker(spec, a, w) => a.node[1] \in BlockerIds
         /\ OfGated(spec, a, w) => a.node[1] = "mask_gated"
         /\ OfConjunction(spec, a, w) => a.node[1] = "mask_all"
         /\ OfSetup(a, w) => a.node[1] = "setup"
         /\ OfTrigger(spec, a, w) => a.node[1] \in Triggers
<1>0. \A n, c : Asked(n, c).node = n
  BY DEF Asked
<1>1. OfDirection(a, w) => a.node[1] = "direction"
  BY <1>0, MaskKinds DEF OfDirection
<1>2. ASSUME OfBlocker(spec, a, w) PROVE a.node[1] \in BlockerIds
  <2>1. PICK s \in Sides, b \in ToSet(BlockerItems(spec)) : a = Asked(IntrinsicNode(b, s), Intrinsic(b, s, w))
    BY <1>2 DEF OfBlocker
  <2>2. BlockerAssumed(b)
    BY ItemsAssumedToo
  <2>3. a.node = IntrinsicNode(b, s)
    BY ONLY <1>0, <2>1
  <2> QED
    BY <2>2, <2>3, IntrinsicKind
<1>3. ASSUME OfGated(spec, a, w) PROVE a.node[1] = "mask_gated"
  <2>1. CASE OfAllowed(spec, a, w)
    <3>1. PICK s \in Sides, b \in ToSet(BlockerItems(spec)) :
             a = Asked(AllowedNode(spec, b, s), BlockerAllowed(spec, b, s, w))
      BY <2>1 DEF OfAllowed
    <3>2. a.node = AllowedNode(spec, b, s)
      BY ONLY <1>0, <3>1
    <3> QED
      BY <3>2, AllowedKind
  <2>2. CASE OfFinal(spec, a, w)
    <3>1. PICK s \in Sides, u \in ToSet(spec.setups) : a = Asked(FinalNode(spec, u, s), SetupAllowed(spec, u, s, w))
      BY <2>2 DEF OfFinal
    <3>2. a.node = FinalNode(spec, u, s)
      BY ONLY <1>0, <3>1
    <3> QED
      BY <3>2, FinalKind
  <2> QED
    BY <1>3, <2>1, <2>2 DEF OfGated
<1>4. ASSUME OfConjunction(spec, a, w) PROVE a.node[1] = "mask_all"
  <2>1. PICK s \in Sides : a.node \in {BlockersNode(spec, s), PreSetupNode(spec, s), SetupsNode(spec, s),
                                       PreTriggerNode(spec, s), PreRiskNode(spec, s)}
    BY <1>0, <1>4 DEF OfConjunction
  <2>2. \A M : AllNode(M)[1] = "mask_all"
    BY MaskKinds
  <2>3. BlockersNode(spec, s)[1] = "mask_all" /\ SetupsNode(spec, s)[1] = "mask_all"
    BY <2>2 DEF BlockersNode, SetupsNode
  <2>4. /\ PreSetupNode(spec, s)[1] = "mask_all" /\ PreTriggerNode(spec, s)[1] = "mask_all"
        /\ PreRiskNode(spec, s)[1] = "mask_all"
    BY <2>2 DEF PreSetupNode, PreTriggerNode, PreRiskNode
  <2> QED
    BY ONLY <2>1, <2>3, <2>4
<1>5. OfSetup(a, w) => a.node[1] = "setup"
  BY <1>0, MaskKinds DEF OfSetup
<1>6. ASSUME OfTrigger(spec, a, w) PROVE a.node[1] \in Triggers
  <2>1. PICK s \in Sides : a = Asked(TriggerNode(spec.trigger, s), Triggered(spec.trigger, s, w))
    BY <1>6 DEF OfTrigger
  <2>2. a.node = TriggerNode(spec.trigger, s)
    BY ONLY <1>0, <2>1
  <2>3. TriggerNode(spec.trigger, s)[1] = spec.trigger.id
    BY NodeIs DEF TriggerNode
  <2>4. spec.trigger.id \in Triggers
    BY EntryAssumption DEF SpecAssumed
  <2> QED
    BY ONLY <2>2, <2>3, <2>4
<1> QED
  BY ONLY <1>1, <1>2, <1>3, <1>4, <1>5, <1>6

LEMMA ExitClasses ==
  ASSUME NEW spec \in Specs, NEW a, NEW w
  PROVE  /\ OfSignal(spec, a, w) => a.node[1] \in SignalKinds
         /\ OfDistance(spec, a, w) => a.node[1] \in DistanceKinds
         /\ OfSignals(spec, a, w) => a.node[1] = "any_signal"
         /\ OfMinRatio(spec, a, w) => a.node[1] = "min_ratio"
         /\ OfMinDistance(spec, a, w) => a.node[1] = "min_distance"
         /\ OfReady(spec, a, w) => a.node[1] = "ready"
         /\ OfMask(spec, a, w) => a.node[1] = "select_bool"
         /\ OfColumn(spec, a, w) => a.node[1] = "select_float"
<1>0. \A n, c : Asked(n, c).node = n
  BY DEF Asked
<1>1. ASSUME OfSignal(spec, a, w) PROVE a.node[1] \in SignalKinds
  <2>1. PICK r \in ToSet(Rules(spec)), s \in Sides :
           r.kind = "signal" /\ a = Asked(SignalNode(spec, r, s), Signal(spec, r, s, w))
    BY <1>1 DEF OfSignal
  <2>2. r.id \in Signals
    BY <2>1, RulesAssumed DEF RuleAssumed
  <2>3. a.node = SignalNode(spec, r, s)
    BY ONLY <1>0, <2>1
  <2> QED
    BY <2>2, <2>3, SignalKind DEF SignalKinds, Signals, ShapeKind
<1>2. ASSUME OfDistance(spec, a, w) PROVE a.node[1] \in DistanceKinds
  <2>1. PICK r \in ToSet(Rules(spec)) : a = Asked(DistanceNode(r), <<Distance(r, w), Ratio(r, w)>>)
    BY <1>2 DEF OfDistance
  <2>2. a.node = DistanceNode(r)
    BY ONLY <1>0, <2>1
  <2> QED
    BY <2>2, DistanceKindIs DEF DistanceKinds, DistanceKind
<1>3. ASSUME OfSignals(spec, a, w) PROVE a.node[1] = "any_signal"
  <2>1. PICK p \in Profiles, s \in Sides : a = Asked(SignalsNode(spec, p, s), AnySignal(spec, p, s, w))
    BY <1>3 DEF OfSignals
  <2>2. a.node = SignalsNode(spec, p, s)
    BY ONLY <1>0, <2>1
  <2>3. SignalsNode(spec, p, s)[1] = "any_signal"
    BY NodeIs DEF SignalsNode, Aggregate
  <2> QED
    BY ONLY <2>2, <2>3
<1>4. OfMinRatio(spec, a, w) => a.node[1] = "min_ratio"
  BY <1>0, DistancesKind DEF OfMinRatio
<1>5. OfMinDistance(spec, a, w) => a.node[1] = "min_distance"
  BY <1>0, DistancesKind DEF OfMinDistance
<1>6. OfReady(spec, a, w) => a.node[1] = "ready"
  BY <1>0, AggregateKinds DEF OfReady
<1>7. OfMask(spec, a, w) => a.node[1] = "select_bool"
  BY <1>0, SelectKinds DEF OfMask, AskedSignal, AskedReady
<1>8. OfColumn(spec, a, w) => a.node[1] = "select_float"
  BY <1>0, DistanceSelectKind DEF OfColumn, AskedRatio, AskedDistance
<1> QED
  BY ONLY <1>1, <1>2, <1>3, <1>4, <1>5, <1>6, <1>7, <1>8

\* The node of an asking tells its class.
LEMMA Classed ==
  ASSUME NEW spec \in Specs, NEW a, NEW w, NEW c, Of(c, spec, a, w)
  PROVE  Class(a.node) = c
<1>1. PICK n : n = a.node
  OBVIOUS
<1>2. \/ c = "direction" /\ n[1] = "direction"
      \/ c = "blocker" /\ n[1] \in BlockerIds
      \/ c = "mask_gated" /\ n[1] = "mask_gated"
      \/ c = "mask_all" /\ n[1] = "mask_all"
      \/ c = "setup" /\ n[1] = "setup"
      \/ c = "trigger" /\ n[1] \in Triggers
      \/ c = "signal" /\ n[1] \in SignalKinds
      \/ c = "distance" /\ n[1] \in DistanceKinds
      \/ c = "any_signal" /\ n[1] = "any_signal"
      \/ c = "min_ratio" /\ n[1] = "min_ratio"
      \/ c = "min_distance" /\ n[1] = "min_distance"
      \/ c = "ready" /\ n[1] = "ready"
      \/ c = "select_bool" /\ n[1] = "select_bool"
      \/ c = "select_float" /\ n[1] = "select_float"
  <2> USE <1>1, MaskClasses, ExitClasses
  <2> QED
    BY DEF Of
<1>3. {"direction", "mask_gated", "mask_all", "setup", "any_signal", "min_ratio", "min_distance", "ready",
       "select_bool", "select_float"} = Others
  BY DEF Others
<1> QED
  BY ONLY <1>1, <1>2, <1>3, ClassIs

\* So it tells the column.
LEMMA OneColumn ==
  ASSUME NEW spec \in Specs, NEW other \in Specs, NEW a, NEW b, NEW w, w.n \in Nat, NEW c, NEW d,
         Of(c, spec, a, w), Of(d, other, b, w), a.node = b.node
  PROVE  a = b
<1>1. c = d
  BY Classed
<1>2. Of(c, other, b, w)
  BY <1>1
<1>3. \/ OfDirection(a, w) /\ OfDirection(b, w)
      \/ OfBlocker(spec, a, w) /\ OfBlocker(other, b, w)
      \/ OfGated(spec, a, w) /\ OfGated(other, b, w)
      \/ OfConjunction(spec, a, w) /\ OfConjunction(other, b, w)
      \/ OfSetup(a, w) /\ OfSetup(b, w)
      \/ OfTrigger(spec, a, w) /\ OfTrigger(other, b, w)
      \/ OfSignal(spec, a, w) /\ OfSignal(other, b, w)
      \/ OfDistance(spec, a, w) /\ OfDistance(other, b, w)
      \/ OfSignals(spec, a, w) /\ OfSignals(other, b, w)
      \/ OfMinRatio(spec, a, w) /\ OfMinRatio(other, b, w)
      \/ OfMinDistance(spec, a, w) /\ OfMinDistance(other, b, w)
      \/ OfReady(spec, a, w) /\ OfReady(other, b, w)
      \/ OfMask(spec, a, w) /\ OfMask(other, b, w)
      \/ OfColumn(spec, a, w) /\ OfColumn(other, b, w)
  BY <1>2 DEF Of
<1> QED
  BY <1>3, OneDirected, OneBlocker, OneGated, OneConjunction, OneSetup, OneTrigger, OneSignal, OneDistance, OneSignals,
     OneMinRatio, OneMinDistance, OneReady, OneMask, OneColumnPicked

--------------------------------------------------------------------------------
(* Everything an evaluation asks for is of one of the classes.                *)

LEMMA InShort ==
  ASSUME NEW a, NEW b
  PROVE  ToSet(<<a>>) = {a} /\ ToSet(<<a, b>>) = {a, b}
BY DEF ToSet

LEMMA InTwo ==
  ASSUME NEW f, f = [i \in 1..2 |-> f[i]], NEW x \in ToSet(f)
  PROVE  \E i \in 1..2 : x = f[i]
<1>1. DOMAIN f = 1..2
  OBVIOUS
<1> QED
  BY <1>1 DEF ToSet

LEMMA InThree ==
  ASSUME NEW f, f = [i \in 1..3 |-> f[i]], NEW x \in ToSet(f)
  PROVE  \E i \in 1..3 : x = f[i]
<1>1. DOMAIN f = 1..3
  OBVIOUS
<1> QED
  BY <1>1 DEF ToSet

LEMMA InFlattened ==
  ASSUME NEW n \in Nat, NEW ss, ss = [i \in 1..n |-> ss[i]], \A i \in 1..n : Listed(ss[i]),
         NEW x \in ToSet(FlattenSeq(ss))
  PROVE  \E i \in 1..n : x \in ToSet(ss[i])
<1>1. Lists(ss) /\ DOMAIN ss = 1..n
  BY Pieces
<1> QED
  BY ONLY <1>1, x \in ToSet(FlattenSeq(ss)), FlattenedListed

\* Of the pairs of a list of items, x is the first or the second of one.
LEMMA InPairs ==
  ASSUME NEW items, Listed(items), NEW aa, NEW an, NEW p, NEW q, NEW c, NEW d, Pairs(items, aa, an, p, q, c, d),
         NEW x \in ToSet(FlattenSeq(aa))
  PROVE  \E i \in DOMAIN items : x = Asked(p[i], c[i]) \/ x = Asked(q[i], d[i])
<1>1. Lists(aa)
  BY PairsAsked
<1>2. PICK i \in DOMAIN aa : x \in ToSet(aa[i])
  BY ONLY <1>1, x \in ToSet(FlattenSeq(aa)), FlattenedListed
<1>3. i \in DOMAIN items /\ aa[i] = <<Asked(p[i], c[i]), Asked(q[i], d[i])>>
  BY <1>2 DEF Pairs
<1>4. PICK m, n : m = Asked(p[i], c[i]) /\ n = Asked(q[i], d[i])
  OBVIOUS
<1>5. aa[i] = <<m, n>>
  BY ONLY <1>3, <1>4
<1>6. ToSet(<<m, n>>) = {m, n}
  BY ONLY InShort
<1>7. x = m \/ x = n
  BY ONLY <1>2, <1>5, <1>6
<1> QED
  BY ONLY <1>3, <1>4, <1>7

\* The stages ask for masks.
LEMMA InBlockers ==
  ASSUME NEW spec, SpecAssumed(spec), NEW s \in Sides, NEW w, NEW x \in ToSet(EvaluateDirectionAndBlockers(spec, s, w))
  PROVE  OfDirection(x, w) \/ OfBlocker(spec, x, w) \/ OfGated(spec, x, w) \/ OfConjunction(spec, x, w)
<1>1. PICK items, aa, an :
        /\ items = BlockerItems(spec)
        /\ aa = [i \in DOMAIN items |->
                   <<Asked(IntrinsicNode(items[i], s), Intrinsic(items[i], s, w)),
                     Asked(AllowedNode(spec, items[i], s), BlockerAllowed(spec, items[i], s, w))>>]
        /\ an = [i \in DOMAIN items |-> <<IntrinsicNode(items[i], s), AllowedNode(spec, items[i], s)>>]
  OBVIOUS
<1>2. PICK p, q, c, d :
        /\ p = [i \in DOMAIN items |-> IntrinsicNode(items[i], s)]
        /\ q = [i \in DOMAIN items |-> AllowedNode(spec, items[i], s)]
        /\ c = [i \in DOMAIN items |-> Intrinsic(items[i], s, w)]
        /\ d = [i \in DOMAIN items |-> BlockerAllowed(spec, items[i], s, w)]
  OBVIOUS
<1>3. Pairs(items, aa, an, p, q, c, d)
  BY <1>1, <1>2 DEF Pairs
<1>4. Listed(items)
  BY <1>1, ItemsListed
<1>5. PICK g : g = FlattenSeq(aa)
  OBVIOUS
<1>6. Listed(g)
  BY ONLY <1>3, <1>4, <1>5, PairsAsked
<1>7. PICK k, m, n : /\ k = Asked(DirectionNode(s), Direction(s, w)) /\ m = Asked(BlockersNode(spec, s), BlockersOk(spec, s, w))
                     /\ n = Asked(PreSetupNode(spec, s), PreSetup(spec, s, w))
  OBVIOUS
<1>8. PICK h, t : h = <<k>> /\ t = <<m, n>>
  OBVIOUS
<1>9. Listed(h) /\ Listed(t) /\ ToSet(h) = {k} /\ ToSet(t) = {m, n}
  BY ONLY <1>8, Short, InShort
<1>10. x \in ToSet(h \o g \o t)
  BY <1>1, <1>5, <1>7, <1>8 DEF EvaluateDirectionAndBlockers
<1>11. x \in ToSet(h) \/ x \in ToSet(g) \/ x \in ToSet(t)
  BY ONLY <1>6, <1>9, <1>10, ThreeJoined
<1>12. CASE x \in ToSet(g)
  <2>1. PICK i \in DOMAIN items : x = Asked(p[i], c[i]) \/ x = Asked(q[i], d[i])
    BY ONLY <1>3, <1>4, <1>5, <1>12, InPairs
  <2>2. PICK b : b = items[i]
    OBVIOUS
  <2>3. b \in ToSet(BlockerItems(spec))
    BY <1>1, <2>1, <2>2 DEF ToSet
  <2>4. x = Asked(IntrinsicNode(b, s), Intrinsic(b, s, w)) \/ x = Asked(AllowedNode(spec, b, s), BlockerAllowed(spec, b, s, w))
    BY ONLY <1>2, <2>1, <2>2
  <2> QED
    BY <2>3, <2>4 DEF OfBlocker, OfGated, OfAllowed
<1>13. CASE x \in ToSet(h) \/ x \in ToSet(t)
  <2>1. x = k \/ x = m \/ x = n
    BY ONLY <1>9, <1>13
  <2> QED
    BY <1>7, <2>1 DEF OfDirection, OfConjunction
<1> QED
  BY ONLY <1>11, <1>12, <1>13

LEMMA InSetups ==
  ASSUME NEW spec, SpecAssumed(spec), NEW s \in Sides, NEW w, NEW x \in ToSet(EvaluateSetups(spec, s, w))
  PROVE  OfSetup(x, w) \/ OfGated(spec, x, w) \/ OfConjunction(spec, x, w)
<1>1. PICK items, aa, an :
        /\ items = spec.setups
        /\ aa = [i \in DOMAIN items |->
                   <<Asked(LocalNode(s), Local(w)),
                     Asked(FinalNode(spec, items[i], s), SetupAllowed(spec, items[i], s, w))>>]
        /\ an = [i \in DOMAIN items |-> <<LocalNode(s), FinalNode(spec, items[i], s)>>]
  OBVIOUS
<1>2. PICK p, q, c, d :
        /\ p = [i \in DOMAIN items |-> LocalNode(s)]
        /\ q = [i \in DOMAIN items |-> FinalNode(spec, items[i], s)]
        /\ c = [i \in DOMAIN items |-> Local(w)]
        /\ d = [i \in DOMAIN items |-> SetupAllowed(spec, items[i], s, w)]
  OBVIOUS
<1>3. Pairs(items, aa, an, p, q, c, d)
  BY <1>1, <1>2 DEF Pairs
<1>4. Listed(items)
  BY <1>1, ItemsListed
<1>5. PICK g : g = FlattenSeq(aa)
  OBVIOUS
<1>6. Listed(g)
  BY ONLY <1>3, <1>4, <1>5, PairsAsked
<1>7. PICK m, n : /\ m = Asked(SetupsNode(spec, s), SetupsOk(spec, s, w))
                  /\ n = Asked(PreTriggerNode(spec, s), PreTrigger(spec, s, w))
  OBVIOUS
<1>8. PICK t : t = <<m, n>>
  OBVIOUS
<1>9. Listed(t) /\ ToSet(t) = {m, n}
  BY ONLY <1>8, Short, InShort
<1>10. x \in ToSet(g \o t)
  BY <1>1, <1>5, <1>7, <1>8 DEF EvaluateSetups
<1>11. x \in ToSet(g) \/ x \in ToSet(t)
  BY ONLY <1>6, <1>9, <1>10, TimesJoined
<1>12. CASE x \in ToSet(g)
  <2>1. PICK i \in DOMAIN items : x = Asked(p[i], c[i]) \/ x = Asked(q[i], d[i])
    BY ONLY <1>3, <1>4, <1>5, <1>12, InPairs
  <2>2. PICK u : u = items[i]
    OBVIOUS
  <2>3. u \in ToSet(spec.setups)
    BY <1>1, <2>1, <2>2 DEF ToSet
  <2>4. x = Asked(LocalNode(s), Local(w)) \/ x = Asked(FinalNode(spec, u, s), SetupAllowed(spec, u, s, w))
    BY ONLY <1>2, <2>1, <2>2
  <2> QED
    BY <2>3, <2>4 DEF OfSetup, OfGated, OfFinal
<1>13. CASE x \in ToSet(t)
  <2>1. x = m \/ x = n
    BY ONLY <1>9, <1>13
  <2> QED
    BY <1>7, <2>1 DEF OfConjunction
<1> QED
  BY ONLY <1>11, <1>12, <1>13

LEMMA InTriggers ==
  ASSUME NEW spec, NEW s \in Sides, NEW w, NEW x \in ToSet(EvaluateTriggers(spec, s, w))
  PROVE  OfTrigger(spec, x, w) \/ OfConjunction(spec, x, w)
<1>1. PICK m, n : /\ m = Asked(TriggerNode(spec.trigger, s), Triggered(spec.trigger, s, w))
                  /\ n = Asked(PreRiskNode(spec, s), PreRisk(spec, s, w))
  OBVIOUS
<1>2. x \in ToSet(<<m, n>>)
  BY <1>1 DEF EvaluateTriggers
<1>3. x = m \/ x = n
  <2>1. ToSet(<<m, n>>) = {m, n}
    BY ONLY InShort
  <2> QED
    BY ONLY <1>2, <2>1
<1> QED
  BY <1>1, <1>3 DEF OfTrigger, OfConjunction

\* The exit policy asks for rules, aggregates and selections.
LEMMA InRule ==
  ASSUME NEW spec, NEW r \in ToSet(Rules(spec)), NEW w, NEW x \in ToSet(AskedRule(spec, r, w))
  PROVE  OfSignal(spec, x, w) \/ OfDistance(spec, x, w)
<1>1. CASE r.kind = "signal"
  <2>1. PICK a : a = [i \in 1..2 |-> Asked(SignalNode(spec, r, TwoSides[i]), Signal(spec, r, TwoSides[i], w))]
    OBVIOUS
  <2>2. x \in ToSet(a) /\ a = [i \in 1..2 |-> a[i]]
    BY <1>1, <2>1 DEF AskedRule
  <2>3. PICK i \in 1..2 : x = a[i]
    BY ONLY <2>2, InTwo
  <2>4. PICK s : s = TwoSides[i]
    OBVIOUS
  <2>5. s \in Sides
    BY <2>3, <2>4 DEF TwoSides, Sides
  <2>6. x = Asked(SignalNode(spec, r, s), Signal(spec, r, s, w))
    BY ONLY <2>1, <2>3, <2>4
  <2> QED
    BY <1>1, <2>5, <2>6 DEF OfSignal
<1>2. CASE r.kind # "signal"
  <2>1. PICK m : m = Asked(DistanceNode(r), <<Distance(r, w), Ratio(r, w)>>)
    OBVIOUS
  <2>2. x \in ToSet(<<m>>)
    BY <1>2, <2>1 DEF AskedRule
  <2>3. x = m
    BY ONLY <2>2, InShort
  <2> QED
    BY <2>1, <2>3 DEF OfDistance
<1> QED
  BY <1>1, <1>2

LEMMA InProfile ==
  ASSUME NEW spec, NEW p \in Profiles, NEW w, NEW x \in ToSet(AskedProfile(spec, p, w))
  PROVE  OfSignals(spec, x, w) \/ OfMinRatio(spec, x, w) \/ OfMinDistance(spec, x, w)
<1>1. PICK a, b, c :
         /\ a = [i \in 1..2 |-> Asked(SignalsNode(spec, p, TwoSides[i]), AnySignal(spec, p, TwoSides[i], w))]
         /\ b = [k \in 1..2 |-> Asked(DistancesNode(spec, p, Kinds[k], "min_ratio"), RatioOf(spec, p, Kinds[k], w))]
         /\ c = [k \in 1..2 |-> Asked(DistancesNode(spec, p, Kinds[k], "min_distance"), DistanceOf(spec, p, Kinds[k], w))]
  OBVIOUS
<1>2. x \in ToSet(a \o b \o c)
  BY <1>1 DEF AskedProfile
<1>3. a = [i \in 1..2 |-> a[i]] /\ b = [i \in 1..2 |-> b[i]] /\ c = [i \in 1..2 |-> c[i]]
  BY ONLY <1>1
<1>4. Listed(a) /\ Listed(b) /\ Listed(c)
  BY ONLY <1>3, TwoListed
<1>5. x \in ToSet(a) \/ x \in ToSet(b) \/ x \in ToSet(c)
  BY ONLY <1>2, <1>4, ThreeJoined
<1>6. \A i \in 1..2 : TwoSides[i] \in Sides /\ Kinds[i] \in ToSet(Kinds)
  BY DEF TwoSides, Sides, Kinds, ToSet
<1>7. CASE x \in ToSet(a)
  <2>1. PICK i \in 1..2 : x = a[i]
    BY ONLY <1>3, <1>7, InTwo
  <2>2. PICK s : s = TwoSides[i]
    OBVIOUS
  <2>3. x = Asked(SignalsNode(spec, p, s), AnySignal(spec, p, s, w)) /\ s \in Sides
    BY ONLY <1>1, <1>6, <2>1, <2>2
  <2> QED
    BY <2>3 DEF OfSignals
<1>8. CASE x \in ToSet(b)
  <2>1. PICK i \in 1..2 : x = b[i]
    BY ONLY <1>3, <1>8, InTwo
  <2>2. PICK k : k = Kinds[i]
    OBVIOUS
  <2>3. x = Asked(DistancesNode(spec, p, k, "min_ratio"), RatioOf(spec, p, k, w)) /\ k \in ToSet(Kinds)
    BY ONLY <1>1, <1>6, <2>1, <2>2
  <2> QED
    BY <2>3 DEF OfMinRatio
<1>9. CASE x \in ToSet(c)
  <2>1. PICK i \in 1..2 : x = c[i]
    BY ONLY <1>3, <1>9, InTwo
  <2>2. PICK k : k = Kinds[i]
    OBVIOUS
  <2>3. x = Asked(DistancesNode(spec, p, k, "min_distance"), DistanceOf(spec, p, k, w)) /\ k \in ToSet(Kinds)
    BY ONLY <1>1, <1>6, <2>1, <2>2
  <2> QED
    BY <2>3 DEF OfMinDistance
<1> QED
  BY ONLY <1>5, <1>7, <1>8, <1>9

LEMMA Indexed ==
  /\ \A i \in 1..2 : TwoSides[i] \in Sides /\ Kinds[i] \in ToSet(Kinds)
  /\ \A i \in 1..3 : InOrder[i] \in Profiles
BY DEF TwoSides, Sides, Kinds, ToSet, InOrder, Profiles

\* The columns selected for both kinds and both sides: x is the one of one of them.
LEMMA InRatios ==
  ASSUME NEW spec, NEW w,
         NEW x \in ToSet(FlattenSeq([k \in 1..2 |-> [i \in 1..2 |-> AskedRatio(spec, Kinds[k], TwoSides[i], w)]]))
  PROVE  OfColumn(spec, x, w)
<1>1. PICK bb : bb = [k \in 1..2 |-> [i \in 1..2 |-> AskedRatio(spec, Kinds[k], TwoSides[i], w)]]
  OBVIOUS
<1>2. bb = [k \in 1..2 |-> bb[k]] /\ \A k \in 1..2 : bb[k] = [i \in 1..2 |-> AskedRatio(spec, Kinds[k], TwoSides[i], w)]
  BY ONLY <1>1
<1>3. ASSUME NEW k \in 1..2 PROVE bb[k] = [i \in 1..2 |-> bb[k][i]]
  BY ONLY <1>2
<1>4. \A k \in 1..2 : Listed(bb[k])
  BY ONLY <1>3, TwoListed
<1>5. Lists(bb) /\ DOMAIN bb = 1..2
  BY ONLY <1>2, <1>4, Pieces
<1>6. PICK k \in 1..2 : x \in ToSet(bb[k])
  BY <1>1, <1>5, FlattenedListed
<1>7. PICK f : f = bb[k]
  OBVIOUS
<1>8. f = [i \in 1..2 |-> f[i]] /\ x \in ToSet(f)
  BY ONLY <1>3, <1>6, <1>7
<1>9. PICK i \in 1..2 : x = f[i]
  BY ONLY <1>8, InTwo
<1>10. PICK kind, s : kind = Kinds[k] /\ s = TwoSides[i]
  OBVIOUS
<1>11. x = AskedRatio(spec, kind, s, w) /\ kind \in ToSet(Kinds) /\ s \in Sides
  BY ONLY <1>2, <1>7, <1>9, <1>10, Indexed
<1> QED
  BY <1>11 DEF OfColumn

LEMMA InDistances ==
  ASSUME NEW spec, NEW w,
         NEW x \in ToSet(FlattenSeq([k \in 1..2 |-> [i \in 1..2 |-> AskedDistance(spec, Kinds[k], TwoSides[i], w)]]))
  PROVE  OfColumn(spec, x, w)
<1>1. PICK bb : bb = [k \in 1..2 |-> [i \in 1..2 |-> AskedDistance(spec, Kinds[k], TwoSides[i], w)]]
  OBVIOUS
<1>2. bb = [k \in 1..2 |-> bb[k]]
      /\ \A k \in 1..2 : bb[k] = [i \in 1..2 |-> AskedDistance(spec, Kinds[k], TwoSides[i], w)]
  BY ONLY <1>1
<1>3. ASSUME NEW k \in 1..2 PROVE bb[k] = [i \in 1..2 |-> bb[k][i]]
  BY ONLY <1>2
<1>4. \A k \in 1..2 : Listed(bb[k])
  BY ONLY <1>3, TwoListed
<1>5. Lists(bb) /\ DOMAIN bb = 1..2
  BY ONLY <1>2, <1>4, Pieces
<1>6. PICK k \in 1..2 : x \in ToSet(bb[k])
  BY <1>1, <1>5, FlattenedListed
<1>7. PICK f : f = bb[k]
  OBVIOUS
<1>8. f = [i \in 1..2 |-> f[i]] /\ x \in ToSet(f)
  BY ONLY <1>3, <1>6, <1>7
<1>9. PICK i \in 1..2 : x = f[i]
  BY ONLY <1>8, InTwo
<1>10. PICK kind, s : kind = Kinds[k] /\ s = TwoSides[i]
  OBVIOUS
<1>11. x = AskedDistance(spec, kind, s, w) /\ kind \in ToSet(Kinds) /\ s \in Sides
  BY ONLY <1>2, <1>7, <1>9, <1>10, Indexed
<1> QED
  BY <1>11 DEF OfColumn

OfExits(spec, x, w) ==
    \/ OfSignal(spec, x, w) \/ OfDistance(spec, x, w)
    \/ OfSignals(spec, x, w) \/ OfMinRatio(spec, x, w) \/ OfMinDistance(spec, x, w)
    \/ OfReady(spec, x, w) \/ OfMask(spec, x, w) \/ OfColumn(spec, x, w)

LEMMA InRules ==
  ASSUME NEW spec, SpecAssumed(spec), NEW w,
         NEW x \in ToSet(FlattenSeq([i \in DOMAIN Rules(spec) |-> AskedRule(spec, Rules(spec)[i], w)]))
  PROVE  OfSignal(spec, x, w) \/ OfDistance(spec, x, w)
<1>1. PICK rs : rs = Rules(spec)
  OBVIOUS
<1>2. PICK n : n \in Nat /\ DOMAIN rs = 1..n
  BY <1>1, ItemsListed, TimesIs
<1>3. PICK aa : aa = [i \in 1..n |-> AskedRule(spec, rs[i], w)]
  OBVIOUS
<1>4. \A i \in 1..n : aa[i] = AskedRule(spec, rs[i], w)
  BY ONLY <1>3
<1>5. \A i \in 1..n : Listed(aa[i])
  BY <1>4, RuleAsked
<1>6. aa = [i \in 1..n |-> aa[i]] /\ x \in ToSet(FlattenSeq(aa))
  BY <1>1, <1>2, <1>3
<1>7. PICK i \in 1..n : x \in ToSet(aa[i])
  BY ONLY <1>2, <1>5, <1>6, InFlattened
<1>8. PICK r : r = rs[i]
  OBVIOUS
<1>9. r \in ToSet(Rules(spec))
  BY <1>1, <1>2, <1>7, <1>8 DEF ToSet
<1>10. x \in ToSet(AskedRule(spec, r, w))
  BY ONLY <1>4, <1>7, <1>8
<1> QED
  BY ONLY <1>9, <1>10, InRule

LEMMA InProfiles ==
  ASSUME NEW spec, NEW w, NEW x \in ToSet(FlattenSeq([i \in 1..3 |-> AskedProfile(spec, InOrder[i], w)]))
  PROVE  OfSignals(spec, x, w) \/ OfMinRatio(spec, x, w) \/ OfMinDistance(spec, x, w)
<1>1. PICK aa : aa = [i \in 1..3 |-> AskedProfile(spec, InOrder[i], w)]
  OBVIOUS
<1>2. aa = [i \in 1..3 |-> aa[i]] /\ \A i \in 1..3 : aa[i] = AskedProfile(spec, InOrder[i], w)
  BY ONLY <1>1
<1>3. \A i \in 1..3 : Listed(aa[i])
  BY <1>2, ProfileAsked
<1>4. 3 \in Nat /\ x \in ToSet(FlattenSeq(aa))
  BY <1>1
<1>5. PICK i \in 1..3 : x \in ToSet(aa[i])
  BY ONLY <1>2, <1>3, <1>4, InFlattened
<1>6. PICK p : p = InOrder[i]
  OBVIOUS
<1>7. p \in Profiles /\ x \in ToSet(AskedProfile(spec, p, w))
  BY ONLY <1>2, <1>5, <1>6, Indexed
<1> QED
  BY ONLY <1>7, InProfile

LEMMA InExits ==
  ASSUME NEW spec, SpecAssumed(spec), NEW w, NEW x \in ToSet(EvaluateExitPolicy(spec, w))
  PROVE  OfExits(spec, x, w)
<1>1. PICK f, g, h :
         /\ f = FlattenSeq([i \in DOMAIN Rules(spec) |-> AskedRule(spec, Rules(spec)[i], w)])
         /\ g = FlattenSeq([i \in 1..3 |-> AskedProfile(spec, InOrder[i], w)])
         /\ h = [i \in 1..3 |-> Asked(ReadyNode(spec, InOrder[i]), Ready(spec, InOrder[i], w))]
  OBVIOUS
<1>2. PICK a, b, c, d :
         /\ a = [i \in 1..2 |-> AskedSignal(spec, TwoSides[i], w)]
         /\ b = FlattenSeq([k \in 1..2 |-> [i \in 1..2 |-> AskedRatio(spec, Kinds[k], TwoSides[i], w)]])
         /\ c = FlattenSeq([k \in 1..2 |-> [i \in 1..2 |-> AskedDistance(spec, Kinds[k], TwoSides[i], w)]])
         /\ d = [i \in 1..2 |-> AskedReady(spec, TwoSides[i], w)]
  OBVIOUS
<1>3. Listed(f)
  <2>1. PICK cc : cc = [i \in DOMAIN Rules(spec) |-> RuleConsumptions(spec, Rules(spec)[i])]
    OBVIOUS
  <2> QED
    BY <1>1, <2>1, RulesAsked
<1>4. Listed(g)
  <2>1. PICK cc, r : /\ cc = [i \in 1..3 |-> ProfileConsumptions(spec, InOrder[i])]
                     /\ r = [i \in 1..3 |-> ReadyNode(spec, InOrder[i])]
    OBVIOUS
  <2> QED
    BY ONLY <1>1, <2>1, ProfilesAsked
<1>5. h = [i \in 1..3 |-> h[i]] /\ Listed(h)
  <2>1. h = [i \in 1..3 |-> h[i]]
    BY ONLY <1>1
  <2> QED
    BY ONLY <2>1, ThreeListed
<1>6. Listed(a) /\ Listed(b) /\ Listed(c) /\ Listed(d)
  BY ONLY <1>2, SelectsAsked
<1>7. PICK u, v : u = f \o g \o a /\ v = u \o b \o c
  OBVIOUS
<1>8. x \in ToSet(v \o h \o d)
  BY <1>1, <1>2, <1>7 DEF EvaluateExitPolicy
<1>9. Listed(u) /\ (x \in ToSet(u) <=> x \in ToSet(f) \/ x \in ToSet(g) \/ x \in ToSet(a))
  BY ONLY <1>3, <1>4, <1>6, <1>7, ThreeJoined
<1>10. Listed(v) /\ (x \in ToSet(v) <=> x \in ToSet(u) \/ x \in ToSet(b) \/ x \in ToSet(c))
  BY ONLY <1>6, <1>7, <1>9, ThreeJoined
<1>11. x \in ToSet(v) \/ x \in ToSet(h) \/ x \in ToSet(d)
  BY ONLY <1>5, <1>6, <1>8, <1>10, ThreeJoined
<1>12. CASE x \in ToSet(f)
  BY <1>1, <1>12, InRules DEF OfExits
<1>13. CASE x \in ToSet(g)
  BY <1>1, <1>13, InProfiles DEF OfExits
<1>14. CASE x \in ToSet(b)
  BY <1>2, <1>14, InRatios DEF OfExits
<1>15. CASE x \in ToSet(c)
  BY <1>2, <1>15, InDistances DEF OfExits
<1>16. CASE x \in ToSet(a)
  <2>1. a = [i \in 1..2 |-> a[i]]
    BY ONLY <1>2
  <2>2. PICK i \in 1..2 : x = a[i]
    BY ONLY <1>16, <2>1, InTwo
  <2>3. PICK s : s = TwoSides[i]
    OBVIOUS
  <2>4. x = AskedSignal(spec, s, w) /\ s \in Sides
    BY ONLY <1>2, <2>2, <2>3, Indexed
  <2> QED
    BY <2>4 DEF OfExits, OfMask
<1>17. CASE x \in ToSet(d)
  <2>1. d = [i \in 1..2 |-> d[i]]
    BY ONLY <1>2
  <2>2. PICK i \in 1..2 : x = d[i]
    BY ONLY <1>17, <2>1, InTwo
  <2>3. PICK s : s = TwoSides[i]
    OBVIOUS
  <2>4. x = AskedReady(spec, s, w) /\ s \in Sides
    BY ONLY <1>2, <2>2, <2>3, Indexed
  <2> QED
    BY <2>4 DEF OfExits, OfMask
<1>18. CASE x \in ToSet(h)
  <2>1. PICK i \in 1..3 : x = h[i]
    BY ONLY <1>5, <1>18, InThree
  <2>2. PICK p : p = InOrder[i]
    OBVIOUS
  <2>3. x = Asked(ReadyNode(spec, p), Ready(spec, p, w)) /\ p \in Profiles
    BY ONLY <1>1, <2>1, <2>2, Indexed
  <2> QED
    BY <2>3 DEF OfExits, OfReady
<1> QED
  BY ONLY <1>9, <1>10, <1>11, <1>12, <1>13, <1>14, <1>15, <1>16, <1>17, <1>18

OfMasks(spec, x, w) ==
    \/ OfDirection(x, w) \/ OfBlocker(spec, x, w) \/ OfGated(spec, x, w) \/ OfConjunction(spec, x, w)
    \/ OfSetup(x, w) \/ OfTrigger(spec, x, w)

\* What one of the three stages asks for on one of the sides.
LEMMA InStages ==
  ASSUME NEW spec \in Specs, NEW w,
         NEW e, e = FlattenSeq([i \in DOMAIN spec.sides |-> EvaluateDirectionAndBlockers(spec, spec.sides[i], w)]),
         NEW f, f = FlattenSeq([i \in DOMAIN spec.sides |-> EvaluateSetups(spec, spec.sides[i], w)]),
         NEW g, g = FlattenSeq([i \in DOMAIN spec.sides |-> EvaluateTriggers(spec, spec.sides[i], w)]),
         NEW x, x \in ToSet(e) \/ x \in ToSet(f) \/ x \in ToSet(g)
  PROVE  OfMasks(spec, x, w)
<1>0. SpecAssumed(spec)
  BY EntryAssumption
<1>1. PICK n : n \in Nat /\ DOMAIN spec.sides = 1..n
  BY <1>0, ItemsListed, TimesIs
<1>2. \A i \in 1..n : spec.sides[i] \in Sides
  BY <1>0, <1>1 DEF SpecAssumed, ToSet
<1>3. PICK ee, ff, gg :
         /\ ee = [i \in 1..n |-> EvaluateDirectionAndBlockers(spec, spec.sides[i], w)]
         /\ ff = [i \in 1..n |-> EvaluateSetups(spec, spec.sides[i], w)]
         /\ gg = [i \in 1..n |-> EvaluateTriggers(spec, spec.sides[i], w)]
  OBVIOUS
<1>4. e = FlattenSeq(ee) /\ f = FlattenSeq(ff) /\ g = FlattenSeq(gg)
  BY <1>1, <1>3
<1>5. \A i \in 1..n : /\ ee[i] = EvaluateDirectionAndBlockers(spec, spec.sides[i], w)
                      /\ ff[i] = EvaluateSetups(spec, spec.sides[i], w)
                      /\ gg[i] = EvaluateTriggers(spec, spec.sides[i], w)
  BY ONLY <1>3
<1>6. ee = [i \in 1..n |-> ee[i]] /\ ff = [i \in 1..n |-> ff[i]] /\ gg = [i \in 1..n |-> gg[i]]
  BY ONLY <1>3
<1>7. \A i \in 1..n : Listed(ee[i])
  BY <1>0, <1>5, BlockersAsked
<1>8. \A i \in 1..n : Listed(ff[i])
  BY <1>0, <1>5, SetupsAsked
<1>9. \A i \in 1..n : Listed(gg[i])
  BY <1>0, <1>5, TriggersAsked
<1>10. CASE x \in ToSet(e)
  <2>1. x \in ToSet(FlattenSeq(ee))
    BY ONLY <1>4, <1>10
  <2>2. PICK i \in 1..n : x \in ToSet(ee[i])
    BY ONLY <1>1, <1>6, <1>7, <2>1, InFlattened
  <2>3. PICK s : s = spec.sides[i]
    OBVIOUS
  <2>4. s \in Sides /\ x \in ToSet(EvaluateDirectionAndBlockers(spec, s, w))
    BY ONLY <1>2, <1>5, <2>2, <2>3
  <2> QED
    BY <1>0, <2>4, InBlockers DEF OfMasks
<1>11. CASE x \in ToSet(f)
  <2>1. x \in ToSet(FlattenSeq(ff))
    BY ONLY <1>4, <1>11
  <2>2. PICK i \in 1..n : x \in ToSet(ff[i])
    BY ONLY <1>1, <1>6, <1>8, <2>1, InFlattened
  <2>3. PICK s : s = spec.sides[i]
    OBVIOUS
  <2>4. s \in Sides /\ x \in ToSet(EvaluateSetups(spec, s, w))
    BY ONLY <1>2, <1>5, <2>2, <2>3
  <2> QED
    BY <1>0, <2>4, InSetups DEF OfMasks
<1>12. CASE x \in ToSet(g)
  <2>1. x \in ToSet(FlattenSeq(gg))
    BY ONLY <1>4, <1>12
  <2>2. PICK i \in 1..n : x \in ToSet(gg[i])
    BY ONLY <1>1, <1>6, <1>9, <2>1, InFlattened
  <2>3. PICK s : s = spec.sides[i]
    OBVIOUS
  <2>4. s \in Sides /\ x \in ToSet(EvaluateTriggers(spec, s, w))
    BY ONLY <1>2, <1>5, <2>2, <2>3
  <2> QED
    BY <2>4, InTriggers DEF OfMasks
<1> QED
  BY ONLY <1>10, <1>11, <1>12, x \in ToSet(e) \/ x \in ToSet(f) \/ x \in ToSet(g)

\* So everything the evaluation asks for has its class.
LEMMA Evaluated ==
  ASSUME NEW spec \in Specs, NEW w, NEW x \in ToSet(Evaluation(spec, w))
  PROVE  \E c : Of(c, spec, x, w)
<1>0. SpecAssumed(spec)
  BY EntryAssumption
<1>1. PICK e, f, g, p :
         /\ e = FlattenSeq([i \in DOMAIN spec.sides |-> EvaluateDirectionAndBlockers(spec, spec.sides[i], w)])
         /\ f = FlattenSeq([i \in DOMAIN spec.sides |-> EvaluateSetups(spec, spec.sides[i], w)])
         /\ g = FlattenSeq([i \in DOMAIN spec.sides |-> EvaluateTriggers(spec, spec.sides[i], w)])
         /\ p = FlattenSeq([i \in DOMAIN spec.sides |-> SideMasks(spec, spec.sides[i])])
  OBVIOUS
<1>2. PICK h, u : h = (IF DistinctInstances(spec) THEN EvaluateExitPolicy(spec, w) ELSE <<>>) /\ u = e \o f \o g
  OBVIOUS
<1>3. x \in ToSet(u \o h)
  BY <1>1, <1>2 DEF Evaluation
<1>4. Listed(e) /\ Listed(f) /\ Listed(g)
  BY ONLY <1>0, <1>1, StagesAdd
<1>5. /\ Listed(h)
      /\ x \in ToSet(h) => x \in ToSet(EvaluateExitPolicy(spec, w))
  <2>1. CASE DistinctInstances(spec)
    BY <1>0, <1>2, <2>1, ExitsAdd
  <2>2. CASE ~ DistinctInstances(spec)
    <3>1. h = <<>>
      BY <1>2, <2>2
    <3>2. ToSet(<<>>) = {}
      BY DEF ToSet
    <3> QED
      BY <3>1, <3>2, Short
  <2> QED
    BY <2>1, <2>2
<1>6. Listed(u) /\ (x \in ToSet(u) <=> x \in ToSet(e) \/ x \in ToSet(f) \/ x \in ToSet(g))
  BY ONLY <1>2, <1>4, ThreeJoined
<1>7. x \in ToSet(u) \/ x \in ToSet(h)
  BY ONLY <1>3, <1>5, <1>6, TimesJoined
<1>8. CASE x \in ToSet(u)
  <2>1. x \in ToSet(e) \/ x \in ToSet(f) \/ x \in ToSet(g)
    BY ONLY <1>6, <1>8
  <2>2. OfMasks(spec, x, w)
    BY ONLY <1>1, <2>1, spec \in Specs, InStages
  <2> QED
    BY <2>2 DEF OfMasks, Of
<1>9. CASE x \in ToSet(h)
  <2>1. OfExits(spec, x, w)
    BY <1>0, <1>5, <1>9, InExits
  <2> QED
    BY <2>1 DEF OfExits, Of
<1> QED
  BY ONLY <1>7, <1>8, <1>9

\* What is told apart by a name is as much as there are names.
LEMMA Named ==
  ASSUME NEW S, IsFiniteSet(S), \A a, b \in S : a.node = b.node => a = b
  PROVE  Cardinality(S) = Cardinality({a.node : a \in S})
<1>1. PICK T : T = {a.node : a \in S}
  OBVIOUS
<1>2. PICK f : f = [a \in S |-> a.node]
  OBVIOUS
<1>3. f \in [S -> T] /\ DOMAIN f = S
  BY <1>1, <1>2
<1>4. \A a, b \in S : f[a] = f[b] => a = b
  BY <1>2
<1>5. \A t \in T : \E a \in S : f[a] = t
  BY <1>1, <1>2
<1>6. f \in Injection(S, T)
  BY <1>3, <1>4 DEF Injection, IsInjective
<1>7. f \in Surjection(S, T)
  BY <1>3, <1>5 DEF Surjection
<1>8. Cardinality(T) = Cardinality(S)
  BY <1>6, <1>7, FS_Surjection
<1> QED
  BY <1>1, <1>8

LEMMA TypedSame ==
  ASSUME Typed
  PROVE  SameNodeSameColumn
<1>1. PICK w : w = World
  OBVIOUS
<1>2. w.n \in Nat
  BY <1>1, WorldSound DEF Sound
<1>3. PICK U, S : U = {ToSet(Evaluation(spec, w)) : spec \in Specs} /\ S = UNION U
  OBVIOUS
<1>4. IsFiniteSet(S)
  <2>1. \A spec \in Specs : IsFiniteSet(ToSet(Evaluation(spec, w)))
    BY EntryAssumption, EvaluationAdds, TimesIs
  <2>2. \A T \in U : IsFiniteSet(T)
    BY <1>3, <2>1
  <2>3. IsFiniteSet(U)
    <3>1. PICK f : f = [spec \in Specs |-> ToSet(Evaluation(spec, w))]
      OBVIOUS
    <3>2. IsFiniteSet({f[spec] : spec \in Specs})
      BY EntryAssumption, FiniteValues
    <3>3. {f[spec] : spec \in Specs} = U
      BY <1>3, <3>1
    <3> QED
      BY <3>2, <3>3
  <2> QED
    BY <1>3, <2>2, <2>3, FS_UNION
<1>5. ASSUME NEW a \in S, NEW b \in S, a.node = b.node PROVE a = b
  <2>1. PICK spec \in Specs : a \in ToSet(Evaluation(spec, w))
    BY <1>3
  <2>2. PICK other \in Specs : b \in ToSet(Evaluation(other, w))
    BY <1>3
  <2>3. PICK c : Of(c, spec, a, w)
    BY <2>1, Evaluated
  <2>4. PICK d : Of(d, other, b, w)
    BY <2>2, Evaluated
  <2> QED
    BY ONLY <1>2, <1>5, <2>3, <2>4, spec \in Specs, other \in Specs, OneColumn
<1>6. Cardinality(S) = Cardinality({a.node : a \in S})
  BY ONLY <1>4, <1>5, Named
<1> QED
  BY <1>1, <1>3, <1>6 DEF SameNodeSameColumn

\* Whatever the specifications evaluated on one frame, two equal nodes stand
\* for one column: a candidate, a side, a role or a rule is never served
\* another's, although nodes leave out references, instances, the kind of a
\* distance rule, the order and the number of the masks that are joined
\* (resolve_* of direction_blockers.py, context_consumption.py, triggers.py
\* and exits.py).
THEOREM NodesTell == Spec => []SameNodeSameColumn
<1>1. Typed => SameNodeSameColumn
  BY TypedSame
<1> QED
  BY <1>1, HistoryTyped, PTL
================================================================================
