-------------------------- MODULE EntryHistory_proofs --------------------------
(* What EntryHistory keeps, for every specification and every history of bars: *)
(* the projections' own assertions hold, AssertionsHold; the vectorised masks  *)
(* are what a scan of the bars finds, ScannedAsSpecified; and the live plan of *)
(* the last bar is the opportunity that a later evaluation of the history      *)
(* finds on that bar, LiveAsHistorical.                                        *)
EXTENDS EntryHistory, InductionLemmas

--------------------------------------------------------------------------------
(* What is picked out of a list, and the least of some values. *)

Chosen(s, K, f) ==
  f = [i \in 0..Len(s) |-> IF i = 0 THEN <<>>
                           ELSE IF s[i] \in K THEN Append(f[i - 1], s[i]) ELSE f[i - 1]]

LEMMA AmongSteps ==
  ASSUME NEW S, NEW s \in Seq(S), NEW K, NEW N, N = Len(s)
  PROVE  \E f : /\ Among(s, K) = f[N] /\ f[0] = <<>>
                /\ \A i \in 1..N : f[i] = IF s[i] \in K THEN Append(f[i-1], s[i]) ELSE f[i-1]
<1> DEFINE step == [i \in 1..N |-> [q \in Seq(S) |-> IF s[i] \in K THEN Append(q, s[i]) ELSE q]]
<1>1. N \in Nat /\ (\A i \in 1..N : s[i] \in S) /\ <<>> \in Seq(S)
  OBVIOUS
<1>2. step \in [1..N -> [Seq(S) -> Seq(S)]]
  BY <1>1
<1>3. \A i \in 1..N, q \in Seq(S) : step[i][q] = IF s[i] \in K THEN Append(q, s[i]) ELSE q
  OBVIOUS
<1> HIDE DEF step
<1>4. PICK f \in [0..N -> Seq(S)] : f[0] = <<>> /\ \A i \in 1..N : f[i] = step[i][f[i-1]]
  <2>1. PICK V, e : V = Seq(S) /\ e = <<>>
    OBVIOUS
  <2>2. N \in Nat /\ e \in V /\ step \in [1..N -> [V -> V]]
    BY <1>1, <1>2, <2>1
  <2>3. \E f \in [0..N -> V] : f[0] = e /\ \A i \in 1..N : f[i] = step[i][f[i-1]]
    BY ONLY <2>2, Recursion
  <2> QED
    BY <2>1, <2>3
<1>5. ASSUME NEW i \in 1..N PROVE f[i] = IF s[i] \in K THEN Append(f[i-1], s[i]) ELSE f[i-1]
  <2>1. f[i-1] \in Seq(S)
    BY <1>1
  <2> QED
    BY <1>3, <1>4, <2>1
<1>6. Chosen(s, K, f)
  <2>1. f = [i \in 0..N |-> f[i]]
    OBVIOUS
  <2>2. ASSUME NEW i \in 0..N, i # 0 PROVE i \in 1..N
    BY <1>1, <2>2
  <2>3. \A i \in 0..N : f[i] = IF i = 0 THEN <<>>
                               ELSE IF s[i] \in K THEN Append(f[i - 1], s[i]) ELSE f[i - 1]
    BY <1>4, <1>5, <2>2
  <2> QED
    BY <2>1, <2>3 DEF Chosen
<1>7. PICK first : first = CHOOSE g : Chosen(s, K, g)
  OBVIOUS
<1>8. Chosen(s, K, first)
  BY <1>6, <1>7
<1>9. Among(s, K) = first[N]
  BY <1>7 DEF Among, Chosen
<1>10. first[0] = <<>>
  BY <1>1, <1>8 DEF Chosen
<1>11. ASSUME NEW i \in 1..N
       PROVE first[i] = IF s[i] \in K THEN Append(first[i-1], s[i]) ELSE first[i-1]
  <2>1. i \in 0..N /\ i # 0
    BY <1>1
  <2> QED
    BY <1>8, <2>1 DEF Chosen
<1> QED
  BY <1>9, <1>10, <1>11

LEMMA Appended ==
  ASSUME NEW S, NEW q \in Seq(S), NEW e \in S
  PROVE  /\ Append(q, e) \in Seq(S) /\ \A x : x \in ToSet(Append(q, e)) <=> x \in ToSet(q) \/ x = e
<1>1. PICK L : L = Len(q)
  OBVIOUS
<1>2. DOMAIN q = 1..L /\ L \in Nat /\ DOMAIN Append(q, e) = 1..L+1
  BY <1>1
<1>3. (\A i \in 1..L : Append(q, e)[i] = q[i]) /\ Append(q, e)[L + 1] = e
  BY <1>1
<1>4. \A i : i \in 1..L+1 <=> i \in 1..L \/ i = L + 1
  BY <1>2
<1> QED
  BY <1>2, <1>3, <1>4 DEF ToSet

LEMMA AmongIs ==
  ASSUME NEW S, NEW s \in Seq(S), NEW K
  PROVE  /\ Among(s, K) \in Seq(S)
         /\ \A x : x \in ToSet(Among(s, K)) <=> x \in ToSet(s) /\ x \in K
<1>1. PICK N : N = Len(s)
  OBVIOUS
<1>2. N \in Nat /\ (\A i \in 1..N : s[i] \in S) /\ DOMAIN s = 1..N
  BY <1>1
<1>3. PICK f : /\ Among(s, K) = f[N] /\ f[0] = <<>>
               /\ \A i \in 1..N : f[i] = IF s[i] \in K THEN Append(f[i-1], s[i]) ELSE f[i-1]
  BY <1>1, AmongSteps
<1> DEFINE Right(i) == /\ f[i] \in Seq(S)
                       /\ \A x : x \in ToSet(f[i]) <=> x \in K /\ \E j \in 1..i : s[j] = x
           T == {i \in 0..N : Right(i)}
<1>4. Right(0)
  <2>1. ToSet(<<>>) = {} /\ <<>> \in Seq(S) /\ 1..0 = {}
    BY DEF ToSet
  <2> QED
    BY <1>3, <2>1
<1>5. ASSUME NEW k \in 0..N-1, Right(k) PROVE Right(k + 1)
  <2>1. k + 1 \in 1..N /\ s[k + 1] \in S /\ k + 1 - 1 = k
    BY <1>2
  <2>2. f[k + 1] = IF s[k + 1] \in K THEN Append(f[k], s[k + 1]) ELSE f[k]
    BY <1>3, <2>1
  <2>3. \A j : j \in 1..k+1 <=> j \in 1..k \/ j = k + 1
    BY <1>2
  <2>4. \A x : (\E j \in 1..k+1 : s[j] = x) <=> (\E j \in 1..k : s[j] = x) \/ s[k + 1] = x
    BY <2>3
  <2>5. f[k] \in Seq(S) /\ \A x : x \in ToSet(f[k]) <=> x \in K /\ \E j \in 1..k : s[j] = x
    BY <1>5
  <2>6. CASE s[k + 1] \in K
    BY <2>1, <2>2, <2>4, <2>5, <2>6, Appended
  <2>7. CASE s[k + 1] \notin K
    BY <2>2, <2>4, <2>5, <2>7
  <2> QED
    BY <2>6, <2>7
<1> HIDE DEF Right
<1>6. 0 \in T /\ \A k \in 0..N-1 : k \in T => k + 1 \in T
  BY <1>2, <1>4, <1>5
<1> HIDE DEF T
<1>7. N \in T
  BY <1>2, <1>6, UpTo
<1>8. Right(N)
  BY <1>7 DEF T
<1>9. \A x : x \in ToSet(s) <=> \E j \in 1..N : s[j] = x
  BY <1>2 DEF ToSet
<1> QED
  BY <1>3, <1>8, <1>9 DEF Right

LEMMA MaxIs ==
  ASSUME NEW S \in SUBSET Int, NEW m \in S, \A x \in S : m >= x
  PROVE  Max(S) = m
<1>1. PICK x : x = Max(S)
  OBVIOUS
<1>2. x \in S /\ \A y \in S : x >= y
  BY <1>1 DEF Max
<1> QED
  BY <1>1, <1>2

LEMMA MinIs ==
  ASSUME NEW S \in SUBSET Int, NEW m \in S, \A x \in S : m <= x
  PROVE  Min(S) = m
<1>1. PICK x : x = Min(S)
  OBVIOUS
<1>2. x \in S /\ \A y \in S : x <= y
  BY <1>1 DEF Min
<1> QED
  BY <1>1, <1>2

\* A finite set of integers has a least one.
LEMMA LeastOf ==
  ASSUME NEW S \in SUBSET Int, IsFiniteSet(S), S # {}
  PROVE  Min(S) \in S /\ \A x \in S : Min(S) <= x
<1>1. PICK minus : minus = [x \in S |-> -x]
  OBVIOUS
<1>2. PICK T : T = {minus[x] : x \in S}
  OBVIOUS
<1>3. IsFiniteSet(T)
  BY <1>2, FiniteValues
<1>4. \A x \in S : minus[x] = -x /\ -x \in T
  BY <1>1, <1>2
<1>5. \A y \in T : \E x \in S : y = -x
  BY <1>2, <1>4
<1>6. T \in SUBSET Int /\ T # {}
  <2>1. \A y \in T : y \in Int
    <3> TAKE y \in T
    <3>1. PICK z \in S : y = -z
      BY <1>5
    <3> QED
      BY <3>1
  <2>2. PICK z : z \in S
    OBVIOUS
  <2>3. -z \in T
    BY <1>4, <2>2
  <2> QED
    BY <2>1, <2>3
<1>7. PICK m \in T : \A y \in T : m >= y
  BY <1>3, <1>6, GreatestNumber
<1>8. PICK x \in S : m = -x
  BY <1>5
<1>9. \A y \in S : x <= y
  <2> TAKE y \in S
  <2>1. -x >= -y
    BY <1>4, <1>7, <1>8
  <2> QED
    BY <2>1
<1>10. Min(S) = x
  BY <1>9, MinIs
<1> QED
  BY <1>9, <1>10

--------------------------------------------------------------------------------
(* Frames that hold the same bars up to a bar: contexts, gates, profiles,
   directions and windows are the same on it. *)

\* Two frames that hold the same bars up to t.
Alike(w, v, t) ==
    /\ w.n \in Nat /\ v.n \in Nat /\ t \in Nat /\ t <= w.n /\ t <= v.n
    /\ \A u \in 1..t : w.bars[u] = v.bars[u]

\* The columns of alike frames are alike.
LEMMA AtAlike ==
  ASSUME NEW w, NEW v, NEW t, Alike(w, v, t)
  PROVE  \A u \in 1..t : u \in Bars(w) /\ u \in Bars(v) /\ \A c : At(w, c, u) = At(v, c, u)
<1>1. \A u \in 1..t : w.bars[u] = v.bars[u] /\ u \in 1..w.n /\ u \in 1..v.n
  BY DEF Alike
<1> QED
  BY <1>1 DEF At, Bars

LEMMA ContextAlike ==
  ASSUME NEW w, NEW v, NEW t, Alike(w, v, t), NEW spec, NEW ref
  PROVE  \A u \in 1..t : ContextState(spec, ref, w)[u] = ContextState(spec, ref, v)[u]
<1> SUFFICES ASSUME NEW u \in 1..t PROVE ContextState(spec, ref, w)[u] = ContextState(spec, ref, v)[u]
  OBVIOUS
<1>1. u \in Bars(w) /\ u \in Bars(v) /\ \A c : At(w, c, u) = At(v, c, u)
  BY AtAlike
<1> QED
  BY <1>1 DEF ContextState

LEMMA GatedAlike ==
  ASSUME NEW w, NEW v, NEW t, Alike(w, v, t), NEW spec, NEW role, NEW instance, NEW s, NEW m, NEW k,
         \A u \in 1..t : m[u] <=> k[u]
  PROVE  \A u \in 1..t : Gated(spec, role, instance, s, w, m)[u] <=> Gated(spec, role, instance, s, v, k)[u]
<1>1. PICK mine : mine = {g \in Gates(spec) : g.role = role /\ g.instance = instance}
  OBVIOUS
<1>2. PICK g : g = CHOOSE h \in mine : TRUE
  OBVIOUS
<1>3. ASSUME NEW u \in 1..t, mine # {}
      PROVE  /\ Gated(spec, role, instance, s, w, m)[u]
                  <=> m[u] /\ Regime(ContextState(spec, g.context, w)[u], s) \in g.regimes
             /\ Gated(spec, role, instance, s, v, k)[u]
                  <=> k[u] /\ Regime(ContextState(spec, g.context, v)[u], s) \in g.regimes
  BY <1>1, <1>2, <1>3, AtAlike DEF Gated
<1>4. mine = {} => /\ Gated(spec, role, instance, s, w, m) = m
                   /\ Gated(spec, role, instance, s, v, k) = k
  BY <1>1 DEF Gated
<1> QED
  BY <1>3, <1>4, ContextAlike

LEMMA ProfileAlike ==
  ASSUME NEW w, NEW v, NEW t, Alike(w, v, t), NEW spec, NEW s
  PROVE  \A u \in 1..t : Profile(spec, s, w)[u] = Profile(spec, s, v)[u] /\ Profile(spec, s, w)[u] \in Profiles
<1>1. ASSUME NEW u \in 1..t, ~ (spec.profile = None \/ s \notin ToSet(spec.sides))
      PROVE  /\ Profile(spec, s, w)[u] = Regime(ContextState(spec, spec.profile, w)[u], s)
             /\ Profile(spec, s, v)[u] = Regime(ContextState(spec, spec.profile, v)[u], s)
  BY <1>1, AtAlike DEF Profile
<1>2. ASSUME NEW u \in 1..t, spec.profile = None \/ s \notin ToSet(spec.sides)
      PROVE  Profile(spec, s, w)[u] = "neutral" /\ Profile(spec, s, v)[u] = "neutral"
  BY <1>2, AtAlike DEF Profile
<1>3. \A state : Regime(state, s) \in Profiles
  BY DEF Regime, Profiles
<1> QED
  BY <1>1, <1>2, <1>3, ContextAlike DEF Profiles

LEMMA DirectionAlike ==
  ASSUME NEW w, NEW v, NEW t, Alike(w, v, t), NEW s
  PROVE  \A u \in 1..t : Direction(s, w)[u] <=> Direction(s, v)[u]
<1> SUFFICES ASSUME NEW u \in 1..t PROVE Direction(s, w)[u] <=> Direction(s, v)[u]
  OBVIOUS
<1>1. u \in Bars(w) /\ u \in Bars(v) /\ \A c : At(w, c, u) = At(v, c, u)
  BY AtAlike
<1> QED
  BY <1>1 DEF Direction

\* A window of lookback bars, cut off at the first bar.
LEMMA WindowIs ==
  ASSUME NEW t \in Nat \ {0}, NEW lookback \in Nat \ {0}
  PROVE  Max({1, t - lookback + 1})..t = {u \in 1..t : u >= t - lookback + 1}
<1>1. CASE t - lookback + 1 <= 1
  <2>1. Max({1, t - lookback + 1}) = 1
    BY <1>1, MaxIs
  <2> QED
    BY <1>1, <2>1
<1>2. CASE t - lookback + 1 > 1
  <2>1. Max({1, t - lookback + 1}) = t - lookback + 1
    BY <1>2, MaxIs
  <2> QED
    BY <1>2, <2>1
<1> QED
  BY <1>1, <1>2

LEMMA RollingAlike ==
  ASSUME NEW t \in Nat, NEW m, NEW k, NEW lookback \in Nat \ {0}, \A u \in 1..t : m[u] <=> k[u]
  PROVE  \A u \in 1..t : RollingAny(m, lookback, u) <=> RollingAny(k, lookback, u)
<1> SUFFICES ASSUME NEW u \in 1..t PROVE RollingAny(m, lookback, u) <=> RollingAny(k, lookback, u)
  OBVIOUS
<1>1. Max({1, u - lookback + 1})..u = {x \in 1..u : x >= u - lookback + 1}
  BY WindowIs
<1>2. \A x \in Max({1, u - lookback + 1})..u : x \in 1..t
  BY <1>1
<1> QED
  BY <1>2 DEF RollingAny

--------------------------------------------------------------------------------
(* The blockers, which look back over a window, are the same on it. *)

LastStrong(b, s, w, t, f) ==
  f = [u \in 0..t |-> IF u = 0 THEN 0 ELSE IF Strong(b, s, w, u) THEN u ELSE f[u - 1]]

Counts(b, s, w, t, f) ==
    /\ f \in [0..t -> Nat]
    /\ PeakAt(b, s, w, t) = IF f[t] >= t - b.lookback + 1 THEN f[t] ELSE 0
    /\ f[0] = 0
    /\ \A i \in 1..t : f[i] = IF Strong(b, s, w, i) THEN i ELSE f[i-1]

\* The last strong bar so far, as PeakAt counts it.
LEMMA PeakSteps ==
  ASSUME NEW b, NEW s, NEW w, NEW t \in Nat
  PROVE  \E f : Counts(b, s, w, t, f)
<1> DEFINE step == [i \in 1..t |-> [x \in Nat |-> IF Strong(b, s, w, i) THEN i ELSE x]]
<1>1. step \in [1..t -> [Nat -> Nat]]
  OBVIOUS
<1>2. \A i \in 1..t, x \in Nat : step[i][x] = IF Strong(b, s, w, i) THEN i ELSE x
  OBVIOUS
<1> HIDE DEF step
<1>3. PICK f \in [0..t -> Nat] : f[0] = 0 /\ \A i \in 1..t : f[i] = step[i][f[i-1]]
  <2>1. PICK V, a : V = Nat /\ a = 0
    OBVIOUS
  <2>2. t \in Nat /\ a \in V /\ step \in [1..t -> [V -> V]]
    BY <1>1, <2>1
  <2>3. \E f \in [0..t -> V] : f[0] = a /\ \A i \in 1..t : f[i] = step[i][f[i-1]]
    BY ONLY <2>2, Recursion
  <2> QED
    BY <2>1, <2>3
<1>4. ASSUME NEW i \in 1..t PROVE f[i] = IF Strong(b, s, w, i) THEN i ELSE f[i-1]
  <2>1. f[i-1] \in Nat
    OBVIOUS
  <2> QED
    BY <1>2, <1>3, <2>1
<1>5. LastStrong(b, s, w, t, f)
  <2>1. f = [i \in 0..t |-> f[i]]
    OBVIOUS
  <2>2. \A i \in 0..t : f[i] = IF i = 0 THEN 0 ELSE IF Strong(b, s, w, i) THEN i ELSE f[i - 1]
    BY <1>3, <1>4
  <2> QED
    BY <2>1, <2>2 DEF LastStrong
<1>6. PICK last : last = CHOOSE g : LastStrong(b, s, w, t, g)
  OBVIOUS
<1>7. LastStrong(b, s, w, t, last)
  BY <1>5, <1>6
<1>8. PeakAt(b, s, w, t) = IF last[t] >= t - b.lookback + 1 THEN last[t] ELSE 0
  BY <1>6 DEF PeakAt, LastStrong
<1>9. \A u \in 0..t : last[u] = IF u = 0 THEN 0 ELSE IF Strong(b, s, w, u) THEN u ELSE last[u - 1]
  BY <1>7 DEF LastStrong
<1>10. last[0] = 0 /\ \A i \in 1..t : last[i] = IF Strong(b, s, w, i) THEN i ELSE last[i-1]
  BY <1>9
<1>11. last = f
  <2> DEFINE T == {i \in 0..t : last[i] = f[i]}
  <2>1. 0 \in T /\ \A k \in 0..t-1 : k \in T => k + 1 \in T
    <3>1. 0 \in T
      BY <1>3, <1>10
    <3>2. ASSUME NEW k \in 0..t-1, last[k] = f[k] PROVE last[k + 1] = f[k + 1]
      <4>1. k + 1 \in 1..t /\ k + 1 - 1 = k
        OBVIOUS
      <4> QED
        BY <1>4, <1>10, <3>2, <4>1
    <3> QED
      BY <3>1, <3>2
  <2> HIDE DEF T
  <2>2. 0..t \subseteq T
    BY <2>1, UpTo
  <2>3. \A i \in 0..t : last[i] = f[i]
    BY <2>2 DEF T
  <2>4. last = [i \in 0..t |-> last[i]]
    BY <1>7 DEF LastStrong
  <2>5. f = [i \in 0..t |-> f[i]]
    OBVIOUS
  <2> QED
    BY <2>3, <2>4, <2>5
<1> QED
  BY <1>3, <1>4, <1>8, <1>11 DEF Counts

\* The peak is the latest strong bar of the window, 0 without one.
LEMMA PeakIs ==
  ASSUME NEW b, b.lookback \in Nat \ {0}, NEW s, NEW w, NEW t \in Nat
  PROVE  /\ PeakAt(b, s, w, t) \in 0..t
         /\ PeakAt(b, s, w, t) # 0 => /\ Strong(b, s, w, PeakAt(b, s, w, t))
                                      /\ PeakAt(b, s, w, t) >= t - b.lookback + 1
         /\ \A u \in 1..t : u >= t - b.lookback + 1 /\ Strong(b, s, w, u) => u <= PeakAt(b, s, w, t)
<1>0. PICK f : Counts(b, s, w, t, f)
  BY PeakSteps
<1>1. /\ f \in [0..t -> Nat]
      /\ PeakAt(b, s, w, t) = IF f[t] >= t - b.lookback + 1 THEN f[t] ELSE 0
      /\ f[0] = 0
      /\ \A i \in 1..t : f[i] = IF Strong(b, s, w, i) THEN i ELSE f[i-1]
  BY <1>0 DEF Counts
<1> DEFINE Right(i) == /\ f[i] \in 0..i
                       /\ f[i] # 0 => Strong(b, s, w, f[i])
                       /\ \A u \in 1..i : Strong(b, s, w, u) => u <= f[i]
           T == {i \in 0..t : Right(i)}
<1>2. Right(0)
  BY <1>1
<1>3. ASSUME NEW k \in 0..t-1, Right(k) PROVE Right(k + 1)
  <2>1. k + 1 \in 1..t /\ k + 1 - 1 = k
    OBVIOUS
  <2>2. f[k + 1] = IF Strong(b, s, w, k + 1) THEN k + 1 ELSE f[k]
    BY <1>1, <2>1
  <2>3. \A u \in 1..k+1 : u \in 1..k \/ u = k + 1
    OBVIOUS
  <2>4. CASE Strong(b, s, w, k + 1)
    <3>1. f[k + 1] = k + 1
      BY <2>2, <2>4
    <3>2. \A u \in 1..k+1 : u <= k + 1
      OBVIOUS
    <3> QED
      BY <2>4, <3>1, <3>2
  <2>5. CASE ~ Strong(b, s, w, k + 1)
    <3>1. f[k + 1] = f[k]
      BY <2>2, <2>5
    <3> QED
      BY <1>3, <2>3, <2>5, <3>1
  <2> QED
    BY <2>4, <2>5
<1>4. 0 \in T /\ \A k \in 0..t-1 : k \in T => k + 1 \in T
  <2> HIDE DEF Right
  <2> QED
    BY <1>2, <1>3
<1> HIDE DEF T
<1>5. 0..t \subseteq T
  BY <1>4, UpTo
<1>6. t \in T
  BY <1>5
<1>7. Right(t)
  BY <1>6 DEF T
<1>8. CASE f[t] >= t - b.lookback + 1
  <2>1. PeakAt(b, s, w, t) = f[t]
    BY <1>1, <1>8
  <2> QED
    BY <1>7, <1>8, <2>1
<1>9. CASE ~ (f[t] >= t - b.lookback + 1)
  <2>1. PeakAt(b, s, w, t) = 0
    BY <1>1, <1>9
  <2>2. ASSUME NEW u \in 1..t, u >= t - b.lookback + 1, Strong(b, s, w, u) PROVE FALSE
    BY <1>7, <1>9, <2>2
  <2> QED
    BY <2>1, <2>2
<1> QED
  BY <1>8, <1>9

Judged(b, s, t, peak, adx, plus, minus) ==
    LET with == IF s = "long" THEN plus ELSE minus
        against == IF s = "long" THEN minus ELSE plus
    IN  CASE NaN \in {adx, with, against} -> "indicator_not_ready"
          [] OTHER -> IF peak = 0 THEN "no_recent_adx_peak"
                      ELSE IF t - peak > b.age THEN "peak_too_old"
                      ELSE IF adx < b.current THEN "current_adx_too_low"
                      ELSE IF b.flip /\ against > with + b.margin THEN "opposite_di_flip"
                      ELSE ""

LEMMA BlockedAlike ==
  ASSUME NEW w, NEW v, NEW t, Alike(w, v, t), NEW b, b.lookback \in Nat \ {0}, NEW s
  PROVE  \A u \in 1..t : Blocked(b, s, w, u) = Blocked(b, s, v, u)
<1> SUFFICES ASSUME NEW u \in 1..t PROVE Blocked(b, s, w, u) = Blocked(b, s, v, u)
  OBVIOUS
<1>0. t \in Nat /\ u \in Nat
  BY DEF Alike
<1>1. \A x \in 1..u : \A c : At(w, c, x) = At(v, c, x)
  BY <1>0, AtAlike
<1>2. \A x \in 1..u : Strong(b, s, w, x) <=> Strong(b, s, v, x)
  BY <1>1 DEF Strong
<1>3. PICK p, q : p = PeakAt(b, s, w, u) /\ q = PeakAt(b, s, v, u)
  OBVIOUS
<1>4. p = q
  <2>1. /\ p \in 0..u
        /\ p # 0 => Strong(b, s, w, p) /\ p >= u - b.lookback + 1
        /\ \A x \in 1..u : x >= u - b.lookback + 1 /\ Strong(b, s, w, x) => x <= p
    BY <1>0, <1>3, PeakIs
  <2>2. /\ q \in 0..u
        /\ q # 0 => Strong(b, s, v, q) /\ q >= u - b.lookback + 1
        /\ \A x \in 1..u : x >= u - b.lookback + 1 /\ Strong(b, s, v, x) => x <= q
    BY <1>0, <1>3, PeakIs
  <2>3. p # 0 => p <= q
    BY <1>0, <1>2, <2>1, <2>2
  <2>4. q # 0 => q <= p
    BY <1>0, <1>2, <2>1, <2>2
  <2> QED
    BY <1>0, <2>1, <2>2, <2>3, <2>4
<1>5. \A c : At(w, c, u) = At(v, c, u)
  BY AtAlike
<1>6. \A x : Blocked(b, s, x, u)
                = Judged(b, s, u, PeakAt(b, s, x, u), At(x, "adx", u), At(x, "plus", u), At(x, "minus", u))
  BY Zenon DEF Blocked, Judged
<1> QED
  BY <1>3, <1>4, <1>5, <1>6

LEMMA IntrinsicAlike ==
  ASSUME NEW w, NEW v, NEW t, Alike(w, v, t), NEW b, BlockerAssumed(b), NEW s
  PROVE  \A u \in 1..t : Intrinsic(b, s, w)[u] <=> Intrinsic(b, s, v)[u]
<1>0. t \in Nat
  BY DEF Alike
<1>1. \A u \in 1..t : u \in Bars(w) /\ u \in Bars(v) /\ \A c : At(w, c, u) = At(v, c, u)
  BY AtAlike
<1>2. CASE b.id = "no_blockers"
  BY <1>1, <1>2 DEF Intrinsic
<1>3. CASE b.id = "counter_candle_blocker"
  BY <1>1, <1>3 DEF Intrinsic
<1>4. CASE b.id = "rsi_lookback_extreme_blocker"
  <2> DEFINE extreme(x) == [u \in Bars(x) |->
                       IF s = "long" THEN Over(At(x, b.rsi, u), b.above) ELSE Over(b.below, At(x, b.rsi, u))]
  <2>1. \A u \in 1..t : extreme(w)[u] <=> extreme(v)[u]
    BY <1>1
  <2>2. RsiBlocker(b, s, w) = [u \in Bars(w) |-> ~ RollingAny(extreme(w), b.lookback, u)]
    BY DEF RsiBlocker
  <2>3. RsiBlocker(b, s, v) = [u \in Bars(v) |-> ~ RollingAny(extreme(v), b.lookback, u)]
    BY DEF RsiBlocker
  <2>4. b.lookback \in Nat \ {0}
    BY <1>4 DEF BlockerAssumed
  <2> HIDE DEF extreme
  <2>5. \A u \in 1..t : RollingAny(extreme(w), b.lookback, u) <=> RollingAny(extreme(v), b.lookback, u)
    BY <1>0, <2>1, <2>4, RollingAlike
  <2>6. Intrinsic(b, s, w) = RsiBlocker(b, s, w) /\ Intrinsic(b, s, v) = RsiBlocker(b, s, v)
    BY <1>4 DEF Intrinsic
  <2> QED
    BY <1>1, <2>2, <2>3, <2>5, <2>6
<1>5. CASE b.id = "trend_strength_episode_blocker"
  <2>1. b.lookback \in Nat \ {0}
    BY <1>5 DEF BlockerAssumed
  <2>2. \A u \in 1..t : Blocked(b, s, w, u) = Blocked(b, s, v, u)
    BY <2>1, BlockedAlike
  <2> QED
    BY <1>1, <1>5, <2>2 DEF Intrinsic
<1> QED
  BY <1>2, <1>3, <1>4, <1>5 DEF BlockerAssumed

--------------------------------------------------------------------------------
(* So is every mask of the chain. *)

LEMMA ItemsAssumed ==
  ASSUME NEW spec, SpecAssumed(spec)
  PROVE  \A b \in ToSet(BlockerItems(spec)) : BlockerAssumed(b)
<1>1. CASE spec.blockers = <<>>
  <2>1. PICK b : b = [id |-> "no_blockers", instance |-> "no_blockers", gate |-> None]
    OBVIOUS
  <2>2. ToSet(<<b>>) = {b} /\ b.id = "no_blockers"
    BY <2>1 DEF ToSet
  <2>3. BlockerItems(spec) = <<b>>
    BY <1>1, <2>1 DEF BlockerItems
  <2> QED
    BY <2>2, <2>3 DEF BlockerAssumed
<1>2. CASE spec.blockers # <<>>
  BY <1>2 DEF BlockerItems, SpecAssumed
<1> QED
  BY <1>1, <1>2

\* What the masks of the chain say, bar by bar.
LEMMA PreSetupIs ==
  ASSUME NEW spec, NEW s, NEW w
  PROVE  /\ DOMAIN PreSetup(spec, s, w) = Bars(w)
         /\ \A u \in Bars(w) :
               PreSetup(spec, s, w)[u] <=>
                  Direction(s, w)[u] /\ \A b \in ToSet(BlockerItems(spec)) : BlockerAllowed(spec, b, s, w)[u]
<1>1. DOMAIN Direction(s, w) = Bars(w)
  BY DEF Direction
<1>2. \A u \in Bars(w) : BlockersOk(spec, s, w)[u]
                            <=> \A b \in ToSet(BlockerItems(spec)) : BlockerAllowed(spec, b, s, w)[u]
  BY DEF BlockersOk, All
<1> QED
  BY <1>1, <1>2 DEF PreSetup, Both

LEMMA PreTriggerIs ==
  ASSUME NEW spec, NEW s, NEW w
  PROVE  /\ DOMAIN PreTrigger(spec, s, w) = Bars(w)
         /\ \A u \in Bars(w) :
               PreTrigger(spec, s, w)[u] <=>
                  PreSetup(spec, s, w)[u] /\ \A p \in ToSet(spec.setups) : SetupAllowed(spec, p, s, w)[u]
<1>1. \A u \in Bars(w) : SetupsOk(spec, s, w)[u]
                            <=> \A p \in ToSet(spec.setups) : SetupAllowed(spec, p, s, w)[u]
  BY DEF SetupsOk, All
<1>2. DOMAIN PreSetup(spec, s, w) = Bars(w)
  BY PreSetupIs
<1> QED
  BY <1>1, <1>2 DEF PreTrigger, Both

LEMMA EntryAllowedIs ==
  ASSUME NEW spec, NEW s, NEW w
  PROVE  \A u \in Bars(w) : EntryAllowed(spec, s, w)[u]
            <=> s \in ToSet(spec.sides) /\ PreTrigger(spec, s, w)[u] /\ Triggered(spec.trigger, s, w)[u]
<1>1. DOMAIN PreTrigger(spec, s, w) = Bars(w)
  BY PreTriggerIs
<1>2. /\ DOMAIN PreRisk(spec, s, w) = Bars(w)
      /\ \A u \in Bars(w) : PreRisk(spec, s, w)[u]
                               <=> PreTrigger(spec, s, w)[u] /\ Triggered(spec.trigger, s, w)[u]
  BY <1>1 DEF PreRisk, Both
<1>3. CASE s \in ToSet(spec.sides)
  <2>1. \A u \in Bars(w) : EntryAllowed(spec, s, w)[u] <=> PreRisk(spec, s, w)[u]
    BY <1>2, <1>3 DEF EntryAllowed, Both
  <2> QED
    BY <1>2, <1>3, <2>1
<1>4. CASE s \notin ToSet(spec.sides)
  BY <1>4 DEF EntryAllowed
<1> QED
  BY <1>3, <1>4

LEMMA TriggeredAlike ==
  ASSUME NEW w, NEW v, NEW t, Alike(w, v, t), NEW spec, SpecAssumed(spec), NEW s
  PROVE  \A u \in 1..t : Triggered(spec.trigger, s, w)[u] <=> Triggered(spec.trigger, s, v)[u]
<1> SUFFICES ASSUME NEW u \in 1..t
             PROVE  Triggered(spec.trigger, s, w)[u] <=> Triggered(spec.trigger, s, v)[u]
  OBVIOUS
<1>0. t \in Nat
  BY DEF Alike
<1>1. \A x \in 1..t : x \in Bars(w) /\ x \in Bars(v) /\ \A c : At(w, c, x) = At(v, c, x)
  BY AtAlike
<1>2. \A x \in 1..t : \A strong : Probed(strong, s, w, x) <=> Probed(strong, s, v, x)
  BY <1>1 DEF Probed
<1>3. CASE spec.trigger.id = "touch_anchor"
  <2>1. CloseOk(s, w, u) <=> CloseOk(s, v, u)
    BY <1>1 DEF CloseOk
  <2> QED
    BY <1>1, <1>2, <1>3, <2>1 DEF Triggered
<1>4. CASE spec.trigger.id # "touch_anchor"
  <2>1. PICK n \in Nat \ {0} : n = spec.trigger.lookback
    BY <1>4 DEF SpecAssumed
  <2>2. PICK strong : strong = (spec.trigger.id = "strong_reclaim_anchor")
    OBVIOUS
  <2>3. \A x : x \in Bars(w) => (Triggered(spec.trigger, s, w)[x] <=>
           /\ x - 1 >= n
           /\ \E y \in (x - n)..(x - 1) : Probed(strong, s, w, y)
           /\ Ahead(s, At(w, "close", x), At(w, "anchor", x)))
    BY <1>4, <2>1, <2>2 DEF Triggered, Reclaim
  <2>4. \A x : x \in Bars(v) => (Triggered(spec.trigger, s, v)[x] <=>
           /\ x - 1 >= n
           /\ \E y \in (x - n)..(x - 1) : Probed(strong, s, v, y)
           /\ Ahead(s, At(v, "close", x), At(v, "anchor", x)))
    BY <1>4, <2>1, <2>2 DEF Triggered, Reclaim
  <2>5. u - 1 >= n => \A y \in (u - n)..(u - 1) : y \in 1..t
    BY <1>0, <2>1
  <2> QED
    BY <1>1, <1>2, <2>3, <2>4, <2>5
<1> QED
  BY <1>3, <1>4

LEMMA EntryAlike ==
  ASSUME NEW w, NEW v, NEW t, Alike(w, v, t), NEW spec, SpecAssumed(spec), NEW s
  PROVE  \A u \in 1..t : EntryAllowed(spec, s, w)[u] <=> EntryAllowed(spec, s, v)[u]
<1>1. ASSUME NEW b \in ToSet(BlockerItems(spec))
      PROVE  \A u \in 1..t : BlockerAllowed(spec, b, s, w)[u] <=> BlockerAllowed(spec, b, s, v)[u]
  <2>1. BlockerAssumed(b)
    BY ItemsAssumed
  <2>2. \A u \in 1..t : Intrinsic(b, s, w)[u] <=> Intrinsic(b, s, v)[u]
    BY <2>1, IntrinsicAlike
  <2> QED
    BY <2>2, GatedAlike DEF BlockerAllowed
<1>2. ASSUME NEW p \in ToSet(spec.setups)
      PROVE  \A u \in 1..t : SetupAllowed(spec, p, s, w)[u] <=> SetupAllowed(spec, p, s, v)[u]
  <2>1. \A u \in 1..t : Local(w)[u] <=> Local(v)[u]
    BY AtAlike DEF Local
  <2> QED
    BY <2>1, GatedAlike DEF SetupAllowed
<1>3. \A u \in 1..t : u \in Bars(w) /\ u \in Bars(v)
  BY AtAlike
<1>4. \A u \in 1..t : PreSetup(spec, s, w)[u] <=> PreSetup(spec, s, v)[u]
  BY <1>1, <1>3, DirectionAlike, PreSetupIs
<1>5. \A u \in 1..t : PreTrigger(spec, s, w)[u] <=> PreTrigger(spec, s, v)[u]
  BY <1>2, <1>3, <1>4, PreTriggerIs
<1> QED
  BY <1>3, <1>5, TriggeredAlike, EntryAllowedIs

--------------------------------------------------------------------------------
(* Lists joined and ordered: an order puts its members, each once, from the
   least on. *)

LEMMA Joined ==
  ASSUME NEW S, NEW a \in Seq(S), NEW b \in Seq(S)
  PROVE  /\ a \o b \in Seq(S) /\ Len(a \o b) = Len(a) + Len(b)
         /\ DOMAIN a = 1..Len(a) /\ DOMAIN b = 1..Len(b) /\ DOMAIN (a \o b) = 1..Len(a) + Len(b)
         /\ (\A n \in 1..Len(a) : (a \o b)[n] = a[n])
         /\ (\A n \in 1..Len(b) : (a \o b)[Len(a) + n] = b[n])
         /\ (\A x : x \in ToSet(a \o b) <=> x \in ToSet(a) \/ x \in ToSet(b))
<1>1. PICK A, B, c : A = Len(a) /\ B = Len(b) /\ c = a \o b
  OBVIOUS
<1>2. /\ c \in Seq(S) /\ Len(c) = A + B /\ A \in Nat /\ B \in Nat
      /\ DOMAIN a = 1..A /\ DOMAIN b = 1..B /\ DOMAIN c = 1..A+B
      /\ (\A n \in 1..A : c[n] = a[n]) /\ (\A n \in 1..B : c[A + n] = b[n])
  BY <1>1
<1>3. \A n \in 1..A+B : n \in 1..A \/ \E m \in 1..B : n = A + m
  <2> SUFFICES ASSUME NEW n \in 1..A+B, n \notin 1..A PROVE \E m \in 1..B : n = A + m
    OBVIOUS
  <2>1. n - A \in 1..B /\ n = A + (n - A)
    BY <1>2
  <2> QED
    BY <2>1
<1>4. (\A n \in 1..A : n \in 1..A+B) /\ (\A m \in 1..B : A + m \in 1..A+B)
  BY <1>2
<1>5. \A x : x \in ToSet(c) <=> x \in ToSet(a) \/ x \in ToSet(b)
  <2> TAKE x
  <2>1. ASSUME x \in ToSet(c) PROVE x \in ToSet(a) \/ x \in ToSet(b)
    <3>1. PICK n \in 1..A+B : c[n] = x
      BY <1>2, <2>1 DEF ToSet
    <3> QED
      BY <1>2, <1>3, <3>1 DEF ToSet
  <2>2. ASSUME x \in ToSet(a) PROVE x \in ToSet(c)
    <3>1. PICK n \in 1..A : a[n] = x
      BY <1>2, <2>2 DEF ToSet
    <3> QED
      BY <1>2, <1>4, <3>1 DEF ToSet
  <2>3. ASSUME x \in ToSet(b) PROVE x \in ToSet(c)
    <3>1. PICK n \in 1..B : b[n] = x
      BY <1>2, <2>3 DEF ToSet
    <3> QED
      BY <1>2, <1>4, <3>1 DEF ToSet
  <2> QED
    BY <2>1, <2>2, <2>3
<1> QED
  BY <1>1, <1>2, <1>5

LEMMA PlacesIs ==
  ASSUME NEW N \in Nat, NEW key, DOMAIN key = 1..N, \A i \in 1..N : key[i] \in Int
  PROVE  /\ Places(key) \in [1..N -> 1..N]
         /\ \A n \in 1..N : \E i \in 1..N : Places(key)[i] = n
         /\ \A i \in 1..N, j \in 1..N : Places(key)[i] = Places(key)[j] => i = j
<1> DEFINE Before(i) == {j \in 1..N : key[j] < key[i] \/ (key[j] = key[i] /\ j < i)}
<1>1. PICK place : place = Places(key)
  OBVIOUS
<1>2. place = [i \in 1..N |-> 1 + Cardinality(Before(i))]
  BY <1>1 DEF Places
<1>3. PICK K : K = 1..N
  OBVIOUS
<1>4. IsFiniteSet(K) /\ Cardinality(K) = N
  BY <1>3, FS_Interval
<1>5. ASSUME NEW i \in 1..N
      PROVE  /\ Before(i) \in SUBSET K /\ i \notin Before(i)
             /\ IsFiniteSet(Before(i)) /\ Cardinality(Before(i)) \in 0..N-1
  <2>1. Before(i) \in SUBSET (K \ {i}) /\ i \notin Before(i)
    BY <1>3
  <2> HIDE DEF Before
  <2>2. IsFiniteSet(K \ {i}) /\ Cardinality(K \ {i}) = N - 1
    BY <1>3, <1>4, FS_RemoveElement
  <2>3. IsFiniteSet(Before(i)) /\ Cardinality(Before(i)) <= N - 1
    BY <2>1, <2>2, FS_Subset
  <2>4. Cardinality(Before(i)) \in Nat
    BY <2>3, FS_CardinalityType
  <2> QED
    BY <2>1, <2>3, <2>4
<1>6. ASSUME NEW i \in 1..N, NEW j \in 1..N, i \in Before(j)
      PROVE  Cardinality(Before(i)) < Cardinality(Before(j))
  <2>1. Before(i) \subseteq Before(j)
    BY <1>6
  <2> HIDE DEF Before
  <2>2. Before(i) # Before(j)
    BY <1>5, <1>6
  <2>3. Cardinality(Before(i)) <= Cardinality(Before(j)) /\ Cardinality(Before(i)) # Cardinality(Before(j))
    BY <1>5, <2>1, <2>2, FS_Subset
  <2> QED
    BY <1>5, <2>3
<1>7. ASSUME NEW i \in 1..N, NEW j \in 1..N, i # j PROVE i \in Before(j) \/ j \in Before(i)
  BY <1>7
<1> HIDE DEF Before
<1>8. \A i \in 1..N : place[i] = 1 + Cardinality(Before(i)) /\ place[i] \in 1..N
  <2> TAKE i \in 1..N
  <2>1. place[i] = 1 + Cardinality(Before(i))
    BY <1>2
  <2>2. PICK k : k = Cardinality(Before(i))
    OBVIOUS
  <2>3. k \in 0..N-1
    BY <1>5, <2>2
  <2> QED
    BY <2>1, <2>2, <2>3
<1>12. place \in [1..N -> 1..N]
  BY <1>2, <1>8
<1>9. ASSUME NEW i \in K, NEW j \in K, place[i] = place[j] PROVE i = j
  <2>1. PICK a, b : a = Cardinality(Before(i)) /\ b = Cardinality(Before(j))
    OBVIOUS
  <2>2. i \in 1..N /\ j \in 1..N
    BY <1>3
  <2>3. a \in Int /\ b \in Int
    BY <1>5, <2>1, <2>2
  <2>4. 1 + a = 1 + b
    BY <1>8, <1>9, <2>1, <2>2
  <2>5. ~ (a < b) /\ ~ (b < a)
    BY <2>3, <2>4
  <2> QED
    BY <1>6, <1>7, <2>1, <2>2, <2>5
<1>10. place \in Injection(K, K)
  BY <1>3, <1>12, <1>9 DEF Injection, IsInjective
<1>11. place \in Surjection(K, K)
  BY <1>4, <1>10, FS_Injection
<1> QED
  BY <1>1, <1>3, <1>9, <1>12, <1>11 DEF Surjection

LEMMA OrderOnto ==
  ASSUME NEW N \in Nat, NEW key, DOMAIN key = 1..N, \A i \in 1..N : key[i] \in Int
  PROVE  \A i \in 1..N : \E n \in 1..N : Order(Places(key))[n] = i
<1>1. PICK place : place = Places(key)
  OBVIOUS
<1>2. /\ place \in [1..N -> 1..N]
      /\ \A i \in 1..N, j \in 1..N : place[i] = place[j] => i = j
  <2>1. /\ Places(key) \in [1..N -> 1..N]
        /\ \A i \in 1..N, j \in 1..N : Places(key)[i] = Places(key)[j] => i = j
    BY PlacesIs
  <2> QED
    BY <1>1, <2>1
<1>3. DOMAIN place = 1..N
  BY <1>2
<1>4. Order(place) = [n \in 1..N |-> CHOOSE i \in 1..N : place[i] = n]
  BY <1>3 DEF Order
<1>5. ASSUME NEW i \in 1..N PROVE Order(place)[place[i]] = i /\ place[i] \in 1..N
  <2>1. place[i] \in 1..N
    BY <1>2
  <2>2. PICK j : j = CHOOSE x \in 1..N : place[x] = place[i]
    OBVIOUS
  <2>3. j \in 1..N /\ place[j] = place[i]
    BY <2>2
  <2>4. j = i
    BY <1>2, <2>3
  <2> QED
    BY <1>4, <2>1, <2>2, <2>4
<1> QED
  BY <1>1, <1>5

\* A sorted sequence is made of the elements of the sequence, reordered.
LEMMA SortedIs ==
  ASSUME NEW S, NEW legs \in Seq(S), NEW key, DOMAIN key = DOMAIN legs, \A i \in DOMAIN legs : key[i] \in Int
  PROVE  /\ Sorted(legs, key) \in Seq(S)
         /\ Order(Places(key)) \in [DOMAIN legs -> DOMAIN legs]
         /\ Sorted(legs, key) = [n \in DOMAIN legs |-> legs[Order(Places(key))[n]]]
<1>1. PICK N \in Nat : N = Len(legs) /\ DOMAIN legs = 1..N
  OBVIOUS
<1>2. PICK place : place = Places(key)
  OBVIOUS
<1>3. place \in [1..N -> 1..N] /\ \A n \in 1..N : \E i \in 1..N : place[i] = n
  <2>1. DOMAIN key = 1..N /\ \A i \in 1..N : key[i] \in Int
    BY <1>1
  <2>2. Places(key) \in [1..N -> 1..N] /\ \A n \in 1..N : \E i \in 1..N : Places(key)[i] = n
    BY ONLY N \in Nat, <2>1, PlacesIs
  <2> QED
    BY <1>2, <2>2
<1>4. PICK at : at = Order(place)
  OBVIOUS
<1>5. DOMAIN place = 1..N
  BY <1>3
<1>6. at = [n \in 1..N |-> CHOOSE i \in 1..N : place[i] = n]
  BY <1>4, <1>5 DEF Order
<1>7. \A n \in 1..N : at[n] \in 1..N
  BY <1>3, <1>6
<1>8. at \in [1..N -> 1..N]
  BY <1>6, <1>7
<1>9. Sorted(legs, key) = [n \in DOMAIN legs |-> legs[at[n]]]
  BY <1>2, <1>4 DEF Sorted
<1>10. \A n \in 1..N : legs[at[n]] \in S
  BY <1>1, <1>7
<1>11. [n \in 1..N |-> legs[at[n]]] \in Seq(S)
  BY <1>10
<1> QED
  BY <1>1, <1>2, <1>4, <1>8, <1>9, <1>11

--------------------------------------------------------------------------------
(* The rules of a specification, those of a profile, and their distances. *)

LEMMA ListedIn ==
  ASSUME NEW s, Listed(s), NEW S, ToSet(s) \subseteq S
  PROVE  s \in Seq(S)
<1>1. PICK T : T = ToSet(s)
  OBVIOUS
<1>2. s \in Seq(T) /\ T \subseteq S
  BY <1>1 DEF Listed
<1> QED
  BY <1>2

\* The rules of a specification are those of its groups.
LEMMA RulesIs ==
  ASSUME NEW spec, SpecAssumed(spec)
  PROVE  /\ Rules(spec) \in Seq(ToSet(Rules(spec)))
         /\ \A x : x \in ToSet(Rules(spec)) <=> \E g \in Groups : x \in ToSet(spec.exits[g])
<1>1. PICK S : S = UNION {ToSet(spec.exits[g]) : g \in Groups}
  OBVIOUS
<1>2. \A g \in Groups : spec.exits[g] \in Seq(S)
  BY <1>1, ListedIn DEF SpecAssumed
<1>3. PICK a, b, c, d : /\ a = spec.exits["always_on"] /\ b = spec.exits["aligned"]
                        /\ c = spec.exits["countertrend"] /\ d = spec.exits["neutral"]
  OBVIOUS
<1>4. a \in Seq(S) /\ b \in Seq(S) /\ c \in Seq(S) /\ d \in Seq(S)
  BY <1>2, <1>3 DEF Groups
<1>5. a \o b \in Seq(S) /\ \A x : x \in ToSet(a \o b) <=> x \in ToSet(a) \/ x \in ToSet(b)
  BY <1>4, Joined
<1>6. a \o b \o c \in Seq(S) /\ \A x : x \in ToSet(a \o b \o c) <=> x \in ToSet(a \o b) \/ x \in ToSet(c)
  BY <1>4, <1>5, Joined
<1>7. a \o b \o c \o d \in Seq(S) /\ \A x : x \in ToSet(a \o b \o c \o d) <=> x \in ToSet(a \o b \o c) \/ x \in ToSet(d)
  <2>1. PICK e : e = a \o b \o c
    OBVIOUS
  <2>2. e \in Seq(S)
    BY <1>6, <2>1
  <2>3. e \o d \in Seq(S) /\ \A x : x \in ToSet(e \o d) <=> x \in ToSet(e) \/ x \in ToSet(d)
    BY <1>4, <2>2, Joined
  <2> QED
    BY <2>1, <2>3
<1>8. Rules(spec) = a \o b \o c \o d
  BY <1>3 DEF Rules
<1>9. \A x : x \in S <=> \E g \in Groups : x \in ToSet(spec.exits[g])
  BY <1>1
<1>10. \A x : x \in ToSet(Rules(spec)) <=> x \in S
  BY <1>3, <1>5, <1>6, <1>7, <1>8, <1>9 DEF Groups
<1>11. ToSet(Rules(spec)) = S
  BY <1>10
<1> QED
  BY <1>7, <1>8, <1>9, <1>11

LEMMA FiniteListed ==
  ASSUME NEW S, NEW s \in Seq(S)
  PROVE  IsFiniteSet(ToSet(s))
<1>1. PICK N \in Nat : DOMAIN s = 1..N
  OBVIOUS
<1>2. ToSet(s) = {s[i] : i \in 1..N}
  BY <1>1 DEF ToSet
<1>3. IsFiniteSet(1..N)
  BY FS_Interval
<1> QED
  BY <1>2, <1>3, FiniteValues

\* The rules of a kind in force on a profile.
LEMMA ApplyingIs ==
  ASSUME NEW spec, SpecAssumed(spec), NEW p \in Profiles, NEW kind
  PROVE  /\ Applying(spec, p, kind) \in Seq(ToSet(Rules(spec)))
         /\ IsFiniteSet(ToSet(Applying(spec, p, kind)))
         /\ \A r \in ToSet(Applying(spec, p, kind)) : r.kind = kind /\ RuleAssumed(r) /\ r \in ToSet(Rules(spec))
<1>1. PICK S : S = ToSet(Rules(spec))
  OBVIOUS
<1>2. "always_on" \in Groups /\ p \in Groups
  BY DEF Groups, Profiles
<1>3. PICK a, b : a = spec.exits["always_on"] /\ b = spec.exits[p]
  OBVIOUS
<1>4. Listed(a) /\ Listed(b) /\ ToSet(a) \subseteq S /\ ToSet(b) \subseteq S
  BY <1>1, <1>2, <1>3, RulesIs DEF SpecAssumed
<1>5. a \in Seq(S) /\ b \in Seq(S)
  BY <1>4, ListedIn
<1>6. a \o b \in Seq(S) /\ \A x : x \in ToSet(a \o b) <=> x \in ToSet(a) \/ x \in ToSet(b)
  BY <1>5, Joined
<1>7. PICK K : K = {r \in ToSet(a \o b) : r.kind = kind}
  OBVIOUS
<1>8. Applying(spec, p, kind) = Among(a \o b, K)
  BY <1>3, <1>7 DEF Applying
<1>9. /\ Among(a \o b, K) \in Seq(S)
      /\ \A x : x \in ToSet(Among(a \o b, K)) <=> x \in ToSet(a \o b) /\ x \in K
  BY <1>6, AmongIs
<1>10. \A r \in ToSet(a) \union ToSet(b) : RuleAssumed(r)
  BY <1>2, <1>3 DEF SpecAssumed
<1>11. IsFiniteSet(ToSet(Among(a \o b, K)))
  BY <1>9, FiniteListed
<1> QED
  BY <1>1, <1>4, <1>6, <1>7, <1>8, <1>9, <1>10, <1>11

LEMMA Divides ==
  ASSUME NEW a \in Int, NEW b \in Nat \ {0}, a % b = 0
  PROVE  a \div b \in Int /\ (a \div b) * b = a
OBVIOUS

\* A frame of printed bars.
Sound(w) == w.n \in Nat /\ \A u \in 1..w.n : w.bars[u] \in Printed

\* A distance and its ratio are missing together, and are the same but for
\* the denominator.
LEMMA DistanceIs ==
  ASSUME NEW w, Sound(w), NEW r, RuleAssumed(r), r.kind \in DistanceRules, NEW u \in Bars(w)
  PROVE  /\ At(w, "close", u) \in Nat \ {0}
         /\ Distance(r, w)[u] \in Int \union {NaN} /\ Ratio(r, w)[u] \in Int \union {NaN}
         /\ Distance(r, w)[u] = NaN <=> Ratio(r, w)[u] = NaN
         /\ Distance(r, w)[u] # NaN => Ratio(r, w)[u] * At(w, "close", u) = Unit * Distance(r, w)[u]
<1>1. PICK b \in Printed : b = w.bars[u]
  BY DEF Sound, Bars
<1>2. PICK close \in Nat \ {0} : close = b.close
  BY EntryAssumption
<1>3. \A c : At(w, c, u) = b[c]
  BY <1>1 DEF At
<1>4. At(w, "close", u) = close
  BY <1>2, <1>3
<1>5. PICK d, q : d = Distance(r, w)[u] /\ q = Ratio(r, w)[u]
  OBVIOUS
<1>6. DistanceAssumed(r) /\ Unit \in Nat \ {0} /\ NaN \notin Int
  BY EntryAssumption DEF RuleAssumed
<1>7. CASE r.id = "pct_partial_take"
  <2>1. PICK pct \in Int : pct = r.pct /\ (close * pct) % Unit = 0
    <3>1. r.id \notin AtrRules
      BY <1>7 DEF AtrRules
    <3>2. r.pct \in Int /\ \A x \in Printed : (x.close * r.pct) % Unit = 0
      BY <1>6, <1>7, <3>1 DEF DistanceAssumed
    <3>3. (close * r.pct) % Unit = 0
      BY <1>1, <1>2, <3>2
    <3> QED
      BY <3>2, <3>3
  <2>2. d = (close * pct) \div Unit /\ q = pct
    BY <1>4, <1>5, <1>7, <2>1 DEF Distance, Ratio
  <2>3. close * pct \in Int
    BY <2>1
  <2>4. d \in Int /\ d * Unit = close * pct
    BY <1>6, <2>1, <2>2, <2>3, Divides
  <2>5. q * close = Unit * d
    BY <1>6, <2>1, <2>2, <2>4
  <2> QED
    BY <1>4, <1>5, <1>6, <2>1, <2>2, <2>4, <2>5
<1>8. CASE r.id # "pct_partial_take"
  <2>1. d \in Int \union {NaN} /\ (d # NaN => (Unit * d) % close = 0)
    <3>1. CASE r.id \in AtrRules
      <4>1. d = b[r.atr]
        BY <1>3, <1>5, <1>8, <3>1 DEF Distance, AtrRules
      <4> QED
        BY <1>1, <1>2, <1>6, <1>8, <3>1, <4>1 DEF DistanceAssumed, Numeric, Exact
    <3>2. CASE r.id \notin AtrRules
      <4>1. d = r.usd
        BY <1>5, <1>8, <3>2 DEF Distance, AtrRules
      <4> QED
        BY <1>1, <1>2, <1>6, <1>8, <3>2, <4>1 DEF DistanceAssumed, Exact
    <3> QED
      BY <3>1, <3>2
  <2>2. q = IF d = NaN THEN NaN ELSE (Unit * d) \div close
    BY <1>4, <1>5, <1>8 DEF Ratio
  <2>3. CASE d = NaN
    BY <1>4, <1>5, <2>2, <2>3
  <2>4. CASE d # NaN
    <3>1. Unit * d \in Int /\ (Unit * d) % close = 0
      BY <1>6, <2>1, <2>4
    <3>2. q \in Int /\ q * close = Unit * d
      BY <2>2, <2>4, <3>1, Divides
    <3> QED
      BY <1>4, <1>5, <1>6, <2>1, <2>4, <3>2
  <2> QED
    BY <2>3, <2>4
<1> QED
  BY <1>7, <1>8

--------------------------------------------------------------------------------
(* The initial legs: the least ratio of the rules a profile selects. *)

\* The least of some values, missing ones left out.
Nearby(V) == LET there == V \ {NaN}
             IN  IF there = {} THEN NaN ELSE Min(there)

LEMMA NearbyIs ==
  ASSUME NEW R, IsFiniteSet(R), NEW f, \A r \in R : f[r] \in Int \union {NaN}
  PROVE  /\ (\A r \in R : f[r] = NaN) => Nearby({f[r] : r \in R}) = NaN
         /\ (\E r \in R : f[r] # NaN) => \E r \in R : /\ Nearby({f[x] : x \in R}) = f[r] /\ f[r] # NaN
                                                      /\ \A x \in R : f[x] = NaN \/ f[r] <= f[x]
<1>1. PICK V : V = {f[r] : r \in R}
  OBVIOUS
<1>2. PICK there : there = V \ {NaN}
  OBVIOUS
<1>3. IsFiniteSet(V)
  BY <1>1, FiniteValues
<1>4. IsFiniteSet(there)
  BY <1>2, <1>3, FS_Subset
<1>5. there \in SUBSET Int
  BY <1>1, <1>2
<1>6. Nearby(V) = IF there = {} THEN NaN ELSE Min(there)
  BY <1>2 DEF Nearby
<1>7. CASE \A r \in R : f[r] = NaN
  <2>1. there = {}
    BY <1>1, <1>2, <1>7
  <2> QED
    BY <1>1, <1>6, <1>7, <2>1
<1>8. CASE \E r \in R : f[r] # NaN
  <2>1. there # {}
    BY <1>1, <1>2, <1>8
  <2>2. Min(there) \in there /\ \A x \in there : Min(there) <= x
    BY <1>4, <1>5, <2>1, LeastOf
  <2>3. PICK r \in R : Min(there) = f[r] /\ f[r] # NaN
    BY <1>1, <1>2, <2>2
  <2>4. \A x \in R : f[x] = NaN \/ f[x] \in there
    BY <1>1, <1>2
  <2>5. \A x \in R : f[x] = NaN \/ f[r] <= f[x]
    BY <2>2, <2>3, <2>4
  <2>6. Nearby(V) = f[r]
    BY <1>6, <2>1, <2>3
  <2> QED
    BY <1>1, <1>8, <2>3, <2>5, <2>6
<1> QED
  BY <1>7, <1>8

Ratios(spec, p, kind, w, u) == {Ratio(r, w)[u] : r \in ToSet(Applying(spec, p, kind))}
Distances(spec, p, kind, w, u) == {Distance(r, w)[u] : r \in ToSet(Applying(spec, p, kind))}

LEMMA RatioOfIs ==
  ASSUME NEW spec, NEW p, NEW kind, NEW w, NEW u \in Bars(w)
  PROVE  /\ RatioOf(spec, p, kind, w)[u] = Nearby(Ratios(spec, p, kind, w, u))
         /\ DistanceOf(spec, p, kind, w)[u] = Nearby(Distances(spec, p, kind, w, u))
<1>1. PICK R : R = ToSet(Applying(spec, p, kind))
  OBVIOUS
<1>2. \A columns : Nearest(columns, w)[u] = Nearby({c[u] : c \in columns})
  BY DEF Nearest, Nearby
<1>3. {c[u] : c \in {Ratio(r, w) : r \in R}} = {Ratio(r, w)[u] : r \in R}
  OBVIOUS
<1>4. {c[u] : c \in {Distance(r, w) : r \in R}} = {Distance(r, w)[u] : r \in R}
  OBVIOUS
<1> QED
  BY <1>1, <1>2, <1>3, <1>4 DEF RatioOf, DistanceOf, Ratios, Distances

LEMMA ProfileIs ==
  ASSUME NEW spec, NEW s, NEW w, NEW u \in Bars(w)
  PROVE  Profile(spec, s, w)[u] \in Profiles
<1>1. \A state : Regime(state, s) \in Profiles
  BY DEF Regime, Profiles
<1> QED
  BY <1>1 DEF Profile, Profiles

\* A selection reads the column of the bar's profile.
LEMMA SelectedIs ==
  ASSUME NEW spec, NEW s, NEW w, NEW u \in Bars(w)
  PROVE  /\ SelectedReady(spec, s, w)[u] <=> Ready(spec, Profile(spec, s, w)[u], w)[u]
         /\ \A kind : SelectedRatio(spec, kind, s, w)[u] = RatioOf(spec, Profile(spec, s, w)[u], kind, w)[u]
         /\ \A kind : SelectedDistance(spec, kind, s, w)[u] = DistanceOf(spec, Profile(spec, s, w)[u], kind, w)[u]
<1>1. Profile(spec, s, w)[u] \in Profiles
  BY ProfileIs
<1>2. SelectedReady(spec, s, w)[u] <=> Ready(spec, Profile(spec, s, w)[u], w)[u]
  BY <1>1 DEF SelectedReady, Select
<1>3. ASSUME NEW kind
      PROVE  SelectedRatio(spec, kind, s, w)[u] = RatioOf(spec, Profile(spec, s, w)[u], kind, w)[u]
  BY <1>1 DEF SelectedRatio, Select
<1>4. ASSUME NEW kind
      PROVE  SelectedDistance(spec, kind, s, w)[u] = DistanceOf(spec, Profile(spec, s, w)[u], kind, w)[u]
  BY <1>1 DEF SelectedDistance, Select
<1> QED
  BY <1>2, <1>3, <1>4

LEMMA ReadyIs ==
  ASSUME NEW spec, NEW p, NEW w, NEW u \in Bars(w)
  PROVE  Ready(spec, p, w)[u] <=>
            /\ \A kind \in {"stop_loss", "take_profit"} :
                  Applying(spec, p, kind) # <<>> => RatioOf(spec, p, kind, w)[u] # NaN
            /\ \A r \in ToSet(Applying(spec, p, "partial_take")) : Ratio(r, w)[u] # NaN
BY DEF Ready

LEMMA InstanceIs ==
  ASSUME NEW spec \in Specs, NEW r \in ToSet(Rules(spec)), RuleAssumed(r)
  PROVE  r.instance \in Instances /\ r.instance # None
BY DEF Instances, RuleAssumed

\* An initial leg is attributed.
LEMMA LegIs ==
  ASSUME NEW w, Sound(w), NEW spec \in Specs, NEW s, NEW kind \in {"stop_loss", "take_profit"}, NEW u \in Bars(w)
  PROVE  /\ InitialLeg(spec, kind, s, u, w) \in Legs \union {None}
         /\ SelectedRatio(spec, kind, s, w)[u] = NaN => InitialLeg(spec, kind, s, u, w) = None
         /\ SelectedRatio(spec, kind, s, w)[u] # NaN =>
               /\ InitialLeg(spec, kind, s, u, w).ratio = SelectedRatio(spec, kind, s, w)[u]
               /\ InitialLeg(spec, kind, s, u, w).rule # None
<1>1. PICK p \in Profiles : p = Profile(spec, s, w)[u]
  BY ProfileIs
<1>2. PICK rules : rules = Applying(spec, p, kind)
  OBVIOUS
<1>3. SpecAssumed(spec)
  BY EntryAssumption
<1>4. /\ rules \in Seq(ToSet(Rules(spec))) /\ IsFiniteSet(ToSet(rules))
      /\ \A r \in ToSet(rules) : r.kind = kind /\ RuleAssumed(r) /\ r \in ToSet(Rules(spec))
  BY <1>2, <1>3, ApplyingIs
<1>5. \A r \in ToSet(rules) : Ratio(r, w)[u] \in Int \union {NaN}
  BY <1>4, DistanceIs DEF DistanceRules
<1>6. PICK f : f = [r \in ToSet(rules) |-> Ratio(r, w)[u]]
  OBVIOUS
<1>7. \A r \in ToSet(rules) : f[r] = Ratio(r, w)[u]
  BY <1>6
<1>8. PICK q : q = SelectedRatio(spec, kind, s, w)[u]
  OBVIOUS
<1>9. q = Nearby({f[r] : r \in ToSet(rules)})
  <2>1. q = Nearby({Ratio(r, w)[u] : r \in ToSet(rules)})
    <3>1. RatioOf(spec, p, kind, w)[u] = Nearby(Ratios(spec, p, kind, w, u))
      BY RatioOfIs
    <3>3. Ratios(spec, p, kind, w, u) = {Ratio(r, w)[u] : r \in ToSet(rules)}
      BY <1>2 DEF Ratios
    <3>2. q = RatioOf(spec, p, kind, w)[u]
      BY <1>1, <1>8, SelectedIs
    <3> QED
      BY <3>1, <3>2, <3>3
  <2>2. {Ratio(r, w)[u] : r \in ToSet(rules)} = {f[r] : r \in ToSet(rules)}
    BY <1>7
  <2> QED
    BY <2>1, <2>2
<1>10. q # NaN => q \in Int /\ \E r \in ToSet(rules) : Ratio(r, w)[u] = q
  <2>1. \A r \in ToSet(rules) : f[r] \in Int \union {NaN}
    BY <1>5, <1>7
  <2>2. /\ (\A r \in ToSet(rules) : f[r] = NaN) => q = NaN
        /\ (\E r \in ToSet(rules) : f[r] # NaN) => \E r \in ToSet(rules) : q = f[r] /\ f[r] # NaN
    <3>1. PICK R : R = ToSet(rules)
      OBVIOUS
    <3>2. IsFiniteSet(R) /\ \A r \in R : f[r] \in Int \union {NaN}
      BY <1>4, <2>1, <3>1
    <3>3. /\ (\A r \in R : f[r] = NaN) => Nearby({f[r] : r \in R}) = NaN
          /\ (\E r \in R : f[r] # NaN) => \E r \in R : /\ Nearby({f[x] : x \in R}) = f[r] /\ f[r] # NaN
                                                      /\ \A x \in R : f[x] = NaN \/ f[r] <= f[x]
      BY ONLY <3>2, NearbyIs
    <3>4. q = Nearby({f[r] : r \in R})
      BY <1>9, <3>1
    <3> QED
      BY <3>1, <3>3, <3>4
  <2> QED
    BY <1>7, <2>1, <2>2
<1>11. CASE q = NaN
  BY <1>8, <1>11 DEF InitialLeg
<1>12. CASE q # NaN
  <2>1. PICK first : first = {i \in DOMAIN rules : Ratio(rules[i], w)[u] = q}
    OBVIOUS
  <2>2. PICK rule : rule = Attributed(spec, kind, p, u, q, w)
    OBVIOUS
  <2>3. rule = IF first = {} THEN None ELSE rules[Min(first)].instance
    BY <1>2, <2>1, <2>2 DEF Attributed
  <2>4. PICK N \in Nat : DOMAIN rules = 1..N
    BY <1>4
  <2>5. first \in SUBSET Int /\ first \in SUBSET Nat
    BY <2>1, <2>4
  <2>6. first # {}
    BY <1>10, <1>12, <2>1 DEF ToSet
  <2>7. PICK m \in first : \A k \in first : m <= k
    BY <2>5, <2>6, LeastNumber
  <2>8. Min(first) = m
    BY <2>5, <2>7, MinIs
  <2>9. rules[m] \in ToSet(rules)
    BY <2>1, <2>7 DEF ToSet
  <2>10. rule \in Instances /\ rule # None
    BY <1>4, <2>3, <2>6, <2>8, <2>9, InstanceIs
  <2>11. InitialLeg(spec, kind, s, u, w) = [ratio |-> q, rule |-> rule]
    BY <1>1, <1>8, <1>12, <2>2 DEF InitialLeg
  <2> QED
    BY <1>8, <1>10, <1>12, <2>10, <2>11 DEF Legs
<1> QED
  BY <1>11, <1>12

--------------------------------------------------------------------------------
(* The partial takes of a bar, and the candidates of both sides. *)

PartialLegs == [take : Instances, ratio : Int, fraction : Int]

\* The ratios of the rules of a ladder, and the ladder they are ordered to.
RatiosOf(rules, w, u) == [i \in DOMAIN rules |-> Ratio(rules[i], w)[u]]
LadderOf(rules, order, w, u) ==
    [n \in DOMAIN rules |-> [take |-> rules[order[n]].instance, ratio |-> Ratio(rules[order[n]], w)[u],
                             fraction |-> rules[order[n]].fraction]]

\* The partial takes of a bar whose legs are ready.
LEMMA LadderIs ==
  ASSUME NEW w, Sound(w), NEW spec \in Specs, NEW s, NEW u \in Bars(w), SelectedReady(spec, s, w)[u],
         NEW rules, rules = Applying(spec, Profile(spec, s, w)[u], "partial_take"),
         NEW order, order = Order(Places(RatiosOf(rules, w, u)))
  PROVE  /\ Ladder(spec, s, u, w) \in Seq(PartialLegs)
         /\ order \in [DOMAIN rules -> DOMAIN rules]
         /\ Ladder(spec, s, u, w) = LadderOf(rules, order, w, u)
<1>1. PICK p \in Profiles : p = Profile(spec, s, w)[u]
  BY ProfileIs
<1>2. SpecAssumed(spec)
  BY EntryAssumption
<1>3. /\ rules \in Seq(ToSet(Rules(spec)))
      /\ \A r \in ToSet(rules) : r.kind = "partial_take" /\ RuleAssumed(r) /\ r \in ToSet(Rules(spec))
  BY <1>1, <1>2, ApplyingIs
<1>4. \A r \in ToSet(rules) : Ratio(r, w)[u] # NaN
  BY <1>1, SelectedIs, ReadyIs
<1>5. ASSUME NEW r \in ToSet(rules)
      PROVE  r.instance \in Instances /\ Ratio(r, w)[u] \in Int /\ r.fraction \in Int
  <2>1. RuleAssumed(r) /\ r.kind = "partial_take" /\ r \in ToSet(Rules(spec))
    BY <1>3
  <2>2. r.instance \in Instances
    BY <2>1, InstanceIs
  <2>3. Ratio(r, w)[u] \in Int \union {NaN}
    BY <2>1, DistanceIs DEF DistanceRules
  <2>4. r.fraction \in Int
    BY <2>1 DEF RuleAssumed
  <2> QED
    BY <1>4, <2>2, <2>3, <2>4
<1>6. PICK N \in Nat : DOMAIN rules = 1..N
  BY <1>3
<1>7. \A i \in 1..N : rules[i] \in ToSet(rules)
  BY <1>6 DEF ToSet
<1>8. PICK legs : legs = [i \in 1..N |-> [take |-> rules[i].instance, ratio |-> Ratio(rules[i], w)[u],
                                          fraction |-> rules[i].fraction]]
  OBVIOUS
<1>9. \A i \in 1..N : legs[i] \in PartialLegs
  BY <1>5, <1>7, <1>8 DEF PartialLegs
<1>10. legs \in Seq(PartialLegs) /\ DOMAIN legs = 1..N
  BY <1>8, <1>9
<1>11. PICK key : key = [i \in 1..N |-> Ratio(rules[i], w)[u]]
  OBVIOUS
<1>12. DOMAIN key = DOMAIN legs /\ \A i \in DOMAIN legs : key[i] \in Int
  BY <1>5, <1>7, <1>10, <1>11
<1>13. key = [i \in DOMAIN legs |-> legs[i].ratio]
  BY <1>8, <1>10, <1>11
<1>14. Ladder(spec, s, u, w) = Sorted(legs, key)
  BY <1>6, <1>8, <1>13 DEF Ladder
<1>15. order = Order(Places(key))
  BY <1>6, <1>11 DEF RatiosOf
<1>16. PICK S : S = PartialLegs
  OBVIOUS
<1>17. /\ Sorted(legs, key) \in Seq(S)
       /\ Order(Places(key)) \in [DOMAIN legs -> DOMAIN legs]
       /\ Sorted(legs, key) = [n \in DOMAIN legs |-> legs[Order(Places(key))[n]]]
  <2>1. legs \in Seq(S)
    BY <1>10, <1>16
  <2> QED
    BY ONLY <2>1, <1>12, SortedIs
<1>18. \A n \in 1..N : order[n] \in 1..N
  BY <1>10, <1>15, <1>17
<1>19. \A n \in 1..N : legs[order[n]] = [take |-> rules[order[n]].instance, ratio |-> Ratio(rules[order[n]], w)[u],
                                         fraction |-> rules[order[n]].fraction]
  BY <1>8, <1>18
<1>20. Sorted(legs, key) = [n \in 1..N |-> legs[order[n]]]
  BY <1>10, <1>15, <1>17
<1>21. Ladder(spec, s, u, w) \in Seq(PartialLegs)
  BY <1>14, <1>16, <1>17
<1>22. order \in [DOMAIN rules -> DOMAIN rules]
  BY <1>6, <1>10, <1>15, <1>17
<1>23. Ladder(spec, s, u, w) = [n \in 1..N |->
          [take |-> rules[order[n]].instance, ratio |-> Ratio(rules[order[n]], w)[u],
           fraction |-> rules[order[n]].fraction]]
  <2>1. Ladder(spec, s, u, w) = [n \in 1..N |-> legs[order[n]]]
    BY <1>14, <1>20
  <2> QED
    BY ONLY <1>19, <2>1
<1> QED
  BY ONLY <1>6, <1>21, <1>22, <1>23 DEF LadderOf

\* No bar is of both directions.
LEMMA OneDirection ==
  ASSUME NEW w, Sound(w), NEW u \in Bars(w)
  PROVE  ~ (Direction("long", w)[u] /\ Direction("short", w)[u])
<1>1. PICK b \in Printed : b = w.bars[u]
  BY DEF Sound, Bars
<1>2. At(w, "fast", u) \in Int \union {NaN} /\ At(w, "anchor", u) \in Int \union {NaN}
  BY <1>1, EntryAssumption DEF Numeric, At
<1> QED
  BY <1>2 DEF Direction, Ahead, Over

LEMMA OneSide ==
  ASSUME NEW w, Sound(w), NEW spec, NEW u \in Bars(w)
  PROVE  \E s \in Sides : ~ PreTrigger(spec, s, w)[u] /\ ~ EntryAllowed(spec, s, w)[u]
<1>1. \E s \in Sides : ~ Direction(s, w)[u]
  BY OneDirection DEF Sides
<1> QED
  BY <1>1, PreSetupIs, PreTriggerIs, EntryAllowedIs

LEMMA CandidatesIs ==
  ASSUME NEW w, NEW spec \in Specs, NEW p \in Profiles, NEW s, NEW u \in Bars(w)
  PROVE  AnySignal(spec, p, s, w)[u] <=> Candidates(spec, p, s, u, w) # <<>>
<1>1. SpecAssumed(spec)
  BY EntryAssumption
<1>2. PICK K : K = ToSet(Applying(spec, p, "signal"))
  OBVIOUS
<1>3. K \subseteq ToSet(Rules(spec))
  BY <1>1, <1>2, ApplyingIs
<1>4. PICK rules : rules = Among(Rules(spec), K)
  OBVIOUS
<1>5. Rules(spec) \in Seq(ToSet(Rules(spec)))
  BY <1>1, RulesIs
<1>6. rules \in Seq(ToSet(Rules(spec))) /\ \A x : x \in ToSet(rules) <=> x \in K
  <2>1. /\ Among(Rules(spec), K) \in Seq(ToSet(Rules(spec)))
        /\ \A x : x \in ToSet(Among(Rules(spec), K)) <=> x \in ToSet(Rules(spec)) /\ x \in K
    BY <1>5, AmongIs
  <2> QED
    BY <1>3, <1>4, <2>1
<1>7. PICK fired : fired = {r \in ToSet(rules) : Signal(spec, r, s, w)[u]}
  OBVIOUS
<1>8. /\ Among(rules, fired) \in Seq(ToSet(Rules(spec)))
      /\ \A x : x \in ToSet(Among(rules, fired)) <=> x \in ToSet(rules) /\ x \in fired
  BY <1>6, AmongIs
<1>9. Candidates(spec, p, s, u, w) = Among(rules, fired)
  BY <1>2, <1>4, <1>7 DEF Candidates
<1>10. Among(rules, fired) # <<>> <=> \E x : x \in ToSet(Among(rules, fired))
  BY <1>8 DEF ToSet
<1>11. AnySignal(spec, p, s, w)[u] <=> \E r \in K : Signal(spec, r, s, w)[u]
  BY <1>2 DEF AnySignal
<1> QED
  BY <1>6, <1>7, <1>8, <1>9, <1>10, <1>11

--------------------------------------------------------------------------------
(* What the projections assert of every history. *)

Typed == bars \in Seq(Printed)

LEMMA InitTyped ==
  ASSUME Init
  PROVE  Typed
<1>1. Listed(bars) /\ ToSet(bars) \subseteq Printed
  BY EntryAssumption DEF Init, Printed
<1> QED
  BY <1>1, ListedIn DEF Typed

LEMMA NextTyped ==
  ASSUME Typed, Next
  PROVE  Typed' /\ \E b \in Printed : bars' = Append(bars, b)
<1>1. PICK b \in Shapes : bars' = Append(bars, b)
  BY DEF Next
<1>2. b \in Printed
  BY DEF Printed
<1> QED
  BY <1>1, <1>2 DEF Typed

LEMMA WorldSound ==
  ASSUME Typed
  PROVE  /\ Sound(World) /\ Now \in Nat /\ Bars(World) = 1..Now
         /\ Now > 0 => Now \in Bars(World)
<1>1. Now \in Nat /\ \A u \in 1..Now : bars[u] \in Printed
  BY DEF Typed, Now
<1>2. World.n = Now /\ World.bars = bars
  BY DEF World, Now
<1> QED
  BY <1>1, <1>2 DEF Sound, Bars

LEMMA TypedAsserts ==
  ASSUME Typed
  PROVE  AssertionsHold
<1> SUFFICES ASSUME Now > 0, NEW spec \in Specs
             PROVE  LET opportunity == [s \in Sides |-> Opportunity(spec, s, Now, World)]
                    IN  /\ \E s \in Sides : opportunity[s] = None
                        /\ \A mode \in {"ema_anchor", "touch_trigger"} :
                              \E s \in Sides : LivePlan(mode, spec, s, Now, World) = None
                        /\ \A s \in {x \in Sides : opportunity[x] # None} :
                              /\ \A leg \in {opportunity[s].stop, opportunity[s].take} \ {None} : leg.rule # None
                              /\ \A i \in DOMAIN opportunity[s].partial : opportunity[s].partial[i].ratio # NaN
                        /\ \A p \in Profiles, s \in Sides :
                              AnySignal(spec, p, s, World)[Now] <=> Candidates(spec, p, s, Now, World) # <<>>
  BY DEF AssertionsHold
<1>1. PICK w : w = World
  OBVIOUS
<1>2. PICK u : u = Now
  OBVIOUS
<1>3. Sound(w) /\ u \in Bars(w)
  BY <1>1, <1>2, WorldSound
<1>4. PICK opportunity : opportunity = [s \in Sides |-> Opportunity(spec, s, u, w)]
  OBVIOUS
<1>5. PICK side \in Sides : ~ PreTrigger(spec, side, w)[u] /\ ~ EntryAllowed(spec, side, w)[u]
  BY <1>3, OneSide
<1>6. \E s \in Sides : opportunity[s] = None
  BY <1>4, <1>5 DEF Opportunity, Executable
<1>7. \A mode : LivePlan(mode, spec, side, u, w) = None
  <2>1. TouchEntry(spec, side, u, w) = None
    BY <1>5 DEF TouchEntry
  <2>2. PotentialEntry(spec, side, u, w) = None
    BY <1>5 DEF PotentialEntry
  <2> QED
    BY <2>1, <2>2 DEF LivePlan
<1>8. ASSUME NEW s \in Sides, opportunity[s] # None
      PROVE  /\ \A leg \in {opportunity[s].stop, opportunity[s].take} \ {None} : leg.rule # None
             /\ \A i \in DOMAIN opportunity[s].partial : opportunity[s].partial[i].ratio # NaN
  <2>1. opportunity[s] = Opportunity(spec, s, u, w)
    BY <1>4
  <2>2. SelectedReady(spec, s, w)[u]
    BY <1>8, <2>1 DEF Opportunity, Executable
  <2>3. /\ opportunity[s].stop = InitialLeg(spec, "stop_loss", s, u, w)
        /\ opportunity[s].take = InitialLeg(spec, "take_profit", s, u, w)
        /\ opportunity[s].partial = Ladder(spec, s, u, w)
    BY <1>8, <2>1 DEF Opportunity
  <2>4. \A kind \in {"stop_loss", "take_profit"} :
           InitialLeg(spec, kind, s, u, w) # None => InitialLeg(spec, kind, s, u, w).rule # None
    BY <1>3, LegIs
  <2>5. Ladder(spec, s, u, w) \in Seq(PartialLegs)
    BY <1>3, <2>2, LadderIs
  <2>6. \A i \in DOMAIN Ladder(spec, s, u, w) : Ladder(spec, s, u, w)[i].ratio # NaN
    <3>1. NaN \notin Int
      BY EntryAssumption
    <3>2. PICK q \in Seq(PartialLegs) : q = Ladder(spec, s, u, w)
      BY <2>5
    <3>3. \A i \in DOMAIN q : q[i] \in PartialLegs
      BY <3>2
    <3> QED
      BY <3>1, <3>2, <3>3 DEF PartialLegs
  <2> QED
    BY <2>3, <2>4, <2>6
<1>9. \A p \in Profiles, s \in Sides : AnySignal(spec, p, s, w)[u] <=> Candidates(spec, p, s, u, w) # <<>>
  BY <1>3, CandidatesIs
<1> QED
  BY <1>1, <1>2, <1>4, <1>6, <1>7, <1>8, <1>9

\* The bars of a history are always bars the market prints, of which the
\* assumptions on prices and indicators speak.
THEOREM HistoryTyped == Spec => []Typed
<1>1. Init => Typed
  BY InitTyped
<1>2. Typed /\ [Next]_vars => Typed'
  BY NextTyped DEF vars, Typed
<1> QED
  BY <1>1, <1>2, PTL DEF Spec

\* On every bar of every history an accepted specification has an executable
\* entry, and a live plan, on one side at most; the legs of an opportunity
\* have the rule they come from and its partial takes a ratio; and a profile
\* has an exit signal exactly if one of its rules has.  So none of the errors
\* that would fail the whole projection is raised (_pick_leg_attribution,
\* _entry_opportunities, _signal_exit_projection).
THEOREM ProjectionsAssert == Spec => []AssertionsHold
<1>1. Typed => AssertionsHold
  BY TypedAsserts
<1> QED
  BY <1>1, HistoryTyped, PTL

--------------------------------------------------------------------------------
(* What the vectorised masks have for every history: what a scan of the bars
   finds. *)

\* The trend blocker finds no peak exactly if its window has no strong bar,
\* and judges by the latest strong one otherwise.
LEMMA TrendScanned ==
  ASSUME NEW b, BlockerAssumed(b), b.id = "trend_strength_episode_blocker", NEW s, NEW w, NEW t \in Nat \ {0},
         NEW strong, strong = {u \in Max({1, t - b.lookback + 1})..t : Strong(b, s, w, u)},
         Blocked(b, s, w, t) # "indicator_not_ready"
  PROVE  /\ Blocked(b, s, w, t) = "no_recent_adx_peak" <=> strong = {}
         /\ strong # {} => (Blocked(b, s, w, t) # "peak_too_old" <=> t - Max(strong) <= b.age)
<1>1. b.lookback \in Nat \ {0} /\ b.age \in Int
  BY DEF BlockerAssumed
<1>2. PICK peak : peak = PeakAt(b, s, w, t)
  OBVIOUS
<1>3. /\ peak \in 0..t
      /\ peak # 0 => Strong(b, s, w, peak) /\ peak >= t - b.lookback + 1
      /\ \A u \in 1..t : u >= t - b.lookback + 1 /\ Strong(b, s, w, u) => u <= peak
  BY <1>1, <1>2, PeakIs
<1>4. PICK adx, plus, minus : Blocked(b, s, w, t) = Judged(b, s, t, peak, adx, plus, minus)
  <2>1. Blocked(b, s, w, t)
          = Judged(b, s, t, PeakAt(b, s, w, t), At(w, "adx", t), At(w, "plus", t), At(w, "minus", t))
    BY Zenon DEF Blocked, Judged
  <2> QED
    BY <1>2, <2>1
<1>5. /\ Blocked(b, s, w, t) = "no_recent_adx_peak" <=> peak = 0
      /\ peak # 0 => (Blocked(b, s, w, t) # "peak_too_old" <=> ~ (t - peak > b.age))
  BY <1>4 DEF Judged
<1>6. strong = {u \in 1..t : u >= t - b.lookback + 1 /\ Strong(b, s, w, u)}
  <2>1. Max({1, t - b.lookback + 1})..t = {u \in 1..t : u >= t - b.lookback + 1}
    BY <1>1, WindowIs
  <2> QED
    BY <2>1
<1>7. strong # {} <=> peak # 0
  <2>1. peak # 0 => peak \in strong
    BY <1>3, <1>6
  <2>2. ASSUME NEW u \in strong PROVE peak # 0
    <3>1. u \in 1..t /\ u <= peak
      BY <1>3, <1>6
    <3> QED
      BY <1>3, <3>1
  <2> QED
    BY <2>1, <2>2
<1>8. CASE peak # 0
  <2>1. strong \in SUBSET Int /\ peak \in strong /\ \A x \in strong : peak >= x
    BY <1>3, <1>6, <1>8
  <2>2. Max(strong) = peak
    BY <2>1, MaxIs
  <2>3. ~ (t - peak > b.age) <=> t - peak <= b.age
    BY <1>1, <1>3
  <2> QED
    BY <1>5, <1>7, <1>8, <2>2, <2>3, Zenon
<1>9. CASE peak = 0
  BY <1>5, <1>7, <1>9
<1> QED
  BY <1>8, <1>9

LEMMA AheadNotBehind ==
  ASSUME NEW s, NEW a \in Int \union {NaN}, NEW b \in Int \union {NaN}, Ahead(s, a, b)
  PROVE  ~ AheadOrOn(s, b, a)
BY DEF Ahead, AheadOrOn, Over, OverOrOn

Adverse(r, s, w, u) == Ahead(s, At(w, r.slow, u), At(w, r.fast, u))
Crossed(r, s, w, u) ==
    u > 1 /\ Adverse(r, s, w, u) /\ AheadOrOn(s, At(w, r.fast, u - 1), At(w, r.slow, u - 1))

\* A cross exit fires on the confirm-th adverse bar from a crossing on.
LEMMA CrossScanned ==
  ASSUME NEW w, Sound(w), NEW r, RuleAssumed(r), r.id = "ema_cross_loss_exit", NEW s, NEW t \in Bars(w),
         NEW from, from = t - r.confirm + 1
  PROVE  CrossLoss(r, s, w)[t] <=> from > 1 /\ Crossed(r, s, w, from) /\ \A u \in from..t : Adverse(r, s, w, u)
<1>1. PICK n \in Nat \ {0} : n = r.confirm
  BY DEF RuleAssumed
<1>2. w.n \in Nat /\ t \in 1..w.n /\ from = t - n + 1
  BY <1>1 DEF Sound, Bars
<1> DEFINE adverse == [u \in Bars(w) |-> Ahead(s, At(w, r.slow, u), At(w, r.fast, u))]
           cross == [u \in Bars(w) |->
                      adverse[u] /\ u > 1 /\ AheadOrOn(s, At(w, r.fast, u - 1), At(w, r.slow, u - 1))]
<1>3. \A u \in Bars(w) : adverse[u] <=> Adverse(r, s, w, u)
  BY DEF Adverse
<1>4. \A u \in Bars(w) : cross[u] <=> Crossed(r, s, w, u)
  BY <1>3 DEF Crossed
<1>5. CrossLoss(r, s, w) = IF r.confirm = 1 THEN cross
                           ELSE [u \in Bars(w) |-> Held(adverse, r.confirm, u) /\ RollingAny(cross, r.confirm, u)]
  BY DEF CrossLoss
<1> HIDE DEF adverse, cross
<1>6. \A u \in 1..t : u \in Bars(w)
  BY <1>2 DEF Bars
<1>7. CASE n = 1
  <2>1. from = t /\ \A u \in from..t : u = t
    BY <1>2, <1>7
  <2>2. CrossLoss(r, s, w)[t] <=> Crossed(r, s, w, t)
    BY <1>1, <1>4, <1>5, <1>7
  <2> QED
    BY <1>2, <2>1, <2>2 DEF Crossed
<1>8. CASE n # 1
  <2>1. CrossLoss(r, s, w)[t] <=> Held(adverse, n, t) /\ RollingAny(cross, n, t)
    BY <1>1, <1>5, <1>8
  <2>2. Held(adverse, n, t) <=> from >= 1 /\ \A u \in from..t : Adverse(r, s, w, u)
    <3>1. t >= n <=> from >= 1
      BY <1>2
    <3>2. (t - n + 1)..t = from..t
      BY <1>2
    <3>3. from >= 1 => \A u \in from..t : u \in 1..t
      BY <1>2
    <3> QED
      BY <1>3, <1>6, <3>1, <3>2, <3>3 DEF Held
  <2>3. RollingAny(cross, n, t) <=> \E u \in 1..t : u >= from /\ Crossed(r, s, w, u)
    <3>1. t \in Nat \ {0}
      BY <1>2
    <3>2. Max({1, t - n + 1})..t = {u \in 1..t : u >= t - n + 1}
      BY <3>1, WindowIs
    <3>3. RollingAny(cross, n, t) <=> \E u \in 1..t : u >= from /\ cross[u]
      BY <1>2, <3>2 DEF RollingAny
    <3> QED
      BY <1>4, <1>6, <3>3
  <2>4. ASSUME \A u \in from..t : Adverse(r, s, w, u), from >= 1,
               NEW u \in 1..t, u >= from, Crossed(r, s, w, u)
        PROVE  u = from
    <3> SUFFICES ASSUME u > from PROVE FALSE
      BY <1>2, <2>4
    <3>1. u - 1 \in from..t /\ u - 1 \in 1..t
      BY <1>2, <2>4
    <3>2. PICK b \in Printed : b = w.bars[u - 1]
      BY <1>2, <3>1 DEF Sound
    <3>3. At(w, r.fast, u - 1) \in Int \union {NaN} /\ At(w, r.slow, u - 1) \in Int \union {NaN}
      BY <3>2 DEF RuleAssumed, Numeric, At
    <3>4. Ahead(s, At(w, r.slow, u - 1), At(w, r.fast, u - 1))
      BY <2>4, <3>1 DEF Adverse
    <3>5. AheadOrOn(s, At(w, r.fast, u - 1), At(w, r.slow, u - 1))
      BY <2>4 DEF Crossed
    <3> QED
      BY <3>3, <3>4, <3>5, AheadNotBehind
  <2>5. from > 1 => from \in 1..t
    BY <1>2
  <2>6. Crossed(r, s, w, from) => from > 1
    BY DEF Crossed
  <2>7. from > 1 => from >= 1 /\ from >= from
    BY <1>2
  <2> QED
    BY <2>1, <2>2, <2>3, <2>4, <2>5, <2>6, <2>7
<1> QED
  BY <1>7, <1>8

LEMMA TypedScanned ==
  ASSUME Typed
  PROVE  ScannedAsSpecified
<1> SUFFICES ASSUME Now > 0, NEW spec \in Specs, NEW s \in Sides
      PROVE
       /\ \A b \in {x \in ToSet(spec.blockers) : x.id = "trend_strength_episode_blocker"} :
             LET window == Max({1, Now - b.lookback + 1})..Now
                 strong == {u \in window : Strong(b, s, World, u)}
             IN  Blocked(b, s, World, Now) # "indicator_not_ready" =>
                    /\ Blocked(b, s, World, Now) = "no_recent_adx_peak" <=> strong = {}
                    /\ strong # {} => (Blocked(b, s, World, Now) # "peak_too_old" <=> Now - Max(strong) <= b.age)
       /\ \A r \in {x \in ToSet(Rules(spec)) : x.id = "ema_cross_loss_exit"} :
             LET adverse(u) == Ahead(s, At(World, r.slow, u), At(World, r.fast, u))
                 crossed(u) == u > 1 /\ adverse(u) /\ AheadOrOn(s, At(World, r.fast, u - 1), At(World, r.slow, u - 1))
                 from == Now - r.confirm + 1
             IN  s \in ToSet(spec.sides) =>
                    (Signal(spec, r, s, World)[Now]
                        <=> from > 1 /\ crossed(from) /\ \A u \in from..Now : adverse(u))
  BY Zenon DEF ScannedAsSpecified
<1>1. PICK w, t : w = World /\ t = Now
  OBVIOUS
<1>2. Sound(w) /\ t \in Nat \ {0} /\ t \in Bars(w)
  BY <1>1, WorldSound
<1>3. SpecAssumed(spec)
  BY EntryAssumption
<1>4. ASSUME NEW b \in ToSet(spec.blockers), b.id = "trend_strength_episode_blocker",
             Blocked(b, s, w, t) # "indicator_not_ready",
             NEW strong, strong = {u \in Max({1, t - b.lookback + 1})..t : Strong(b, s, w, u)}
      PROVE  /\ Blocked(b, s, w, t) = "no_recent_adx_peak" <=> strong = {}
             /\ strong # {} => (Blocked(b, s, w, t) # "peak_too_old" <=> t - Max(strong) <= b.age)
  <2>1. BlockerAssumed(b)
    BY <1>3 DEF SpecAssumed
  <2> QED
    BY <1>2, <1>4, <2>1, TrendScanned
<1>5. ASSUME NEW r \in ToSet(Rules(spec)), r.id = "ema_cross_loss_exit", s \in ToSet(spec.sides),
             NEW from, from = t - r.confirm + 1
      PROVE  Signal(spec, r, s, w)[t] <=> from > 1 /\ Crossed(r, s, w, from) /\ \A u \in from..t : Adverse(r, s, w, u)
  <2>1. RuleAssumed(r)
    BY <1>3, RulesIs DEF SpecAssumed
  <2>2. Signal(spec, r, s, w) = CrossLoss(r, s, w)
    BY <1>5 DEF Signal
  <2> QED
    BY <1>2, <1>5, <2>1, <2>2, CrossScanned
<1>6. ASSUME NEW b \in ToSet(spec.blockers), b.id = "trend_strength_episode_blocker"
      PROVE  LET window == Max({1, Now - b.lookback + 1})..Now
                 strong == {u \in window : Strong(b, s, World, u)}
             IN  Blocked(b, s, World, Now) # "indicator_not_ready" =>
                    /\ Blocked(b, s, World, Now) = "no_recent_adx_peak" <=> strong = {}
                    /\ strong # {} => (Blocked(b, s, World, Now) # "peak_too_old" <=> Now - Max(strong) <= b.age)
  BY <1>1, <1>4, <1>6
<1>7. ASSUME NEW r \in ToSet(Rules(spec)), r.id = "ema_cross_loss_exit"
      PROVE  LET adverse(u) == Ahead(s, At(World, r.slow, u), At(World, r.fast, u))
                 crossed(u) == u > 1 /\ adverse(u) /\ AheadOrOn(s, At(World, r.fast, u - 1), At(World, r.slow, u - 1))
                 from == Now - r.confirm + 1
             IN  s \in ToSet(spec.sides) =>
                    (Signal(spec, r, s, World)[Now]
                        <=> from > 1 /\ crossed(from) /\ \A u \in from..Now : adverse(u))
  BY <1>1, <1>5, <1>7 DEF Adverse, Crossed
<1> QED
  BY <1>6, <1>7

\* The masks computed with running indices and shifted columns are what a
\* scan of the bars finds, for every lookback and confirmation: the trend
\* blocker judges by the latest strong bar of its window
\* (_trend_strength_blocker), and a cross exit fires on the confirm-th
\* adverse bar after a crossing and on no other (_signal_rule).
THEOREM MasksScan == Spec => []ScannedAsSpecified
<1>1. Typed => ScannedAsSpecified
  BY TypedScanned
<1> QED
  BY <1>1, HistoryTyped, PTL

--------------------------------------------------------------------------------
(* The opportunity of a bar is that of every frame with the same bars up to it. *)

LEMMA DistanceAlike ==
  ASSUME NEW w, NEW v, NEW t, Alike(w, v, t), NEW r
  PROVE  \A u \in 1..t : Distance(r, w)[u] = Distance(r, v)[u] /\ Ratio(r, w)[u] = Ratio(r, v)[u]
<1> SUFFICES ASSUME NEW u \in 1..t PROVE Distance(r, w)[u] = Distance(r, v)[u] /\ Ratio(r, w)[u] = Ratio(r, v)[u]
  OBVIOUS
<1>1. u \in Bars(w) /\ u \in Bars(v) /\ \A c : At(w, c, u) = At(v, c, u)
  BY AtAlike
<1>2. Distance(r, w)[u] = Distance(r, v)[u]
  <2>1. CASE r.id = "pct_partial_take"
    BY <1>1, <2>1 DEF Distance
  <2>2. CASE r.id # "pct_partial_take" /\ r.id \in {"atr_stop_loss", "atr_take_profit", "atr_partial_take"}
    BY <1>1, <2>2 DEF Distance
  <2>3. CASE r.id # "pct_partial_take" /\ r.id \notin {"atr_stop_loss", "atr_take_profit", "atr_partial_take"}
    BY <1>1, <2>3 DEF Distance
  <2> QED
    BY <2>1, <2>2, <2>3
<1>3. \A x : u \in Bars(x) => Ratio(r, x)[u] = IF r.id = "pct_partial_take" THEN r.pct
                             ELSE IF Distance(r, x)[u] = NaN THEN NaN
                             ELSE (Unit * Distance(r, x)[u]) \div At(x, "close", u)
  BY DEF Ratio
<1> QED
  BY <1>1, <1>2, <1>3

LEMMA AggregatesAlike ==
  ASSUME NEW w, NEW v, NEW t, Alike(w, v, t), NEW spec, NEW p, NEW u \in 1..t
  PROVE  /\ \A kind : RatioOf(spec, p, kind, w)[u] = RatioOf(spec, p, kind, v)[u]
         /\ Ready(spec, p, w)[u] <=> Ready(spec, p, v)[u]
<1>1. u \in Bars(w) /\ u \in Bars(v)
  BY AtAlike
<1>2. \A r : Ratio(r, w)[u] = Ratio(r, v)[u]
  BY DistanceAlike
<1>3. ASSUME NEW kind PROVE RatioOf(spec, p, kind, w)[u] = RatioOf(spec, p, kind, v)[u]
  <2>1. Ratios(spec, p, kind, w, u) = Ratios(spec, p, kind, v, u)
    BY <1>2 DEF Ratios
  <2> QED
    BY <1>1, <2>1, RatioOfIs
<1>4. Ready(spec, p, w)[u] <=> Ready(spec, p, v)[u]
  BY <1>1, <1>2, <1>3, ReadyIs
<1> QED
  BY <1>3, <1>4

LEMMA OpportunityAlike ==
  ASSUME NEW w, NEW v, NEW t, Alike(w, v, t), NEW spec, SpecAssumed(spec), NEW s, NEW u \in 1..t
  PROVE  Opportunity(spec, s, u, w) = Opportunity(spec, s, u, v)
<1>1. u \in Bars(w) /\ u \in Bars(v)
  BY AtAlike
<1>2. PICK p : p = Profile(spec, s, w)[u] /\ p = Profile(spec, s, v)[u]
  BY ProfileAlike
<1>3. \A r : Ratio(r, w)[u] = Ratio(r, v)[u]
  BY DistanceAlike
<1>4. SelectedReady(spec, s, w)[u] <=> SelectedReady(spec, s, v)[u]
  <2>1. SelectedReady(spec, s, w)[u] <=> Ready(spec, p, w)[u]
    BY <1>1, <1>2, SelectedIs
  <2>2. SelectedReady(spec, s, v)[u] <=> Ready(spec, p, v)[u]
    BY <1>1, <1>2, SelectedIs
  <2>3. Ready(spec, p, w)[u] <=> Ready(spec, p, v)[u]
    BY AggregatesAlike
  <2> QED
    BY <2>1, <2>2, <2>3
<1>5. Executable(spec, s, u, w) <=> Executable(spec, s, u, v)
  BY <1>4, EntryAlike DEF Executable
<1>6. ASSUME NEW kind PROVE InitialLeg(spec, kind, s, u, w) = InitialLeg(spec, kind, s, u, v)
  <2>1. SelectedRatio(spec, kind, s, w)[u] = SelectedRatio(spec, kind, s, v)[u]
    <3>1. SelectedRatio(spec, kind, s, w)[u] = RatioOf(spec, p, kind, w)[u]
      <4>1. SelectedRatio(spec, kind, s, w)[u] = RatioOf(spec, Profile(spec, s, w)[u], kind, w)[u]
        BY <1>1, SelectedIs
      <4> QED
        BY <1>2, <4>1
    <3>2. SelectedRatio(spec, kind, s, v)[u] = RatioOf(spec, p, kind, v)[u]
      <4>1. SelectedRatio(spec, kind, s, v)[u] = RatioOf(spec, Profile(spec, s, v)[u], kind, v)[u]
        BY <1>1, SelectedIs
      <4> QED
        BY <1>2, <4>1
    <3>3. RatioOf(spec, p, kind, w)[u] = RatioOf(spec, p, kind, v)[u]
      BY AggregatesAlike
    <3> QED
      BY <3>1, <3>2, <3>3
  <2>2. ASSUME NEW ratio PROVE Attributed(spec, kind, p, u, ratio, w) = Attributed(spec, kind, p, u, ratio, v)
    <3>1. PICK rules : rules = Applying(spec, p, kind)
      OBVIOUS
    <3>2. {i \in DOMAIN rules : Ratio(rules[i], w)[u] = ratio} = {i \in DOMAIN rules : Ratio(rules[i], v)[u] = ratio}
      BY <1>3
    <3> QED
      BY <3>1, <3>2 DEF Attributed
  <2> QED
    BY <1>2, <2>1, <2>2 DEF InitialLeg
<1>7. Ladder(spec, s, u, w) = Ladder(spec, s, u, v)
  <2>1. PICK rules : rules = Applying(spec, p, "partial_take")
    OBVIOUS
  <2>2. /\ rules = Applying(spec, Profile(spec, s, w)[u], "partial_take")
        /\ rules = Applying(spec, Profile(spec, s, v)[u], "partial_take")
    BY <1>2, <2>1
  <2>3. PICK legs : legs = [i \in DOMAIN rules |-> [take |-> rules[i].instance, ratio |-> Ratio(rules[i], w)[u],
                                                  fraction |-> rules[i].fraction]]
    OBVIOUS
  <2>4. legs = [i \in DOMAIN rules |-> [take |-> rules[i].instance, ratio |-> Ratio(rules[i], v)[u],
                                       fraction |-> rules[i].fraction]]
    BY <1>3, <2>3
  <2>5. Ladder(spec, s, u, w) = Sorted(legs, [i \in DOMAIN legs |-> legs[i].ratio])
    BY ONLY <2>2, <2>3 DEF Ladder
  <2>6. Ladder(spec, s, u, v) = Sorted(legs, [i \in DOMAIN legs |-> legs[i].ratio])
    BY ONLY <2>2, <2>4 DEF Ladder
  <2> QED
    BY <2>5, <2>6
<1> QED
  BY <1>2, <1>5, <1>6, <1>7 DEF Opportunity

--------------------------------------------------------------------------------
(* A price times a ratio orders as the ratio does. *)

LEMMA Scaled ==
  ASSUME NEW a \in Int, NEW b \in Int, NEW c \in Nat \ {0}
  PROVE  a < b <=> a * c < b * c
OBVIOUS

LEMMA ScaledEqual ==
  ASSUME NEW a \in Int, NEW b \in Int, NEW c \in Nat \ {0}, a * c = b * c
  PROVE  a = b
<1>1. ~ (a < b) /\ ~ (b < a)
  BY Scaled
<1> QED
  BY <1>1

\* Numbers that are the same but for their scales stand in the same order.
LEMMA SameOrder ==
  ASSUME NEW a \in Int, NEW b \in Int, NEW p \in Int, NEW q \in Int, NEW c \in Nat \ {0}, NEW d \in Nat \ {0},
         p * c = d * a, q * c = d * b
  PROVE  (a < b <=> p < q) /\ (a = b <=> p = q)
<1>1. d * a = a * d /\ d * b = b * d /\ a * d \in Int /\ b * d \in Int /\ p * c \in Int /\ q * c \in Int
  OBVIOUS
<1>2. a < b <=> a * d < b * d
  BY Scaled
<1>3. p < q <=> p * c < q * c
  BY Scaled
<1>4. a < b <=> p < q
  BY <1>1, <1>2, <1>3
<1>5. a = b => p = q
  <2> SUFFICES ASSUME a = b PROVE p * c = q * c
    BY ScaledEqual
  <2> QED
    OBVIOUS
<1>6. p = q => a = b
  <2> SUFFICES ASSUME p = q PROVE a * d = b * d
    BY ScaledEqual
  <2> QED
    BY <1>1
<1> QED
  BY <1>4, <1>5, <1>6

\* The least ratio is the ratio of the least distance.
LEMMA LeastScaled ==
  ASSUME NEW w, Sound(w), NEW spec \in Specs, NEW s, NEW kind \in {"stop_loss", "take_profit"}, NEW u \in Bars(w),
         NEW d, d = SelectedDistance(spec, kind, s, w)[u], NEW q, q = SelectedRatio(spec, kind, s, w)[u]
  PROVE  /\ d \in Int \union {NaN} /\ q \in Int \union {NaN}
         /\ d = NaN <=> q = NaN
         /\ d # NaN => q * At(w, "close", u) = Unit * d
<1>1. PICK p \in Profiles : p = Profile(spec, s, w)[u]
  BY ProfileIs
<1>2. SpecAssumed(spec) /\ NaN \notin Int /\ Unit \in Nat \ {0}
  BY EntryAssumption
<1>3. PICK R : R = ToSet(Applying(spec, p, kind))
  OBVIOUS
<1>4. IsFiniteSet(R) /\ \A r \in R : r.kind = kind /\ RuleAssumed(r)
  BY <1>2, <1>3, ApplyingIs
<1>5. PICK f, g : f = [r \in R |-> Distance(r, w)[u]] /\ g = [r \in R |-> Ratio(r, w)[u]]
  OBVIOUS
<1>6. PICK close : close = At(w, "close", u)
  OBVIOUS
<1>7. \A r \in R : /\ close \in Nat \ {0}
                   /\ f[r] \in Int \union {NaN} /\ g[r] \in Int \union {NaN}
                   /\ f[r] = NaN <=> g[r] = NaN
                   /\ f[r] # NaN => g[r] * close = Unit * f[r]
  <2> TAKE r \in R
  <2>1. RuleAssumed(r) /\ r.kind \in DistanceRules
    BY <1>4 DEF DistanceRules
  <2>2. f[r] = Distance(r, w)[u] /\ g[r] = Ratio(r, w)[u]
    BY <1>5
  <2> QED
    BY <1>6, <2>1, <2>2, DistanceIs
<1>8. d = Nearby({f[r] : r \in R})
  <2>1. d = DistanceOf(spec, p, kind, w)[u]
    <3>1. SelectedDistance(spec, kind, s, w)[u] = DistanceOf(spec, Profile(spec, s, w)[u], kind, w)[u]
      BY SelectedIs
    <3> QED
      BY <1>1, <3>1
  <2>2. DistanceOf(spec, p, kind, w)[u] = Nearby(Distances(spec, p, kind, w, u))
    BY RatioOfIs
  <2>3. Distances(spec, p, kind, w, u) = {f[r] : r \in R}
    BY <1>3, <1>5 DEF Distances
  <2> QED
    BY <2>1, <2>2, <2>3
<1>9. q = Nearby({g[r] : r \in R})
  <2>1. q = RatioOf(spec, p, kind, w)[u]
    <3>1. SelectedRatio(spec, kind, s, w)[u] = RatioOf(spec, Profile(spec, s, w)[u], kind, w)[u]
      BY SelectedIs
    <3> QED
      BY <1>1, <3>1
  <2>2. RatioOf(spec, p, kind, w)[u] = Nearby(Ratios(spec, p, kind, w, u))
    BY RatioOfIs
  <2>3. Ratios(spec, p, kind, w, u) = {g[r] : r \in R}
    BY <1>3, <1>5 DEF Ratios
  <2> QED
    BY <2>1, <2>2, <2>3
<1>10. /\ (\A r \in R : f[r] = NaN) => Nearby({f[r] : r \in R}) = NaN
       /\ (\E r \in R : f[r] # NaN) => \E r \in R : /\ Nearby({f[x] : x \in R}) = f[r] /\ f[r] # NaN
                                                    /\ \A x \in R : f[x] = NaN \/ f[r] <= f[x]
  BY ONLY <1>4, <1>7, NearbyIs
<1>11. /\ (\A r \in R : g[r] = NaN) => Nearby({g[r] : r \in R}) = NaN
       /\ (\E r \in R : g[r] # NaN) => \E r \in R : /\ Nearby({g[x] : x \in R}) = g[r] /\ g[r] # NaN
                                                    /\ \A x \in R : g[x] = NaN \/ g[r] <= g[x]
  BY ONLY <1>4, <1>7, NearbyIs
<1>12. CASE \A r \in R : f[r] = NaN
  <2>1. d = NaN /\ q = NaN
    BY <1>7, <1>8, <1>9, <1>10, <1>11, <1>12
  <2> QED
    BY <2>1
<1>13. CASE \E r \in R : f[r] # NaN
  <2>1. PICK a \in R : d = f[a] /\ f[a] # NaN /\ \A x \in R : f[x] = NaN \/ f[a] <= f[x]
    BY <1>8, <1>10, <1>13
  <2>2. PICK b \in R : q = g[b] /\ g[b] # NaN /\ \A x \in R : g[x] = NaN \/ g[b] <= g[x]
    BY <1>7, <1>9, <1>11, <1>13
  <2>3. close \in Nat \ {0} /\ d \in Int /\ q \in Int /\ f[b] \in Int /\ g[a] \in Int
    BY <1>7, <2>1, <2>2
  <2>4. g[a] * close = Unit * d /\ q * close = Unit * f[b]
    BY <1>7, <2>1, <2>2
  <2>5. d <= f[b] /\ q <= g[a]
    BY <1>7, <2>1, <2>2, <2>3
  <2>6. d < f[b] <=> g[a] < q
    BY <1>2, <2>3, <2>4, SameOrder
  <2>7. d = f[b]
    BY <2>3, <2>5, <2>6
  <2> QED
    BY <1>2, <1>6, <2>3, <2>4, <2>7
<1> QED
  BY <1>12, <1>13

LEMMA PlacesAlike ==
  ASSUME NEW D, NEW a, DOMAIN a = D, NEW b, DOMAIN b = D,
         \A i \in D, j \in D : (a[j] < a[i] <=> b[j] < b[i]) /\ (a[j] = a[i] <=> b[j] = b[i])
  PROVE  Places(a) = Places(b)
<1>1. ASSUME NEW i \in D
      PROVE  {j \in D : a[j] < a[i] \/ (a[j] = a[i] /\ j < i)} = {j \in D : b[j] < b[i] \/ (b[j] = b[i] /\ j < i)}
  OBVIOUS
<1> QED
  BY <1>1 DEF Places

--------------------------------------------------------------------------------
(* The plan of the live projection: distances, at the close. *)

PlanLeg == [take : Instances, fraction : Int, distance : Int]

LEMMA CloseIs ==
  ASSUME NEW w, Sound(w), NEW u \in Bars(w)
  PROVE  At(w, "close", u) \in Nat \ {0}
<1>1. PICK b \in Printed : b = w.bars[u]
  BY DEF Sound, Bars
<1>2. b.close \in Nat \ {0}
  BY EntryAssumption
<1> QED
  BY <1>1, <1>2 DEF At

\* The distances of the rules of a plan, and the legs they are ordered to.
DistancesOf(rules, w, u) == [i \in DOMAIN rules |-> Distance(rules[i], w)[u]]
PlannedOf(rules, order, w, u) ==
    [n \in DOMAIN rules |-> [take |-> rules[order[n]].instance, fraction |-> rules[order[n]].fraction,
                             distance |-> Distance(rules[order[n]], w)[u]]]

\* The partial takes of a plan at the close.
LEMMA PlannedLegsIs ==
  ASSUME NEW w, Sound(w), NEW spec \in Specs, NEW s, NEW u \in Bars(w),
         NEW close, close = At(w, "close", u),
         NEW rules, rules = Applying(spec, Profile(spec, s, w)[u], "partial_take"),
         NEW order, order = Order(Places(DistancesOf(rules, w, u))),
         NEW planned, planned = PlannedLegs(spec, s, close, u, w)
  PROVE  /\ planned # None <=> \A i \in DOMAIN rules : /\ Positive(Distance(rules[i], w)[u])
                                                       /\ Positive(Away(s, close, Distance(rules[i], w)[u]))
         /\ planned # None =>
               /\ planned \in PlanLegs
               /\ order \in [DOMAIN rules -> DOMAIN rules]
               /\ planned = PlannedOf(rules, order, w, u)
<1>1. PICK p \in Profiles : p = Profile(spec, s, w)[u]
  BY ProfileIs
<1>2. SpecAssumed(spec) /\ NaN \notin Int /\ None \notin PlanLegs
  BY EntryAssumption
<1>3. /\ rules \in Seq(ToSet(Rules(spec)))
      /\ \A r \in ToSet(rules) : r.kind = "partial_take" /\ RuleAssumed(r) /\ r \in ToSet(Rules(spec))
  BY <1>1, <1>2, ApplyingIs
<1>4. ASSUME NEW r \in ToSet(rules)
      PROVE  r.instance \in Instances /\ Distance(r, w)[u] \in Int \union {NaN} /\ r.fraction \in Int
  <2>1. RuleAssumed(r) /\ r.kind = "partial_take" /\ r \in ToSet(Rules(spec))
    BY <1>3
  <2>2. r.instance \in Instances
    BY <2>1, InstanceIs
  <2>3. Distance(r, w)[u] \in Int \union {NaN}
    BY <2>1, DistanceIs DEF DistanceRules
  <2>4. r.fraction \in Int
    BY <2>1 DEF RuleAssumed
  <2> QED
    BY <2>2, <2>3, <2>4
<1>5. PICK N \in Nat : DOMAIN rules = 1..N
  BY <1>3
<1>6. \A i \in 1..N : rules[i] \in ToSet(rules)
  BY <1>5 DEF ToSet
<1>7. \A r : (IF r.id = "pct_partial_take" THEN (close * r.pct) \div Unit ELSE Distance(r, w)[u]) = Distance(r, w)[u]
  BY DEF Distance
<1>8. PICK legs : legs = [i \in DOMAIN rules |-> [take |-> rules[i].instance, fraction |-> rules[i].fraction,
                                                  distance |-> Distance(rules[i], w)[u]]]
  OBVIOUS
<1>9. legs = [i \in DOMAIN rules |-> [take |-> rules[i].instance, fraction |-> rules[i].fraction,
                 distance |-> IF rules[i].id = "pct_partial_take" THEN (close * rules[i].pct) \div Unit
                              ELSE Distance(rules[i], w)[u]]]
  BY <1>7, <1>8
<1>10. PICK key : key = [i \in DOMAIN rules |-> Distance(rules[i], w)[u]]
  OBVIOUS
<1>11. key = [i \in DOMAIN legs |-> legs[i].distance]
  BY <1>8, <1>10
<1>12. planned = IF \E i \in DOMAIN legs : ~ Positive(legs[i].distance) \/ ~ Positive(Away(s, close, legs[i].distance))
                 THEN None ELSE Sorted(legs, key)
  <2>1. planned = IF \E i \in DOMAIN legs : ~ Positive(legs[i].distance) \/ ~ Positive(Away(s, close, legs[i].distance))
                  THEN None ELSE Sorted(legs, [i \in DOMAIN legs |-> legs[i].distance])
    BY ONLY <1>9, rules = Applying(spec, Profile(spec, s, w)[u], "partial_take"),
            planned = PlannedLegs(spec, s, close, u, w) DEF PlannedLegs
  <2> QED
    BY ONLY <1>11, <2>1
<1>13. (\E i \in DOMAIN legs : ~ Positive(legs[i].distance) \/ ~ Positive(Away(s, close, legs[i].distance)))
          <=> \E i \in DOMAIN rules : \/ ~ Positive(Distance(rules[i], w)[u])
                                      \/ ~ Positive(Away(s, close, Distance(rules[i], w)[u]))
  BY <1>8
<1>14. CASE \E i \in DOMAIN rules : \/ ~ Positive(Distance(rules[i], w)[u])
                                    \/ ~ Positive(Away(s, close, Distance(rules[i], w)[u]))
  BY <1>12, <1>13, <1>14
<1>15. CASE \A i \in DOMAIN rules : /\ Positive(Distance(rules[i], w)[u])
                                    /\ Positive(Away(s, close, Distance(rules[i], w)[u]))
  <2>1. \A i \in 1..N : Distance(rules[i], w)[u] \in Int
    BY <1>4, <1>5, <1>6, <1>15 DEF Positive
  <2>2. \A i \in 1..N : legs[i] \in PlanLeg
    BY <1>4, <1>5, <1>6, <1>8, <2>1 DEF PlanLeg
  <2>3. legs \in Seq(PlanLeg) /\ DOMAIN legs = DOMAIN rules
    BY <1>5, <1>8, <2>2
  <2>4. DOMAIN key = DOMAIN legs /\ \A i \in DOMAIN legs : key[i] \in Int
    BY <1>5, <1>10, <2>1, <2>3
  <2>5. PICK S : S = PlanLeg
    OBVIOUS
  <2>6. /\ Sorted(legs, key) \in Seq(S)
        /\ Order(Places(key)) \in [DOMAIN legs -> DOMAIN legs]
        /\ Sorted(legs, key) = [n \in DOMAIN legs |-> legs[Order(Places(key))[n]]]
    <3>1. legs \in Seq(S)
      BY <2>3, <2>5
    <3> QED
      BY ONLY <3>1, <2>4, SortedIs
  <2>7. order = Order(Places(key))
    BY <1>10 DEF DistancesOf
  <2>8. planned = Sorted(legs, key)
    BY <1>12, <1>13, <1>15
  <2>9. planned \in PlanLegs
    BY <2>5, <2>6, <2>8 DEF PlanLegs, PlanLeg
  <2>10. order \in [DOMAIN rules -> DOMAIN rules]
    BY <2>3, <2>6, <2>7
  <2>11. planned = [n \in DOMAIN rules |-> legs[order[n]]]
    BY <2>3, <2>6, <2>7, <2>8
  <2>12. \A n \in DOMAIN rules : legs[order[n]] = [take |-> rules[order[n]].instance, fraction |-> rules[order[n]].fraction,
                                                  distance |-> Distance(rules[order[n]], w)[u]]
    BY <1>8, <2>10
  <2>13. planned = [n \in DOMAIN rules |->
                     [take |-> rules[order[n]].instance, fraction |-> rules[order[n]].fraction,
                      distance |-> Distance(rules[order[n]], w)[u]]]
    BY ONLY <2>11, <2>12
  <2> QED
    BY <1>2, <1>15, <2>9, <2>10, <2>13 DEF PlannedOf
<1> QED
  BY <1>14, <1>15

LEMMA PlanIs ==
  ASSUME NEW w, Sound(w), NEW spec \in Specs, NEW s \in Sides, NEW u \in Bars(w),
         NEW close, close = At(w, "close", u),
         NEW stop, stop = SelectedDistance(spec, "stop_loss", s, w)[u],
         NEW take, take = SelectedDistance(spec, "take_profit", s, w)[u],
         NEW planned, planned = PlannedLegs(spec, s, close, u, w),
         NEW plan, plan = LivePlan("touch_trigger", spec, s, u, w)
  PROVE  /\ plan # None <=> /\ spec.trigger.id = "touch_anchor" /\ EntryAllowed(spec, s, w)[u]
                            /\ Positive(stop) /\ Positive(take)
                            /\ Positive(Toward(s, close, stop)) /\ Positive(Away(s, close, take))
                            /\ planned # None
         /\ plan # None => plan = [entry |-> close, stop |-> Toward(s, close, stop), take |-> Away(s, close, take),
                                   side |-> s, bar |-> u, profile |-> Profile(spec, s, w)[u], partial |-> planned]
<1>1. NaN \notin Int /\ None \notin Prices /\ None \notin Plans
  BY EntryAssumption
<1>2. close \in Nat \ {0} /\ stop \in Int \union {NaN} /\ take \in Int \union {NaN} /\ u \in Nat
  BY CloseIs, LeastScaled DEF Sound, Bars
<1>3. Positive(close)
  BY <1>1, <1>2 DEF Positive
<1>4. PICK prices : prices = TouchEntry(spec, s, u, w)
  OBVIOUS
<1>5. plan = IF prices = None THEN None
             ELSE IF PlannedLegs(spec, s, prices.entry, u, w) = None THEN None
             ELSE [entry |-> prices.entry, stop |-> prices.stop, take |-> prices.take, side |-> s, bar |-> u,
                   profile |-> Profile(spec, s, w)[u], partial |-> PlannedLegs(spec, s, prices.entry, u, w)]
  BY <1>4 DEF LivePlan
<1> DEFINE room == /\ spec.trigger.id = "touch_anchor" /\ EntryAllowed(spec, s, w)[u]
                   /\ Positive(stop) /\ Positive(take)
                   /\ Positive(Toward(s, close, stop)) /\ Positive(Away(s, close, take))
<1>6. CASE ~ room
  <2>1. prices = None
    BY <1>4, <1>6 DEF TouchEntry, Priced
  <2> QED
    BY <1>5, <1>6, <2>1
<1>7. CASE room
  <2>1. prices = [entry |-> close, stop |-> Toward(s, close, stop), take |-> Away(s, close, take)]
    BY <1>3, <1>4, <1>7 DEF TouchEntry, Priced
  <2>2. stop \in Int /\ take \in Int
    BY <1>2, <1>7 DEF Positive
  <2>3. Toward(s, close, stop) \in Int /\ Away(s, close, take) \in Int
    BY <1>2, <2>2 DEF Toward, Away
  <2>4. prices # None
    BY <1>1, <1>2, <2>1, <2>3 DEF Prices
  <2>5. prices.entry = close /\ prices.stop = Toward(s, close, stop) /\ prices.take = Away(s, close, take)
    BY <2>1
  <2>6. plan = IF planned = None THEN None
               ELSE [entry |-> close, stop |-> Toward(s, close, stop), take |-> Away(s, close, take), side |-> s,
                     bar |-> u, profile |-> Profile(spec, s, w)[u], partial |-> planned]
    BY <1>5, <2>4, <2>5
  <2>7. planned # None => planned \in PlanLegs
    BY PlannedLegsIs
  <2>8. Profile(spec, s, w)[u] \in Profiles
    BY ProfileIs
  <2>9. planned # None =>
          [entry |-> close, stop |-> Toward(s, close, stop), take |-> Away(s, close, take), side |-> s,
           bar |-> u, profile |-> Profile(spec, s, w)[u], partial |-> planned] \in Plans
    BY <1>2, <2>3, <2>7, <2>8 DEF Plans
  <2> QED
    BY <1>1, <1>7, <2>6, <2>9
<1> QED
  BY <1>6, <1>7

--------------------------------------------------------------------------------
(* The plan and the opportunity of one bar. *)

\* What there is where there is an opportunity.
LEMMA FoundIs ==
  ASSUME NEW w, Sound(w), NEW spec \in Specs, NEW s \in Sides, NEW u \in Bars(w),
         NEW found, found = Opportunity(spec, s, u, w)
  PROVE  /\ found # None <=> Executable(spec, s, u, w)
         /\ found # None => /\ found.profile = Profile(spec, s, w)[u]
                            /\ found.stop = InitialLeg(spec, "stop_loss", s, u, w)
                            /\ found.take = InitialLeg(spec, "take_profit", s, u, w)
                            /\ found.partial = Ladder(spec, s, u, w)
<1>1. CASE ~ Executable(spec, s, u, w)
  BY <1>1 DEF Opportunity
<1>2. CASE Executable(spec, s, u, w)
  <2>1. found = [side |-> s, bar |-> u, profile |-> Profile(spec, s, w)[u],
                 stop |-> InitialLeg(spec, "stop_loss", s, u, w),
                 take |-> InitialLeg(spec, "take_profit", s, u, w),
                 partial |-> Ladder(spec, s, u, w)]
    BY <1>2 DEF Opportunity
  <2>2. Profile(spec, s, w)[u] \in Profiles /\ u \in Nat
    BY ProfileIs DEF Sound, Bars
  <2>3. /\ InitialLeg(spec, "stop_loss", s, u, w) \in Legs \union {None}
        /\ InitialLeg(spec, "take_profit", s, u, w) \in Legs \union {None}
    BY LegIs
  <2>4. Ladder(spec, s, u, w) \in Seq(PartialLegs)
    BY <1>2, LadderIs DEF Executable
  <2>5. found \in Opportunities
    BY <2>1, <2>2, <2>3, <2>4 DEF Opportunities, PartialLegs
  <2>6. None \notin Opportunities
    BY EntryAssumption
  <2> QED
    BY <1>2, <2>1, <2>5, <2>6
<1> QED
  BY <1>1, <1>2

Agree(spec, s, plan, found, close, stop, take) ==
    /\ plan # None =>
         /\ found # None
         /\ found.profile = plan.profile
         /\ found.stop.ratio * close = Unit * (IF s = "long" THEN close - plan.stop ELSE plan.stop - close)
         /\ found.take.ratio * close = Unit * (IF s = "long" THEN plan.take - close ELSE close - plan.take)
         /\ [i \in DOMAIN found.partial |-> found.partial[i].take]
              = [i \in DOMAIN plan.partial |-> plan.partial[i].take]
    /\ spec.trigger.id = "touch_anchor"
       /\ Positive(stop) /\ Positive(take) /\ Positive(Toward(s, close, stop)) /\ Positive(Away(s, close, take))
       /\ found # None
       /\ (\A i \in DOMAIN found.partial : found.partial[i].ratio \in 1..(Unit - 1))
          => plan # None

\* The plan for a bar and the opportunity found there.
LEMMA LiveIs ==
  ASSUME NEW w, Sound(w), NEW spec \in Specs, NEW s \in Sides, NEW u \in Bars(w),
         NEW plan, plan = LivePlan("touch_trigger", spec, s, u, w),
         NEW found, found = Opportunity(spec, s, u, w),
         NEW close, close = At(w, "close", u),
         NEW stop, stop = SelectedDistance(spec, "stop_loss", s, w)[u],
         NEW take, take = SelectedDistance(spec, "take_profit", s, w)[u]
  PROVE  Agree(spec, s, plan, found, close, stop, take)
<1>1. NaN \notin Int /\ Unit \in Nat \ {0} /\ SpecAssumed(spec)
  BY EntryAssumption
<1>2. PICK p \in Profiles : p = Profile(spec, s, w)[u]
  BY ProfileIs
<1>3. PICK rules : rules = Applying(spec, p, "partial_take") /\ rules = Applying(spec, Profile(spec, s, w)[u], "partial_take")
  BY <1>2
<1>4. /\ rules \in Seq(ToSet(Rules(spec)))
      /\ \A r \in ToSet(rules) : r.kind = "partial_take" /\ RuleAssumed(r)
  BY <1>1, <1>3, ApplyingIs
<1>5. PICK N \in Nat : DOMAIN rules = 1..N
  BY <1>4
<1>6. PICK far, rat : /\ far = [i \in DOMAIN rules |-> Distance(rules[i], w)[u]]
                      /\ rat = [i \in DOMAIN rules |-> Ratio(rules[i], w)[u]]
  OBVIOUS
<1>7. close \in Nat \ {0}
  BY CloseIs
<1>8. \A i \in 1..N : /\ far[i] = Distance(rules[i], w)[u] /\ rat[i] = Ratio(rules[i], w)[u]
                      /\ far[i] \in Int \union {NaN} /\ rat[i] \in Int \union {NaN}
                      /\ far[i] = NaN <=> rat[i] = NaN
                      /\ far[i] # NaN => rat[i] * close = Unit * far[i]
  <2> TAKE i \in 1..N
  <2>1. rules[i] \in ToSet(rules)
    BY <1>5 DEF ToSet
  <2>2. RuleAssumed(rules[i]) /\ rules[i].kind \in DistanceRules
    BY <1>4, <2>1 DEF DistanceRules
  <2>3. far[i] = Distance(rules[i], w)[u] /\ rat[i] = Ratio(rules[i], w)[u]
    BY <1>5, <1>6
  <2> QED
    BY <2>2, <2>3, DistanceIs
<1>9. PICK q, k : q = SelectedRatio(spec, "stop_loss", s, w)[u] /\ k = SelectedRatio(spec, "take_profit", s, w)[u]
  OBVIOUS
<1>10. /\ stop \in Int \union {NaN} /\ (stop = NaN <=> q = NaN) /\ (stop # NaN => q * close = Unit * stop)
       /\ take \in Int \union {NaN} /\ (take = NaN <=> k = NaN) /\ (take # NaN => k * close = Unit * take)
  BY <1>9, LeastScaled
<1>11. PICK planned : planned = PlannedLegs(spec, s, close, u, w)
  OBVIOUS
<1>12. /\ plan # None <=> /\ spec.trigger.id = "touch_anchor" /\ EntryAllowed(spec, s, w)[u]
                          /\ Positive(stop) /\ Positive(take)
                          /\ Positive(Toward(s, close, stop)) /\ Positive(Away(s, close, take))
                          /\ planned # None
       /\ plan # None => plan = [entry |-> close, stop |-> Toward(s, close, stop), take |-> Away(s, close, take),
                                 side |-> s, bar |-> u, profile |-> Profile(spec, s, w)[u], partial |-> planned]
  BY <1>11, PlanIs
<1>13. PICK order : order = Order(Places(far))
  OBVIOUS
<1>14. /\ planned # None <=> \A i \in DOMAIN rules : /\ Positive(Distance(rules[i], w)[u])
                                                     /\ Positive(Away(s, close, Distance(rules[i], w)[u]))
       /\ planned # None =>
             /\ planned \in PlanLegs
             /\ order \in [DOMAIN rules -> DOMAIN rules]
             /\ planned = PlannedOf(rules, order, w, u)
  <2>1. order = Order(Places(DistancesOf(rules, w, u)))
    BY <1>6, <1>13 DEF DistancesOf
  <2> QED
    BY ONLY Sound(w), spec \in Specs, u \in Bars(w), close = At(w, "close", u), <1>3, <1>11, <2>1, PlannedLegsIs
<1>15. /\ found # None <=> Executable(spec, s, u, w)
       /\ found # None => /\ found.profile = Profile(spec, s, w)[u]
                          /\ found.stop = InitialLeg(spec, "stop_loss", s, u, w)
                          /\ found.take = InitialLeg(spec, "take_profit", s, u, w)
                          /\ found.partial = Ladder(spec, s, u, w)
  BY FoundIs
<1>16. PICK ladder : ladder = Order(Places(rat))
  OBVIOUS
<1>17. ASSUME SelectedReady(spec, s, w)[u]
       PROVE
          /\ ladder \in [DOMAIN rules -> DOMAIN rules]
          /\ Ladder(spec, s, u, w) = LadderOf(rules, ladder, w, u)
  <2>1. ladder = Order(Places(RatiosOf(rules, w, u)))
    BY <1>6, <1>16 DEF RatiosOf
  <2>2. rules = Applying(spec, Profile(spec, s, w)[u], "partial_take")
    BY <1>3
  <2>3. \A r, o : r = Applying(spec, Profile(spec, s, w)[u], "partial_take") /\ o = Order(Places(RatiosOf(r, w, u)))
                  => o \in [DOMAIN r -> DOMAIN r] /\ Ladder(spec, s, u, w) = LadderOf(r, o, w, u)
    BY ONLY Sound(w), spec \in Specs, u \in Bars(w), <1>17, LadderIs
  <2> QED
    BY ONLY <2>1, <2>2, <2>3
<1>18. SelectedReady(spec, s, w)[u] <=>
            /\ \A kind \in {"stop_loss", "take_profit"} :
                  Applying(spec, p, kind) # <<>> => RatioOf(spec, p, kind, w)[u] # NaN
            /\ \A r \in ToSet(rules) : Ratio(r, w)[u] # NaN
  <2>1. SelectedReady(spec, s, w)[u] <=> Ready(spec, p, w)[u]
    BY <1>2, SelectedIs
  <2>2. Ready(spec, p, w)[u] <=>
            /\ \A kind \in {"stop_loss", "take_profit"} :
                  Applying(spec, p, kind) # <<>> => RatioOf(spec, p, kind, w)[u] # NaN
            /\ \A r \in ToSet(Applying(spec, p, "partial_take")) : Ratio(r, w)[u] # NaN
    BY ReadyIs
  <2> QED
    BY <1>3, <2>1, <2>2
<1>19. ASSUME plan # None
       PROVE  /\ found # None
              /\ found.profile = plan.profile
              /\ found.stop.ratio * close = Unit * (IF s = "long" THEN close - plan.stop ELSE plan.stop - close)
              /\ found.take.ratio * close = Unit * (IF s = "long" THEN plan.take - close ELSE close - plan.take)
              /\ [i \in DOMAIN found.partial |-> found.partial[i].take]
                   = [i \in DOMAIN plan.partial |-> plan.partial[i].take]
  <2>1. stop \in Int /\ take \in Int /\ q # NaN /\ k # NaN /\ q * close = Unit * stop /\ k * close = Unit * take
    BY <1>10, <1>12, <1>19 DEF Positive
  <2>2. \A i \in 1..N : far[i] \in Int /\ rat[i] \in Int /\ rat[i] * close = Unit * far[i]
    BY <1>5, <1>8, <1>12, <1>14, <1>19 DEF Positive
  <2>3. RatioOf(spec, p, "stop_loss", w)[u] = q /\ RatioOf(spec, p, "take_profit", w)[u] = k
    <3>1. \A kind : SelectedRatio(spec, kind, s, w)[u] = RatioOf(spec, Profile(spec, s, w)[u], kind, w)[u]
      BY SelectedIs
    <3> QED
      BY <1>2, <1>9, <3>1
  <2>4. \A r \in ToSet(rules) : Ratio(r, w)[u] # NaN
    BY <1>1, <1>5, <1>8, <2>2 DEF ToSet
  <2>5. SelectedReady(spec, s, w)[u]
    BY <1>18, <2>1, <2>3, <2>4
  <2>6. found # None
    BY <1>12, <1>15, <1>19, <2>5 DEF Executable
  <2>7. plan.stop = Toward(s, close, stop) /\ plan.take = Away(s, close, take) /\ plan.partial = planned
        /\ plan.profile = Profile(spec, s, w)[u]
    BY <1>12, <1>19
  <2>8. found.stop.ratio = q /\ found.take.ratio = k
    BY <1>9, <1>15, <2>1, <2>6, LegIs
  <2>9. stop = (IF s = "long" THEN close - plan.stop ELSE plan.stop - close)
    BY <1>7, <2>1, <2>7 DEF Toward
  <2>10. take = (IF s = "long" THEN plan.take - close ELSE close - plan.take)
    BY <1>7, <2>1, <2>7 DEF Away
  <2>11. order = ladder
    <3>1. DOMAIN far = 1..N /\ DOMAIN rat = 1..N
      BY <1>5, <1>6
    <3>2. ASSUME NEW i \in 1..N, NEW j \in 1..N
          PROVE  (far[j] < far[i] <=> rat[j] < rat[i]) /\ (far[j] = far[i] <=> rat[j] = rat[i])
      BY <1>1, <1>7, <2>2, SameOrder
    <3>3. Places(far) = Places(rat)
      BY <3>1, <3>2, PlacesAlike
    <3> QED
      BY <1>13, <1>16, <3>3
  <2>12. [i \in DOMAIN found.partial |-> found.partial[i].take] = [i \in DOMAIN rules |-> rules[order[i]].instance]
    <3>1. found.partial = [n \in DOMAIN rules |->
               [take |-> rules[order[n]].instance, ratio |-> Ratio(rules[order[n]], w)[u],
                fraction |-> rules[order[n]].fraction]]
      BY <1>15, <1>17, <2>5, <2>6, <2>11 DEF LadderOf
    <3> QED
      BY ONLY <3>1
  <2>13. [i \in DOMAIN plan.partial |-> plan.partial[i].take] = [i \in DOMAIN rules |-> rules[order[i]].instance]
    <3>1. plan.partial = [n \in DOMAIN rules |->
                   [take |-> rules[order[n]].instance, fraction |-> rules[order[n]].fraction,
                    distance |-> Distance(rules[order[n]], w)[u]]]
      BY <1>12, <1>14, <1>19, <2>7 DEF PlannedOf
    <3> QED
      BY ONLY <3>1
  <2> QED
    BY <1>15, <2>1, <2>6, <2>7, <2>8, <2>9, <2>10, <2>12, <2>13
<1>20. ASSUME spec.trigger.id = "touch_anchor",
              Positive(stop), Positive(take), Positive(Toward(s, close, stop)), Positive(Away(s, close, take)),
              found # None,
              \A i \in DOMAIN found.partial : found.partial[i].ratio \in 1..(Unit - 1)
       PROVE  plan # None
  <2>1. EntryAllowed(spec, s, w)[u] /\ SelectedReady(spec, s, w)[u]
    BY <1>15, <1>20 DEF Executable
  <2>2. \A i \in 1..N : rat[i] \in Int
    BY <1>1, <1>5, <1>8, <1>18, <2>1 DEF ToSet
  <2>3. \A i \in 1..N : \E n \in 1..N : ladder[n] = i
    <3>1. DOMAIN rat = 1..N
      BY <1>5, <1>6
    <3>2. \A i \in 1..N : \E n \in 1..N : Order(Places(rat))[n] = i
      BY ONLY N \in Nat, <2>2, <3>1, OrderOnto
    <3> QED
      BY <1>16, <3>2
  <2>4. \A n \in 1..N : rat[ladder[n]] \in 1..(Unit - 1)
    <3> TAKE n \in 1..N
    <3>1. found.partial = [m \in DOMAIN rules |->
               [take |-> rules[ladder[m]].instance, ratio |-> Ratio(rules[ladder[m]], w)[u],
                fraction |-> rules[ladder[m]].fraction]]
      BY <1>15, <1>17, <1>20, <2>1 DEF LadderOf
    <3>2. found.partial[n].ratio = Ratio(rules[ladder[n]], w)[u] /\ n \in DOMAIN found.partial
      BY <1>5, <3>1
    <3>3. ladder[n] \in 1..N
      BY <1>5, <1>17, <2>1
    <3> QED
      BY <1>8, <1>20, <3>2, <3>3
  <2>5. \A i \in 1..N : rat[i] \in 1..(Unit - 1)
    BY <2>3, <2>4
  <2>6. ASSUME NEW i \in 1..N PROVE Positive(far[i]) /\ Positive(Away(s, close, far[i]))
    <3>1. far[i] \in Int /\ rat[i] * close = Unit * far[i] /\ rat[i] \in Int
      BY <1>1, <1>8, <2>2
    <3>2. 0 < far[i] <=> 0 < rat[i]
      <4>1. 0 * close = Unit * 0
        BY <1>1, <1>7
      <4> QED
        BY <1>1, <1>7, <3>1, <4>1, SameOrder
    <3>3. far[i] < close <=> rat[i] < Unit
      <4>1. Unit * close = Unit * close
        OBVIOUS
      <4> QED
        BY <1>1, <1>7, <3>1, <4>1, SameOrder
    <3>4. 0 < far[i] /\ far[i] < close
      BY <1>1, <2>5, <3>2, <3>3
    <3>5. Away(s, close, far[i]) \in Int /\ Away(s, close, far[i]) > 0
      BY <1>7, <3>1, <3>4 DEF Away
    <3> QED
      BY <1>1, <3>1, <3>4, <3>5 DEF Positive
  <2>7. planned # None
    BY <1>5, <1>8, <1>14, <2>6
  <2> QED
    BY <1>12, <1>20, <2>1, <2>7
<1> QED
  BY ONLY <1>19, <1>20 DEF Agree

--------------------------------------------------------------------------------
(* The plan of the last bar, and the opportunity the next evaluation finds there. *)

LEMMA NextAlike ==
  ASSUME Typed, Next
  PROVE  Now > 0 => Alike(World, World', Now) /\ Now \in 1..Now
<1>1. PICK b \in Printed : bars' = Append(bars, b)
  BY NextTyped
<1>2. PICK n : n = Len(bars)
  OBVIOUS
<1>3. n \in Nat /\ bars' \in Seq(Printed) /\ Len(bars') = n + 1 /\ \A u \in 1..n : bars'[u] = bars[u]
  BY <1>1, <1>2 DEF Typed
<1>4. /\ World.n = n /\ World.bars = bars /\ Now = n
      /\ (World').n = n + 1 /\ (World').bars = bars'
  BY <1>2, <1>3 DEF World, Now
<1> QED
  BY <1>3, <1>4 DEF Alike

LEMMA NextPlanned ==
  ASSUME Typed, Next
  PROVE  PlannedAsFound
<1> SUFFICES ASSUME Now > 0, NEW spec \in Specs, NEW s \in Sides
      PROVE
          LET plan == LivePlan("touch_trigger", spec, s, Now, World)
              found == Opportunity(spec, s, Now, World')
              close == At(World, "close", Now)
              stop == SelectedDistance(spec, "stop_loss", s, World)[Now]
              take == SelectedDistance(spec, "take_profit", s, World)[Now]
              room == Positive(stop) /\ Positive(take) /\ Positive(Toward(s, close, stop))
                      /\ Positive(Away(s, close, take))
          IN  /\ plan # None =>
                    /\ found # None
                    /\ found.profile = plan.profile
                    /\ found.stop.ratio * close = Unit * (IF s = "long" THEN close - plan.stop ELSE plan.stop - close)
                    /\ found.take.ratio * close = Unit * (IF s = "long" THEN plan.take - close ELSE close - plan.take)
                    /\ [i \in DOMAIN found.partial |-> found.partial[i].take]
                         = [i \in DOMAIN plan.partial |-> plan.partial[i].take]
              /\ spec.trigger.id = "touch_anchor" /\ room /\ found # None
                 /\ (\A i \in DOMAIN found.partial : found.partial[i].ratio \in 1..(Unit - 1))
                    => plan # None
  BY Zenon DEF PlannedAsFound
<1>1. PICK w, v, u : w = World /\ v = World' /\ u = Now
  OBVIOUS
<1>2. Sound(w) /\ u \in Bars(w)
  BY <1>1, WorldSound
<1>3. Alike(w, v, u) /\ u \in 1..u
  BY <1>1, NextAlike
<1>4. SpecAssumed(spec)
  BY EntryAssumption
<1>5. PICK found : found = Opportunity(spec, s, u, w) /\ found = Opportunity(spec, s, Now, World')
  BY <1>1, <1>3, <1>4, OpportunityAlike
<1>6. PICK plan, close, stop, take :
         /\ plan = LivePlan("touch_trigger", spec, s, u, w) /\ close = At(w, "close", u)
         /\ stop = SelectedDistance(spec, "stop_loss", s, w)[u] /\ take = SelectedDistance(spec, "take_profit", s, w)[u]
  OBVIOUS
<1>7. Agree(spec, s, plan, found, close, stop, take)
  BY ONLY <1>2, <1>5, <1>6, spec \in Specs, s \in Sides, LiveIs
<1>8. /\ plan = LivePlan("touch_trigger", spec, s, Now, World) /\ close = At(World, "close", Now)
      /\ stop = SelectedDistance(spec, "stop_loss", s, World)[Now]
      /\ take = SelectedDistance(spec, "take_profit", s, World)[Now]
  BY <1>1, <1>6
<1> QED
  BY <1>5, <1>7, <1>8, Zenon DEF Agree

\* The live plan of the last bar and the opportunity the historical
\* projection finds on that bar once the history is longer are the same
\* entry: what the live projection computes from prices
\* (live_projections/live_entry.py) and what the historical one computes from
\* ratios (historical_execution_projection.py) have the same profile, stop,
\* take and partial takes in the same order, and neither plans without the
\* other where both initial legs are configured.
THEOREM LivePlansTheHistorical == Spec => LiveAsHistorical
<1>1. Typed /\ [Next]_vars => [PlannedAsFound]_vars
  BY NextPlanned
<1> QED
  BY <1>1, HistoryTyped, PTL DEF Spec, LiveAsHistorical
================================================================================
