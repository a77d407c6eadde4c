----------------------------- MODULE Managed_proofs -----------------------------
(* Proofs about the managed replay, for every set of strategies an accepted  *)
(* request can hold, every market and every length of a trade: what holds of *)
(* the trade it replays (ManagedReplay), and that it implements the policy a *)
(* consumer derives from the historical projection of its strategy, for the  *)
(* strategies whose rules can be told apart (ManagedProjection).             *)
EXTENDS ManagedProjection, InductionLemmas, SequenceTheorems, TLAPS

--------------------------------------------------------------------------------
(* The trade that is replayed.                                              *)

RiskKinds == {"initial_r_lock_stop", "initial_r_trailing_stop"}

\* mfe_price starts at the entry and only runs in the direction of the trade.
ExtremeBeyondEntry == ~Better(Entry, trade.best)

\* The stop is never behind the one of the receipt.
StopKeepsInitial ==
  initialStop # None => trade.stop # None /\ ~Better(initialStop, trade.stop)

\* Each candidate is what a rule of a reached phase offered.
Offered ==
  \A n \in DOMAIN candidates : \E r \in ToSet(config.stop) :
    /\ candidates[n].rule = r.id /\ trade.phase >= r.at
    /\ r.kind \in RiskKinds => ~Better(Entry, candidates[n].price)

\* max() over the candidates is defined: one of them is the first of the best.
HasBest == candidates # <<>> => \E n \in DOMAIN candidates : IsFirstBest(n)

ReplayInv ==
  /\ TypeOK /\ ExtremeBeyondEntry /\ StopKeepsInitial /\ Offered /\ HasBest
  /\ ProtectionAttributed

Trades ==
  [phase : Phases, maxPhase : Phases, barsInTrade : Nat, best : Int,
   stop : Price, stopRule : STRING \cup {None}, profile : Profiles,
   takeRule : STRING \cup {None}, armed : Seq(STRING)]

Candidates == [price : Int, rule : STRING]

--------------------------------------------------------------------------------
(* What the assumptions say of the strategy and the frame of a replay. *)

LEMMA ConfigFacts ==
  ASSUME config \in Configs
  PROVE  /\ \A n \in DOMAIN config.phase : config.phase[n].id \in STRING /\ config.phase[n].to \in Phases
         /\ \A n \in DOMAIN config.stop :
              LET r == config.stop[n]
              IN  /\ r.id \in STRING /\ r.at \in Phases /\ r.action \in Int
                  /\ r.kind \in RiskKinds => r.trigger \in Nat /\ r.action \in 0..r.trigger
         /\ \A n \in DOMAIN config.take :
              /\ config.take[n].id \in STRING /\ config.take[n].at \in Phases
              /\ config.take[n].action \in STRING
         /\ \A n \in DOMAIN config.runtime : config.runtime[n].id \in STRING
         /\ config.phase \in Seq(ToSet(config.phase)) /\ config.stop \in Seq(ToSet(config.stop))
         /\ config.take \in Seq(ToSet(config.take)) /\ config.runtime \in Seq(ToSet(config.runtime))
<1> DEFINE PhaseRules == [id : STRING, to : Phases,
                            condition : {r.condition : r \in ToSet(config.phase)}]
           TakeRules == [id : STRING, at : Phases, action : STRING]
<1>1. config.phase \in Seq(PhaseRules) /\ config.take \in Seq(TakeRules)
  BY ConfigAssumption
<1>2. config.stop \in Seq({r \in ToSet(config.stop) :
            /\ r.id \in STRING /\ r.at \in Phases /\ r.action \in Int
            /\ r.kind \in {"initial_r_lock_stop", "initial_r_trailing_stop"} =>
                 r.trigger \in Nat /\ r.action \in 0..r.trigger})
  BY ConfigAssumption
<1>3. config.runtime \in Seq({r \in ToSet(config.runtime) : r.id \in STRING /\ r.at \in Phases})
  BY ConfigAssumption
<1>0. /\ \A n \in DOMAIN config.phase : config.phase[n] \in PhaseRules
      /\ \A n \in DOMAIN config.take : config.take[n] \in TakeRules
  <2> HIDE DEF PhaseRules, TakeRules
  <2> QED
    BY <1>1
<1>4. \A n \in DOMAIN config.phase : config.phase[n].id \in STRING /\ config.phase[n].to \in Phases
  BY <1>0
<1>5. \A n \in DOMAIN config.stop :
        LET r == config.stop[n]
        IN  /\ r.id \in STRING /\ r.at \in Phases /\ r.action \in Int
            /\ r.kind \in RiskKinds => r.trigger \in Nat /\ r.action \in 0..r.trigger
  BY <1>2 DEF RiskKinds
<1>6. \A n \in DOMAIN config.take :
        /\ config.take[n].id \in STRING /\ config.take[n].at \in Phases
        /\ config.take[n].action \in STRING
  BY <1>0
<1>7. \A n \in DOMAIN config.runtime : config.runtime[n].id \in STRING
  BY <1>3
<1>8. \A S : \A s \in Seq(S) : s \in Seq(ToSet(s))
  BY DEF ToSet
<1> QED
  BY <1>1, <1>2, <1>3, <1>4, <1>5, <1>6, <1>7, <1>8

LEMMA BarFacts ==
  ASSUME TypeOK, bars # <<>>
  PROVE  Bar \in Bars /\ Bar.high \in Int /\ Bar.low \in Int /\ Bar.atr \in Int \cup {None}
<1>1. Bar \in Bars
  BY DEF TypeOK, Bar
<1> QED
  BY <1>1, ConfigAssumption

\* An initial-R stop never reaches back beyond the entry: it acts no further than the
\* excursion that triggered it (resolve_initial_r_stop).
LEMMA TrailWithinExcursion ==
  ASSUME NEW risk \in Nat, NEW trigger \in Nat, NEW action \in 0..trigger,
         NEW excursion \in Int, ~(excursion < trigger * risk)
  PROVE  action * risk \in Nat /\ action * risk <= excursion
<1>1. action * risk <= trigger * risk
  OBVIOUS
<1>2. action * risk \in Nat /\ trigger * risk \in Nat
  OBVIOUS
<1> QED
  BY <1>1, <1>2

LEMMA OfferFacts ==
  ASSUME ReplayInv, bars # <<>>, NEW n \in DOMAIN config.stop, StopOffer(config.stop[n]) # None
  PROVE  LET r == config.stop[n]
         IN  /\ StopOffer(r) \in Int
             /\ r.kind \in RiskKinds => ~Better(Entry, StopOffer(r))
<1> DEFINE r == config.stop[n]
<1>1. /\ r.action \in Int
      /\ r.kind \in RiskKinds => r.trigger \in Nat /\ r.action \in 0..r.trigger
  BY ConfigFacts DEF ReplayInv, TypeOK
<1>2. Entry \in Int /\ None \notin Int
  BY ReplayAssumption
<1>3. side \in {"long", "short"} /\ trade.best \in Int /\ initialStop \in Int \cup {None}
  BY DEF ReplayInv, TypeOK, Price
<1>4. CASE r.kind \notin RiskKinds
  <2>1. Bar.atr \in Int \cup {None}
    BY BarFacts DEF ReplayInv
  <2>2. RiskKnown => InitialRisk \in Int
    BY <1>2, <1>3 DEF RiskKnown, InitialRisk, Distance
  <2>3. ASSUME InitialROffer(r) # None PROVE InitialROffer(r) \in Int
    <3> DEFINE d == r.action * InitialRisk
    <3>1. d \in Int
      <4>1. RiskKnown
        BY <2>3 DEF InitialROffer
      <4> QED
        BY <1>1, <2>2, <4>1
    <3>2. InitialROffer(r) = Away(Entry, d) \/ InitialROffer(r) = Back(trade.best, d)
      BY <2>3 DEF InitialROffer, MfePrice
    <3> HIDE DEF d
    <3>3. Away(Entry, d) \in Int /\ Back(trade.best, d) \in Int
      BY <1>2, <1>3, <3>1 DEF Away, Back
    <3> QED
      BY <3>2, <3>3
  <2> QED
    BY <1>1, <1>2, <1>4, <2>1, <2>3 DEF StopOffer, Away
<1>5. CASE r.kind \in RiskKinds
  <2>1. StopOffer(r) = InitialROffer(r)
    BY <1>5 DEF StopOffer, RiskKinds
  <2>2. RiskKnown /\ ~(Excursion < r.trigger * InitialRisk)
    BY <2>1 DEF InitialROffer
  <2>3. InitialRisk \in Nat /\ Excursion \in Int
    BY <1>2, <1>3, <2>2 DEF RiskKnown, InitialRisk, Distance, Excursion, MfePrice
  <2>4. r.action * InitialRisk \in Nat /\ r.action * InitialRisk <= Excursion
    BY <1>1, <1>5, <2>2, <2>3, TrailWithinExcursion
  <2>5. \/ StopOffer(r) = Away(Entry, r.action * InitialRisk)
        \/ StopOffer(r) = Back(trade.best, r.action * InitialRisk)
    BY <2>1, <2>2 DEF InitialROffer, MfePrice
  <2>6. ~Better(Entry, trade.best)
    BY DEF ReplayInv, ExtremeBeyondEntry
  <2> HIDE DEF r
  <2> DEFINE d == r.action * InitialRisk
  <2>7. d \in Nat /\ d <= Distance(trade.best, Entry)
    BY <2>4 DEF Excursion, MfePrice
  <2>8. StopOffer(r) = Away(Entry, d) \/ StopOffer(r) = Back(trade.best, d)
    BY <2>5
  <2> HIDE DEF d
  <2>9. StopOffer(r) \in Int /\ ~Better(Entry, StopOffer(r))
    BY <1>2, <1>3, <2>6, <2>7, <2>8 DEF Better, Away, Back, Distance
  <2> QED
    BY <2>9 DEF r
<1> QED
  BY <1>4, <1>5

--------------------------------------------------------------------------------
(* The invariant, action by action. *)

LEMMA InitReplayInv == Init => ReplayInv
<1> SUFFICES ASSUME Init PROVE ReplayInv
  OBVIOUS
<1>1. None \notin Int /\ None \notin STRING /\ Entry \in Int /\ Stops \subseteq Nat \cup {None}
  BY ReplayAssumption
<1>2. initialStop \in Price
  <2>1. PICK s \in Stops : initialStop = IF s = None THEN None ELSE Back(Entry, s)
    BY DEF Init
  <2> QED
    BY <1>1, <2>1 DEF Init, Back, Price
<1>3. trade = InitialTrade /\ offset \in {0, 1} /\ candidates = <<>>
  BY DEF Init
<1>4. TypeOK
  <2>1. <<>> \in Seq(Bars) /\ <<>> \in Seq(STRING) /\ <<>> \in Seq(Candidates)
    OBVIOUS
  <2>2. trade \in Trades
    <3>1. 0 \in Phases /\ offset \in Nat /\ Entry \in Int
      BY <1>1, <1>3 DEF Phases
    <3>2. "initial" \in Profiles /\ None \in STRING \cup {None}
      BY DEF Profiles
    <3>3. InitialTrade \in Trades
      BY <1>2, <2>1, <3>1, <3>2, Zenon DEF InitialTrade, Trades
    <3> QED
      BY <1>3, <3>3
  <2> QED
    BY <1>2, <1>3, <2>1, <2>2 DEF Init, TypeOK, Trades, Candidates
<1>5. ExtremeBeyondEntry /\ StopKeepsInitial /\ ProtectionAttributed
  BY <1>1, <1>2, <1>3
     DEF InitialTrade, ExtremeBeyondEntry, StopKeepsInitial, ProtectionAttributed, Better,
         DesiredStop, Price
<1>6. Offered /\ HasBest
  BY <1>3 DEF Offered, HasBest
<1> QED
  BY <1>4, <1>5, <1>6 DEF ReplayInv

LEMMA SameTrade ==
  ASSUME ReplayInv, UNCHANGED <<inputs, trade>>
  PROVE  ExtremeBeyondEntry' /\ StopKeepsInitial' /\ ProtectionAttributed'
  BY DEF ReplayInv, inputs, ExtremeBeyondEntry, StopKeepsInitial, ProtectionAttributed, Better,
         DesiredStop

LEMMA SameCandidates ==
  ASSUME ReplayInv, UNCHANGED <<inputs, candidates>>, trade'.phase \in Phases,
         trade'.phase >= trade.phase
  PROVE  Offered' /\ HasBest'
<1>1. Offered'
  <2> SUFFICES ASSUME NEW n \in DOMAIN candidates
               PROVE  \E r \in ToSet(config.stop) :
                        /\ candidates[n].rule = r.id /\ trade'.phase >= r.at
                        /\ r.kind \in RiskKinds => ~Better(Entry, candidates[n].price)
    BY DEF Offered, inputs, Better
  <2>1. PICK r \in ToSet(config.stop) :
          /\ candidates[n].rule = r.id /\ trade.phase >= r.at
          /\ r.kind \in RiskKinds => ~Better(Entry, candidates[n].price)
    BY DEF ReplayInv, Offered
  <2>2. r.at \in Phases /\ trade.phase \in Phases
    BY ConfigFacts DEF ReplayInv, TypeOK, ToSet
  <2> QED
    BY <2>1, <2>2 DEF Phases
<1>2. HasBest'
  BY DEF ReplayInv, inputs, HasBest, IsFirstBest, IsBest, Better
<1> QED
  BY <1>1, <1>2

LEMMA SkipEntryBarInv == ASSUME ReplayInv, NEW bar \in Bars, SkipEntryBar(bar) PROVE ReplayInv'
<1>1. TypeOK'
  BY DEF ReplayInv, TypeOK, Profiles, SkipEntryBar, inputs
<1>2. Offered' /\ HasBest'
  BY SameCandidates DEF SkipEntryBar, ReplayInv, TypeOK, Phases
<1>3. ExtremeBeyondEntry' /\ StopKeepsInitial' /\ ProtectionAttributed'
  BY SameTrade DEF SkipEntryBar
<1> QED
  BY <1>1, <1>2, <1>3 DEF ReplayInv

LEMMA NextBarInv == ASSUME ReplayInv, NEW bar \in Bars, NextBar(bar) PROVE ReplayInv'
<1>1. bar.high \in Int /\ bar.low \in Int /\ Entry \in Int
  BY ConfigAssumption, ReplayAssumption
<1>2. trade \in Trades
  BY DEF ReplayInv, TypeOK, Trades
<1>3. bars \in Seq(Bars) /\ bars' \in Seq(Bars) /\ bars' # <<>> /\ Len(bars) + 1 \in Nat
  BY DEF ReplayInv, TypeOK, NextBar
<1>4. trade' = [trade EXCEPT !.barsInTrade = Len(bars) + 1,
                             !.best = IF side = "long" THEN Larger(@, bar.high)
                                                       ELSE Smaller(@, bar.low)]
  BY DEF NextBar
<1>5. /\ trade'.best = IF side = "long" THEN Larger(trade.best, bar.high)
                                         ELSE Smaller(trade.best, bar.low)
      /\ trade'.phase = trade.phase /\ trade'.stop = trade.stop
      /\ trade'.stopRule = trade.stopRule /\ trade' \in Trades
  BY <1>1, <1>2, <1>3, <1>4 DEF Trades, Larger, Smaller
<1>6. TypeOK'
  BY <1>3, <1>5 DEF ReplayInv, TypeOK, Profiles, NextBar, inputs, Trades
<1>7. ExtremeBeyondEntry'
  BY <1>1, <1>2, <1>5
     DEF ReplayInv, TypeOK, ExtremeBeyondEntry, NextBar, inputs, Better, Larger, Smaller, Trades
<1>8. StopKeepsInitial' /\ ProtectionAttributed'
  BY <1>5 DEF ReplayInv, NextBar, inputs, StopKeepsInitial, ProtectionAttributed, DesiredStop,
              Better
<1>9. Offered' /\ HasBest'
  BY <1>2, <1>5, SameCandidates DEF NextBar, Trades, Phases
<1> QED
  BY <1>6, <1>7, <1>8, <1>9 DEF ReplayInv

LEMMA PhaseRuleInv == ASSUME ReplayInv, PhaseRule PROVE ReplayInv' /\ trade'.phase >= trade.phase
<1> DEFINE r == config.phase[at]
<1>1. at \in Nat \ {0} /\ config \in Configs /\ trade \in Trades
  BY DEF ReplayInv, TypeOK, Trades
<1>2. r.to \in Phases
  <2>1. at \in DOMAIN config.phase
    BY <1>1, ConfigFacts DEF PhaseRule
  <2> QED
    BY <1>1, <2>1, ConfigFacts
<1>3. \/ UNCHANGED trade
      \/ /\ r.to > trade.phase
         /\ trade' = [trade EXCEPT !.phase = r.to, !.maxPhase = Larger(@, r.to)]
  BY DEF PhaseRule
<1> HIDE DEF r
<1>4. /\ trade' \in Trades /\ trade'.phase \in Phases /\ trade'.phase >= trade.phase
      /\ trade'.best = trade.best /\ trade'.stop = trade.stop /\ trade'.stopRule = trade.stopRule
  <2>1. CASE UNCHANGED trade
    BY <1>1, <2>1 DEF Trades, Phases
  <2>2. CASE /\ r.to > trade.phase
             /\ trade' = [trade EXCEPT !.phase = r.to, !.maxPhase = Larger(@, r.to)]
    <3>1. trade.phase \in Phases /\ trade.maxPhase \in Phases
      BY <1>1 DEF Trades
    <3>2. Larger(trade.maxPhase, r.to) \in Phases
      BY <1>2, <3>1 DEF Larger
    <3>3. r.to >= trade.phase
      BY <1>2, <2>2, <3>1 DEF Phases
    <3> QED
      BY <1>1, <1>2, <2>2, <3>2, <3>3 DEF Trades
  <2> QED
    BY <1>3, <2>1, <2>2
<1>5. TypeOK'
  BY <1>1, <1>4 DEF ReplayInv, TypeOK, Profiles, PhaseRule, inputs, Trades
<1>6. ExtremeBeyondEntry' /\ StopKeepsInitial'
  BY <1>4 DEF ReplayInv, PhaseRule, inputs, ExtremeBeyondEntry, StopKeepsInitial, Better
<1>7. ProtectionAttributed'
  <2>1. \A n \in DOMAIN config.stop : config.stop[n].at \in Phases
    BY <1>1, ConfigFacts
  <2>2. /\ (trade'.stopRule = None) <=> (trade'.stop = initialStop')
        /\ DesiredStop' = trade'.stop
    BY <1>4 DEF ReplayInv, PhaseRule, inputs, ProtectionAttributed, DesiredStop
  <2>3. ASSUME trade'.stopRule # None
        PROVE  \E n \in DOMAIN config'.stop :
                 config'.stop[n].id = trade'.stopRule /\ trade'.phase >= config'.stop[n].at
    <3>1. PICK n \in DOMAIN config.stop :
            config.stop[n].id = trade.stopRule /\ trade.phase >= config.stop[n].at
      BY <1>4, <2>3 DEF ReplayInv, ProtectionAttributed
    <3>2. trade'.phase >= config.stop[n].at
      <4>1. trade.phase \in Phases /\ trade'.phase \in Phases /\ config.stop[n].at \in Phases
        BY <1>1, <1>4, <2>1 DEF Trades
      <4> QED
        BY <1>4, <3>1, <4>1 DEF Phases
    <3> QED
      BY <1>4, <3>1, <3>2 DEF PhaseRule, inputs
  <2> QED
    BY <2>2, <2>3 DEF ProtectionAttributed
<1>8. Offered' /\ HasBest'
  BY <1>4, SameCandidates DEF PhaseRule
<1> QED
  BY <1>4, <1>5, <1>6, <1>7, <1>8 DEF ReplayInv

LEMMA PhasesDoneInv == ASSUME ReplayInv, PhasesDone PROVE ReplayInv'
<1>1. candidates' = <<>> /\ <<>> \in Seq(Candidates)
  BY DEF PhasesDone
<1>2. TypeOK'
  BY <1>1 DEF ReplayInv, TypeOK, Profiles, PhasesDone, inputs, Candidates
<1>3. Offered' /\ HasBest'
  BY <1>1 DEF Offered, HasBest
<1>4. ExtremeBeyondEntry' /\ StopKeepsInitial' /\ ProtectionAttributed'
  BY SameTrade DEF PhasesDone
<1> QED
  BY <1>2, <1>3, <1>4 DEF ReplayInv

\* An offer behind the best leaves it the first of the best; one ahead takes its place.
LEMMA BestOfMore ==
  ASSUME candidates \in Seq(Candidates), side \in {"long", "short"}, HasBest,
         NEW c \in Candidates, candidates' = Append(candidates, c), side' = side
  PROVE  HasBest'
<1> DEFINE L == Len(candidates)
<1>1. /\ L \in Nat /\ DOMAIN candidates = 1..L /\ DOMAIN candidates' = 1..(L + 1)
      /\ \A m \in 1..L : candidates'[m] = candidates[m]
      /\ candidates'[L + 1] = c
  OBVIOUS
<1>0. \A m \in 1..L : candidates[m] \in Candidates
  BY <1>1
<1>3. \A m \in 1..L : candidates[m].price \in Int
  BY <1>0 DEF Candidates
<1>2. \A m \in 1..(L + 1) : candidates'[m].price \in Int
  <2>1. c.price \in Int
    BY DEF Candidates
  <2> QED
    BY <1>1, <1>3, <2>1
<1> DEFINE new(m) == candidates'[m].price
           old(m) == candidates[m].price
           NewBest(n) == \A m \in 1..(L + 1) : ~Better(new(m), new(n))
           OldBest(n) == \A m \in 1..L : ~Better(old(m), old(n))
<1>4. /\ \A n : IsBest(n)' <=> NewBest(n)
      /\ \A n : IsBest(n) <=> OldBest(n)
  BY <1>1 DEF IsBest, Better
<1>5. c.price \in Int /\ new(L + 1) = c.price /\ \A m \in 1..L : new(m) = old(m)
  BY <1>1 DEF Candidates
<1>6. SUFFICES \E n \in 1..(L + 1) : NewBest(n) /\ \A m \in 1..(L + 1) : NewBest(m) => n <= m
  BY <1>1, <1>4 DEF HasBest, IsFirstBest
<1> HIDE DEF L
<1>7. CASE candidates = <<>>
  <2>1. L = 0
    BY <1>7 DEF L
  <2>2. 1..(L + 1) = {1}
    BY <2>1
  <2>3. NewBest(1)
    BY <1>2, <2>2 DEF Better
  <2> QED
    BY <2>2, <2>3
<1>8. CASE candidates # <<>>
  <2>1. PICK p \in 1..L : OldBest(p) /\ \A m \in 1..L : OldBest(m) => p <= m
    BY <1>1, <1>4, <1>8 DEF HasBest, IsFirstBest
  <2> HIDE DEF new, old
  <2>2. /\ \A m \in 1..L : old(m) \in Int /\ new(m) = old(m)
        /\ new(L + 1) \in Int
    BY <1>3, <1>5 DEF old
  <2>3. \A m \in 1..(L + 1) : m \in 1..L \/ m = L + 1
    BY <1>1
  <2>4. CASE Better(new(L + 1), old(p))
    <3>1. NewBest(L + 1)
      <4> SUFFICES ASSUME NEW m \in 1..(L + 1) PROVE ~Better(new(m), new(L + 1))
        OBVIOUS
      <4>1. CASE m = L + 1
        BY <2>2, <4>1 DEF Better
      <4>2. CASE m \in 1..L
        <5>1. ~Better(old(m), old(p)) /\ old(m) \in Int /\ old(p) \in Int /\ new(m) = old(m)
          BY <2>1, <2>2, <4>2
        <5> QED
          BY <2>2, <2>4, <5>1 DEF Better
      <4> QED
        BY <2>3, <4>1, <4>2
    <3>2. ASSUME NEW m \in 1..L PROVE ~NewBest(m)
      BY <1>1, <2>1, <2>2, <2>4, <3>2 DEF Better
    <3>3. \A m \in 1..(L + 1) : NewBest(m) => L + 1 <= m
      <4> HIDE DEF NewBest
      <4> QED
        BY <1>1, <2>3, <3>2
    <3> HIDE DEF NewBest
    <3> QED
      BY <1>1, <3>1, <3>3
  <2>5. CASE ~Better(new(L + 1), old(p))
    <3>1. NewBest(p)
      BY <2>1, <2>2, <2>3, <2>5 DEF Better
    <3>2. ASSUME NEW m \in 1..(L + 1), NewBest(m) PROVE p <= m
      <4>1. CASE m \in 1..L
        <5>1. OldBest(m)
          BY <1>1, <2>2, <3>2, <4>1
        <5> QED
          BY <2>1, <4>1, <5>1
      <4>2. CASE m = L + 1
        BY <1>1, <4>2
      <4> QED
        BY <2>3, <4>1, <4>2
    <3>3. p \in 1..(L + 1)
      BY <1>1
    <3> HIDE DEF NewBest
    <3> QED
      BY <3>1, <3>2, <3>3
  <2> QED
    BY <2>4, <2>5
<1> QED
  BY <1>7, <1>8

LEMMA StopRuleInv == ASSUME ReplayInv, StopRule PROVE ReplayInv'
<1> DEFINE r == config.stop[at]
           c == [price |-> StopOffer(r), rule |-> r.id]
<1>1. at \in DOMAIN config.stop /\ bars # <<>> /\ candidates \in Seq(Candidates)
      /\ side \in {"long", "short"} /\ side' = side
  <2>1. at \in Nat \ {0} /\ config \in Configs /\ (stage # "bar" => bars # <<>>)
    BY DEF ReplayInv, TypeOK
  <2> QED
    BY <2>1, ConfigFacts DEF ReplayInv, TypeOK, Candidates, StopRule, inputs
<1>2. \/ UNCHANGED candidates
      \/ trade.phase >= r.at /\ StopOffer(r) # None /\ candidates' = Append(candidates, c)
  BY DEF StopRule
<1>3. CASE UNCHANGED candidates
  <2>1. TypeOK'
    BY <1>3 DEF ReplayInv, TypeOK, Profiles, StopRule, inputs
  <2>2. Offered' /\ HasBest'
    BY <1>3, SameCandidates DEF StopRule, ReplayInv, TypeOK, Phases
  <2> QED
    BY <2>1, <2>2, SameTrade DEF ReplayInv, StopRule
<1>4. CASE trade.phase >= r.at /\ StopOffer(r) # None /\ candidates' = Append(candidates, c)
  <2>1. StopOffer(r) \in Int /\ (r.kind \in RiskKinds => ~Better(Entry, StopOffer(r)))
    BY <1>1, <1>4, OfferFacts
  <2>2. r.id \in STRING /\ r \in ToSet(config.stop)
    BY <1>1, ConfigFacts DEF ReplayInv, TypeOK, ToSet
  <2>3. c \in Candidates
    BY <2>1, <2>2 DEF Candidates
  <2>4. candidates' \in Seq(Candidates)
    BY <1>1, <1>4, <2>3
  <2>5. TypeOK'
    BY <2>4 DEF ReplayInv, TypeOK, Profiles, StopRule, inputs, Candidates
  <2>6. HasBest'
    <3> HIDE DEF c
    <3> QED
      BY <1>1, <1>4, <2>3, BestOfMore DEF ReplayInv
  <2>7. Offered'
    <3> SUFFICES ASSUME NEW n \in DOMAIN candidates'
                 PROVE  \E q \in ToSet(config.stop) :
                          /\ candidates'[n].rule = q.id /\ trade.phase >= q.at
                          /\ q.kind \in RiskKinds => ~Better(Entry, candidates'[n].price)
      BY <1>1 DEF Offered, StopRule, inputs, Better
    <3>1. CASE n \in DOMAIN candidates
      <4>1. candidates'[n] = candidates[n]
        BY <1>1, <1>4, <3>1
      <4> QED
        BY <3>1, <4>1 DEF ReplayInv, Offered
    <3>2. CASE n = Len(candidates) + 1
      <4>1. candidates'[n] = c
        BY <1>1, <1>4, <3>2
      <4>2. c.rule = r.id /\ c.price = StopOffer(r)
        OBVIOUS
      <4> QED
        BY <1>4, <2>1, <2>2, <4>1, <4>2
    <3> QED
      <4>1. n \in DOMAIN candidates \/ n = Len(candidates) + 1
        BY <1>1, <1>4
      <4> QED
        BY <3>1, <3>2, <4>1
  <2> QED
    BY <2>5, <2>6, <2>7, SameTrade DEF ReplayInv, StopRule
<1> QED
  BY <1>2, <1>3, <1>4

LEMMA ChosenIsOffered ==
  ASSUME ReplayInv, candidates # <<>>
  PROVE  \E n \in DOMAIN candidates : Chosen = candidates[n] /\ Chosen \in Candidates
<1>1. \E n \in DOMAIN candidates : IsFirstBest(n)
  BY DEF ReplayInv, HasBest
<1> DEFINE n == CHOOSE n \in DOMAIN candidates : IsFirstBest(n)
<1>2. n \in DOMAIN candidates
  BY <1>1
<1>3. candidates \in Seq(Candidates)
  BY DEF ReplayInv, TypeOK, Candidates
<1>4. Chosen = candidates[n]
  BY DEF Chosen
<1> HIDE DEF n
<1>5. candidates[n] \in Candidates
  BY <1>2, <1>3
<1> QED
  BY <1>2, <1>4, <1>5

\* When the stop moves it moves to an offer, ahead of where it was.
LEMMA StopMoves ==
  ASSUME ReplayInv, candidates # <<>>, Tightened # trade.stop
  PROVE  /\ Tightened \in Int /\ Tightened = Chosen.price /\ Chosen.rule \in STRING
         /\ trade.stop # None => trade.stop \in Int /\ Better(Tightened, trade.stop)
         /\ Tightened # initialStop
         /\ initialStop # None => ~Better(initialStop, Tightened)
<1>1. Chosen.price \in Int /\ Chosen.rule \in STRING
  BY ChosenIsOffered DEF Candidates
<1>2. /\ Tightened = Chosen.price
      /\ trade.stop # None => Better(Tightened, trade.stop)
  BY DEF Tightened
<1>3. /\ trade.stop \in Int \cup {None} /\ initialStop \in Int \cup {None}
      /\ side \in {"long", "short"} /\ None \notin Int
  BY ReplayAssumption DEF ReplayInv, TypeOK, Price
<1>4. initialStop # None => trade.stop # None /\ ~Better(initialStop, trade.stop)
  BY DEF ReplayInv, StopKeepsInitial
<1>5. Tightened # initialStop /\ (initialStop # None => ~Better(initialStop, Tightened))
  BY <1>1, <1>2, <1>3, <1>4 DEF Better
<1> QED
  BY <1>1, <1>2, <1>3, <1>5

LEMMA ChooseStopInv == ASSUME ReplayInv, ChooseStop PROVE ReplayInv'
<1>1. CASE UNCHANGED trade
  <2>1. TypeOK'
    BY <1>1 DEF ReplayInv, TypeOK, Profiles, ChooseStop, inputs
  <2>2. Offered' /\ HasBest'
    BY <1>1, SameCandidates DEF ChooseStop, ReplayInv, TypeOK, Phases
  <2> QED
    BY <1>1, <2>1, <2>2, SameTrade DEF ReplayInv, ChooseStop
<1>2. CASE /\ candidates # <<>> /\ Tightened # trade.stop
           /\ trade' = [trade EXCEPT !.stop = Tightened, !.stopRule = Chosen.rule]
  <2>1. /\ Tightened \in Int /\ Tightened = Chosen.price /\ Chosen.rule \in STRING
        /\ Tightened # initialStop
        /\ initialStop # None => ~Better(initialStop, Tightened)
    BY <1>2, StopMoves
  <2>2. trade \in Trades /\ trade' \in Trades
    BY <1>2, <2>1 DEF ReplayInv, TypeOK, Trades, Price
  <2>3. /\ trade'.phase = trade.phase /\ trade'.phase \in Phases /\ trade'.best = trade.best
        /\ trade'.stop = Tightened /\ trade'.stopRule = Chosen.rule
    BY <1>2, <2>2 DEF Trades
  <2>4. /\ UNCHANGED <<inputs, bars, candidates, armed, decisions>>
        /\ stage' = "take" /\ at' = 1 /\ stage = "stop"
    BY DEF ChooseStop
  <2>5. TypeOK'
    BY <2>2, <2>4 DEF ReplayInv, TypeOK, Profiles, inputs, Trades
  <2>6. Offered' /\ HasBest'
    BY <2>2, <2>3, <2>4, SameCandidates DEF Trades, Phases
  <2>7. ExtremeBeyondEntry'
    BY <2>3, <2>4 DEF ReplayInv, ExtremeBeyondEntry, inputs, Better
  <2>8. None \notin Int /\ None \notin STRING
    BY ReplayAssumption
  <2>9. StopKeepsInitial'
    BY <2>1, <2>3, <2>4, <2>8 DEF StopKeepsInitial, inputs, Better
  <2>10. ProtectionAttributed'
    <3>1. (trade'.stopRule = None) <=> (trade'.stop = initialStop')
      BY <2>1, <2>3, <2>4, <2>8 DEF inputs
    <3>2. DesiredStop' = trade'.stop
      BY <3>1 DEF DesiredStop
    <3>3. \E m \in DOMAIN config.stop :
            config.stop[m].id = Chosen.rule /\ trade.phase >= config.stop[m].at
      <4>1. PICK n \in DOMAIN candidates : Chosen = candidates[n]
        BY <1>2, ChosenIsOffered
      <4>2. PICK r \in ToSet(config.stop) : candidates[n].rule = r.id /\ trade.phase >= r.at
        BY DEF ReplayInv, Offered
      <4> QED
        BY <4>1, <4>2 DEF ToSet
    <3> QED
      BY <2>3, <2>4, <3>1, <3>2, <3>3 DEF ProtectionAttributed, inputs
  <2> QED
    BY <2>5, <2>6, <2>7, <2>9, <2>10 DEF ReplayInv
<1> QED
  BY <1>1, <1>2 DEF ChooseStop

LEMMA TakeRuleInv ==
  ASSUME ReplayInv, TakeRule
  PROVE  ReplayInv' /\ trade'.phase = trade.phase /\ trade'.stop = trade.stop
<1> DEFINE r == config.take[at]
<1>1. config \in Configs /\ trade \in Trades /\ at \in Nat \ {0}
  BY DEF ReplayInv, TypeOK, Trades
<1>2. at \in DOMAIN config.take
  BY <1>1, ConfigFacts DEF TakeRule
<1>3. r.id \in STRING /\ Profile(r.action) \in Profiles
  BY <1>1, <1>2, ConfigFacts DEF Profile, Profiles, ToSet
<1>4. \/ UNCHANGED trade
      \/ trade' = [trade EXCEPT !.profile = Profile(r.action), !.takeRule = r.id]
  BY DEF TakeRule
<1> HIDE DEF r
<1>5. /\ trade' \in Trades /\ trade'.phase = trade.phase /\ trade.phase \in Phases
      /\ trade'.best = trade.best /\ trade'.stop = trade.stop
      /\ trade'.stopRule = trade.stopRule
  BY <1>1, <1>3, <1>4 DEF Trades
<1>6. TypeOK'
  BY <1>1, <1>5 DEF ReplayInv, TypeOK, Profiles, TakeRule, inputs, Trades
<1>7. ExtremeBeyondEntry' /\ StopKeepsInitial' /\ ProtectionAttributed'
  BY <1>5 DEF ReplayInv, TakeRule, inputs, ExtremeBeyondEntry, StopKeepsInitial,
              ProtectionAttributed, DesiredStop, Better
<1>8. Offered' /\ HasBest'
  BY <1>5, SameCandidates DEF TakeRule, Phases
<1> QED
  BY <1>5, <1>6, <1>7, <1>8 DEF ReplayInv

\* Steps that leave the trade, or all of it but the exits armed, alone.
LEMMA OtherStepsInv ==
  ASSUME ReplayInv, TakesDone \/ RuntimeRule \/ FinishBar \/ UNCHANGED vars
  PROVE  ReplayInv' /\ trade'.phase = trade.phase /\ trade'.stop = trade.stop
<1>1. trade \in Trades /\ trade.phase \in Phases /\ armed \in Seq(STRING) /\ at \in Nat \ {0}
  BY DEF ReplayInv, TypeOK, Trades
<1>2. armed' \in Seq(STRING)
  <2>1. CASE RuntimeRule
    <3>1. config.runtime[at].id \in STRING
      <4>1. at \in DOMAIN config.runtime /\ config \in Configs
        BY <1>1, <2>1, ConfigFacts DEF ReplayInv, TypeOK, RuntimeRule
      <4> QED
        BY <4>1, ConfigFacts
    <3> QED
      BY <1>1, <2>1, <3>1 DEF RuntimeRule
  <2>2. CASE TakesDone
    BY <2>2 DEF TakesDone
  <2> QED
    BY <1>1, <2>1, <2>2 DEF FinishBar, vars
<1>3. UNCHANGED trade \/ trade' = [trade EXCEPT !.armed = armed]
  BY DEF TakesDone, RuntimeRule, FinishBar, vars
<1>4. /\ trade' \in Trades /\ trade'.phase = trade.phase /\ trade'.best = trade.best
      /\ trade'.stop = trade.stop /\ trade'.stopRule = trade.stopRule
  BY <1>1, <1>3 DEF Trades
<1>5. UNCHANGED <<inputs, candidates, bars>> /\ at' \in Nat \ {0}
      /\ stage' \in {"bar", "phase", "stop", "take", "runtime"}
      /\ (stage' # "bar" => stage # "bar")
  BY <1>1 DEF ReplayInv, TypeOK, TakesDone, RuntimeRule, FinishBar, vars
<1>6. TypeOK'
  BY <1>2, <1>4, <1>5 DEF ReplayInv, TypeOK, Profiles, inputs, Trades
<1>7. ExtremeBeyondEntry' /\ StopKeepsInitial' /\ ProtectionAttributed'
  BY <1>4, <1>5 DEF ReplayInv, inputs, ExtremeBeyondEntry, StopKeepsInitial,
                    ProtectionAttributed, DesiredStop, Better
<1>8. Offered' /\ HasBest'
  BY <1>1, <1>4, <1>5, SameCandidates DEF Phases
<1> QED
  BY <1>4, <1>6, <1>7, <1>8 DEF ReplayInv

--------------------------------------------------------------------------------
(* The theorems. *)

LEMMA StepReplayInv == ReplayInv /\ [Next]_vars => ReplayInv'
<1> SUFFICES ASSUME ReplayInv, [Next]_vars PROVE ReplayInv'
  OBVIOUS
<1>1. ASSUME NEW bar \in Bars, SkipEntryBar(bar) \/ NextBar(bar) PROVE ReplayInv'
  BY <1>1, SkipEntryBarInv, NextBarInv
<1> QED
  BY <1>1, PhaseRuleInv, PhasesDoneInv, StopRuleInv, ChooseStopInv, TakeRuleInv, OtherStepsInv
     DEF Next

\* The inductive invariant of the replay.
THEOREM ReplayInvariance == Spec => []ReplayInv
  BY InitReplayInv, StepReplayInv, PTL DEF Spec

\* Every state of a replay has the shape of ManagedTradeState and the locals of the
\* loop: no rule, bar or missing reading puts anything but a price in the stop.
THEOREM TypeCorrect == Spec => []TypeOK
<1>1. ReplayInv => TypeOK
  BY DEF ReplayInv
<1> QED
  BY <1>1, ReplayInvariance, PTL

\* The stop and its attribution move together, so that desired_stop_price of an open
\* trade is the active stop, named after a rule whose phase was reached.
THEOREM ProtectionIsAttributed == Spec => []ProtectionAttributed
<1>1. ReplayInv => ProtectionAttributed
  BY DEF ReplayInv
<1> QED
  BY <1>1, ReplayInvariance, PTL

\* What an initial-R rule offers is never behind the entry, whatever its trigger, its
\* action and the risk.
THEOREM InitialRStopsBeyondEntry == Spec => []InitialRBeyondEntry
<1>1. ReplayInv => InitialRBeyondEntry
  BY DEF ReplayInv, Offered, InitialRBeyondEntry, RiskKinds
<1> QED
  BY <1>1, ReplayInvariance, PTL

LEMMA StepForward ==
  ReplayInv /\ [Next]_vars =>
    [/\ trade'.phase >= trade.phase
     /\ trade.stop # None => trade'.stop # None /\ ~Better(trade.stop, trade'.stop)]_vars
<1> DEFINE Forward == /\ trade'.phase >= trade.phase
                      /\ trade.stop # None => trade'.stop # None /\ ~Better(trade.stop, trade'.stop)
<1> SUFFICES ASSUME ReplayInv, Next PROVE Forward
  BY DEF vars
<1>1. /\ trade \in Trades /\ trade.phase \in Phases /\ trade.stop \in Int \cup {None}
      /\ None \notin Int /\ side \in {"long", "short"}
  BY ReplayAssumption DEF ReplayInv, TypeOK, Trades, Price
<1>2. ASSUME trade'.phase = trade.phase, trade'.stop = trade.stop PROVE Forward
  BY <1>1, <1>2 DEF Phases, Better
<1>3. ASSUME NEW bar \in Bars, SkipEntryBar(bar) \/ NextBar(bar) PROVE Forward
  BY <1>1, <1>2, <1>3 DEF SkipEntryBar, NextBar, Trades
<1>4. CASE PhaseRule
  <2>1. trade'.stop = trade.stop
    BY <1>1, <1>4 DEF PhaseRule, Trades
  <2> QED
    BY <1>1, <1>4, <2>1, PhaseRuleInv DEF Better
<1>5. CASE PhasesDone \/ StopRule
  BY <1>2, <1>5 DEF PhasesDone, StopRule
<1>6. CASE ChooseStop
  <2>1. CASE UNCHANGED trade
    BY <1>2, <2>1
  <2>2. CASE /\ candidates # <<>> /\ Tightened # trade.stop
             /\ trade' = [trade EXCEPT !.stop = Tightened, !.stopRule = Chosen.rule]
    <3>1. /\ Tightened \in Int
          /\ trade.stop # None => trade.stop \in Int /\ Better(Tightened, trade.stop)
      BY <2>2, StopMoves
    <3>2. trade'.phase = trade.phase /\ trade'.stop = Tightened
      BY <1>1, <2>2 DEF Trades
    <3> QED
      BY <1>1, <3>1, <3>2 DEF Better, Phases
  <2> QED
    BY <1>6, <2>1, <2>2 DEF ChooseStop
<1>7. CASE TakeRule
  BY <1>2, <1>7, TakeRuleInv
<1>8. CASE TakesDone \/ RuntimeRule \/ FinishBar
  BY <1>2, <1>8, OtherStepsInv
<1> QED
  BY <1>3, <1>4, <1>5, <1>6, <1>7, <1>8 DEF Next

\* No step of a replay moves the phase back or lets the stop out.
THEOREM PhaseAndStopNeverRegress == Spec => NeverRegresses
<1>1. Spec => []ReplayInv /\ [][Next]_vars
  BY ReplayInvariance, PTL DEF Spec
<1> QED
  BY <1>1, StepForward, PTL DEF NeverRegresses

--------------------------------------------------------------------------------
(* The event log tells the whole story.  What a log says of a field is a   *)
(* fact about a sequence of events; the lemmas below say what one more     *)
(* event does to it, and the invariant ties it to the trade and to the     *)
(* decisions of the bars before.                                           *)

Of(evs, type, bar) == {e \in DOMAIN evs : evs[e].type = type /\ evs[e].bar <= bar}

Says(evs, type, field, bar, initial, v) ==
  /\ Of(evs, type, bar) = {} => v = initial
  /\ \A e \in Of(evs, type, bar) :
       (\A f \in Of(evs, type, bar) : f <= e) => v = evs[e].detail[field]

Exits(evs, bar) == {e \in DOMAIN evs : evs[e].type = "runtime_exit_triggered" /\ evs[e].bar = bar}

ExitsSaid(evs, bar, rules, k) ==
  /\ Exits(evs, bar) = k + 1..k + Len(rules)
  /\ \A i \in DOMAIN rules : rules[i] = evs[k + i].rule

Chained(evs) ==
  \A e, f \in DOMAIN evs :
    /\ evs[e].type = "phase_changed" /\ evs[f].type = "phase_changed" /\ e < f
    /\ \A g \in DOMAIN evs : e < g /\ g < f => evs[g].type # "phase_changed"
    => evs[f].detail.from = evs[e].detail.to

Dated(evs, bar) == evs \in Seq(ToSet(evs)) /\ \A e \in DOMAIN evs : evs[e].bar \in 1..bar

LEMMA OneMore ==
  ASSUME NEW evs, NEW b \in Nat, Dated(evs, b), NEW x, x.bar \in 1..b
  PROVE  /\ Append(evs, x) \in Seq(ToSet(Append(evs, x)))
         /\ Dated(Append(evs, x), b)
         /\ Len(evs) \in Nat /\ Len(Append(evs, x)) = Len(evs) + 1
         /\ DOMAIN evs = 1..Len(evs) /\ DOMAIN Append(evs, x) = 1..Len(evs) + 1
         /\ Append(evs, x)[Len(evs) + 1] = x
         /\ \A e \in DOMAIN evs : Append(evs, x)[e] = evs[e]
<1> DEFINE S == ToSet(evs) \cup {x}
           more == Append(evs, x)
<1>1. evs \in Seq(S)
  <2>1. evs \in Seq(ToSet(evs))
    BY DEF Dated
  <2> QED
    BY <2>1
<1>2. x \in S
  OBVIOUS
<1> HIDE DEF S
<1>3. /\ more \in Seq(S) /\ Len(evs) \in Nat /\ Len(more) = Len(evs) + 1
      /\ DOMAIN evs = 1..Len(evs) /\ DOMAIN more = 1..Len(evs) + 1
      /\ more[Len(evs) + 1] = x /\ \A e \in DOMAIN evs : more[e] = evs[e]
  BY <1>1, <1>2
<1> HIDE DEF more
<1>4. more \in Seq(ToSet(more))
  BY <1>3 DEF ToSet
<1>5. \A e \in DOMAIN more : more[e].bar \in 1..b
  <2> SUFFICES ASSUME NEW e \in DOMAIN more PROVE more[e].bar \in 1..b
    OBVIOUS
  <2>1. CASE e \in DOMAIN evs
    BY <1>3, <2>1 DEF Dated
  <2>2. CASE e = Len(evs) + 1
    BY <1>3, <2>2
  <2> QED
    BY <1>3, <2>1, <2>2
<1>6. Dated(more, b)
  BY <1>4, <1>5 DEF Dated
<1> QED
  BY <1>3, <1>4, <1>6 DEF more

\* An event of another type, or of a later bar, changes nothing.
LEMMA SaidStill ==
  ASSUME NEW evs, NEW b \in Nat, Dated(evs, b), NEW x, x.bar \in 1..b,
         NEW type, NEW field, NEW bar \in Int, NEW initial, NEW v,
         Says(evs, type, field, bar, initial, v), x.type # type \/ bar < x.bar
  PROVE  Says(Append(evs, x), type, field, bar, initial, v)
<1> DEFINE more == Append(evs, x)
<1>1. /\ Len(evs) \in Nat /\ DOMAIN evs = 1..Len(evs) /\ DOMAIN more = 1..Len(evs) + 1
      /\ more[Len(evs) + 1] = x /\ \A e \in DOMAIN evs : more[e] = evs[e]
  BY OneMore
<1> HIDE DEF more
<1>2. ~ (x.type = type /\ x.bar <= bar)
  OBVIOUS
<1>3. Of(more, type, bar) = Of(evs, type, bar)
  BY <1>1, <1>2 DEF Of
<1>4. \A e \in Of(evs, type, bar) : more[e].detail = evs[e].detail
  BY <1>1 DEF Of
<1>5. Says(more, type, field, bar, initial, v)
  BY <1>3, <1>4, Zenon DEF Says
<1> QED
  BY <1>5 DEF more

\* An event of the type on the bar is the last word.
LEMMA SaidLast ==
  ASSUME NEW evs, NEW b \in Nat, Dated(evs, b), NEW x, x.bar \in 1..b,
         NEW type, NEW field, NEW initial, x.type = type
  PROVE  Says(Append(evs, x), type, field, b, initial, x.detail[field])
<1> DEFINE more == Append(evs, x)
<1>1. /\ Len(evs) \in Nat /\ DOMAIN more = 1..Len(evs) + 1 /\ more[Len(evs) + 1] = x
  BY OneMore
<1> HIDE DEF more
<1>2. Len(evs) + 1 \in Of(more, type, b)
  BY <1>1 DEF Of
<1>3. \A e \in Of(more, type, b) : Len(evs) + 1 <= e => e = Len(evs) + 1
  BY <1>1 DEF Of
<1>4. Says(more, type, field, b, initial, x.detail[field])
  BY <1>1, <1>2, <1>3 DEF Says
<1> QED
  BY <1>4 DEF more

\* A bar without events says what the one before said.
LEMMA SaidNextBar ==
  ASSUME NEW evs, NEW b \in Nat, Dated(evs, b), NEW type, NEW field, NEW initial, NEW v,
         Says(evs, type, field, b, initial, v)
  PROVE  Says(evs, type, field, b + 1, initial, v)
<1>1. Of(evs, type, b + 1) = Of(evs, type, b)
  BY DEF Of, Dated
<1> QED
  BY <1>1, Zenon DEF Says

\* The exits of a bar stay where they stand when an event of another type or bar comes.
LEMMA ExitsStill ==
  ASSUME NEW evs, NEW b \in Nat, Dated(evs, b), NEW x, x.bar \in 1..b,
         NEW bar \in Int, NEW rules \in Seq(STRING), NEW k \in Nat,
         ExitsSaid(evs, bar, rules, k), x.type # "runtime_exit_triggered" \/ x.bar # bar
  PROVE  ExitsSaid(Append(evs, x), bar, rules, k)
<1> DEFINE more == Append(evs, x)
<1>1. /\ Len(evs) \in Nat /\ DOMAIN evs = 1..Len(evs) /\ DOMAIN more = 1..Len(evs) + 1
      /\ more[Len(evs) + 1] = x /\ \A e \in DOMAIN evs : more[e] = evs[e]
  BY OneMore
<1> HIDE DEF more
<1>2. Exits(more, bar) = Exits(evs, bar)
  BY <1>1 DEF Exits
<1>3. ASSUME NEW i \in DOMAIN rules PROVE rules[i] = more[k + i].rule
  <2>1. k + i \in Exits(evs, bar)
    BY DEF ExitsSaid
  <2>2. more[k + i] = evs[k + i]
    BY <1>1, <2>1 DEF Exits
  <2> QED
    BY <2>2 DEF ExitsSaid
<1>4. ExitsSaid(more, bar, rules, k)
  BY <1>2, <1>3 DEF ExitsSaid
<1> QED
  BY <1>4 DEF more

\* Another exit of the bar comes right after them.
LEMMA ExitsMore ==
  ASSUME NEW evs, NEW b \in Nat, Dated(evs, b), NEW x, x.bar = b, b # 0,
         NEW rules \in Seq(STRING), Len(rules) <= Len(evs),
         ExitsSaid(evs, b, rules, Len(evs) - Len(rules)),
         x.type = "runtime_exit_triggered", x.rule \in STRING
  PROVE  ExitsSaid(Append(evs, x), b, Append(rules, x.rule), Len(evs) - Len(rules))
<1> DEFINE more == Append(evs, x)
           now == Append(rules, x.rule)
<1>1. /\ Len(evs) \in Nat /\ DOMAIN evs = 1..Len(evs) /\ DOMAIN more = 1..Len(evs) + 1
      /\ more[Len(evs) + 1] = x /\ \A e \in DOMAIN evs : more[e] = evs[e]
  <2>1. x.bar \in 1..b
    OBVIOUS
  <2> QED
    BY <2>1, OneMore
<1>2. /\ Len(rules) \in Nat /\ DOMAIN rules = 1..Len(rules) /\ DOMAIN now = 1..Len(rules) + 1
      /\ Len(now) = Len(rules) + 1 /\ now[Len(rules) + 1] = x.rule
      /\ \A i \in DOMAIN rules : now[i] = rules[i]
  OBVIOUS
<1> HIDE DEF more, now
<1>3. PICK k \in Nat : k = Len(evs) - Len(rules)
  <2>1. \A m, n \in Nat : n <= m => m - n \in Nat
    OBVIOUS
  <2>2. Len(evs) - Len(rules) \in Nat
    BY <1>1, <1>2, <2>1
  <2> QED
    BY <2>2, Zenon
<1>4. Exits(evs, b) = k + 1..k + Len(rules) /\ \A i \in DOMAIN rules : rules[i] = evs[k + i].rule
  BY <1>3 DEF ExitsSaid
<1>5. Exits(more, b) = Exits(evs, b) \cup {Len(evs) + 1}
  BY <1>1 DEF Exits
<1>6. Exits(more, b) = k + 1..k + Len(now)
  BY <1>1, <1>2, <1>3, <1>4, <1>5
<1>7. ASSUME NEW i \in DOMAIN now PROVE now[i] = more[k + i].rule
  <2>1. CASE i = Len(rules) + 1
    BY <1>1, <1>2, <1>3, <2>1
  <2>2. CASE i \in DOMAIN rules
    <3>1. k + i \in DOMAIN evs
      BY <1>1, <1>2, <1>3, <2>2
    <3> QED
      BY <1>1, <1>2, <1>4, <2>2, <3>1
  <2> QED
    BY <1>2, <2>1, <2>2
<1>8. ExitsSaid(more, b, now, k)
  BY <1>6, <1>7 DEF ExitsSaid
<1> QED
  BY <1>3, <1>8 DEF more, now

\* A phase event that starts from what the log says continues the chain.
LEMMA ChainGoesOn ==
  ASSUME NEW evs, NEW b \in Nat, Dated(evs, b), NEW x, x.bar \in 1..b, Chained(evs),
         x.type = "phase_changed" =>
           \E initial : Says(evs, "phase_changed", "to", b, initial, x.detail.from)
  PROVE  Chained(Append(evs, x))
<1> DEFINE more == Append(evs, x)
<1>1. /\ Len(evs) \in Nat /\ DOMAIN evs = 1..Len(evs) /\ DOMAIN more = 1..Len(evs) + 1
      /\ more[Len(evs) + 1] = x /\ \A e \in DOMAIN evs : more[e] = evs[e]
  BY OneMore
<1> HIDE DEF more
<1>2. SUFFICES ASSUME NEW e \in DOMAIN more, NEW f \in DOMAIN more,
                      more[e].type = "phase_changed", more[f].type = "phase_changed", e < f,
                      \A g \in DOMAIN more : e < g /\ g < f => more[g].type # "phase_changed"
               PROVE  more[f].detail.from = more[e].detail.to
  BY DEF Chained, more
<1>3. e \in DOMAIN evs /\ more[e] = evs[e]
  BY <1>1, <1>2
<1>4. CASE f \in DOMAIN evs
  <2>1. \A g \in DOMAIN evs : e < g /\ g < f => evs[g].type # "phase_changed"
    BY <1>1, <1>2
  <2>2. evs[e].type = "phase_changed" /\ evs[f].type = "phase_changed" /\ more[f] = evs[f]
    BY <1>1, <1>2, <1>3, <1>4
  <2>3. evs[f].detail.from = evs[e].detail.to
    BY <1>2, <1>3, <1>4, <2>1, <2>2 DEF Chained
  <2> QED
    BY <1>3, <2>2, <2>3
<1>5. CASE f = Len(evs) + 1
  <2>1. more[f] = x
    BY <1>1, <1>5
  <2>2. PICK initial : Says(evs, "phase_changed", "to", b, initial, x.detail.from)
    BY <1>2, <2>1
  <2>3. e \in Of(evs, "phase_changed", b)
    BY <1>2, <1>3 DEF Of, Dated
  <2>4. ASSUME NEW g \in Of(evs, "phase_changed", b) PROVE g <= e
    <3>1. g \in DOMAIN evs /\ evs[g].type = "phase_changed"
      BY DEF Of
    <3>2. g \in DOMAIN more /\ more[g].type = "phase_changed" /\ g < f
      BY <1>1, <1>5, <3>1
    <3> QED
      BY <1>1, <1>2, <1>3, <3>1, <3>2
  <2>5. x.detail.from = evs[e].detail["to"]
    BY <2>2, <2>3, <2>4 DEF Says
  <2> QED
    BY <1>3, <2>1, <2>5
<1> QED
  BY <1>1, <1>4, <1>5


\* What the log says on a bar of the three fields a trade and a decision have.
Tells(evs, bar, d) ==
  /\ Says(evs, "phase_changed", "to", bar, 0, d.phase)
  /\ Says(evs, "active_stop_updated", "price", bar, initialStop, d.stop)
  /\ Says(evs, "active_take_updated", "profile", bar, "initial", d.profile)

\* Every evaluated bar but the current one has its decision.
Paced ==
  /\ stage = "bar" => IF Len(bars) < offset THEN Len(decisions) = 0
                                            ELSE Len(decisions) + offset = Len(bars)
  /\ stage # "bar" => Len(decisions) + offset + 1 = Len(bars)

TradeTold == Tells(events, Len(bars), trade)

PastTold ==
  \A n \in DOMAIN decisions :
    /\ Tells(events, n + offset, decisions[n])
    /\ decisions[n].armed \in Seq(STRING)
    /\ \E k \in 0..Len(events) : ExitsSaid(events, n + offset, decisions[n].armed, k)

\* The exits of the current bar are the last events, and come after all of its others.
ArmedTold ==
  /\ stage \in {"phase", "stop", "take"} => Exits(events, Len(bars)) = {}
  /\ stage = "runtime" => /\ Len(armed) <= Len(events)
                          /\ ExitsSaid(events, Len(bars), armed, Len(events) - Len(armed))

StoryInv ==
  /\ Dated(events, Len(bars)) /\ decisions \in Seq(ToSet(decisions))
  /\ Paced /\ TradeTold /\ PastTold /\ ArmedTold /\ Chained(events)

LEMMA StoryFacts ==
  ASSUME ReplayInv, StoryInv
  PROVE  /\ Len(bars) \in Nat /\ Len(events) \in Nat /\ Len(armed) \in Nat
         /\ Len(decisions) \in Nat /\ DOMAIN decisions = 1..Len(decisions)
         /\ offset \in {0, 1} /\ trade \in Trades /\ armed \in Seq(STRING)
         /\ \A n \in DOMAIN decisions : n + offset \in 1..Len(bars)
         /\ stage # "bar" => /\ Len(bars) \in 1..Len(bars)
                             /\ \A n \in DOMAIN decisions : n + offset < Len(bars)
<1>1. /\ Len(bars) \in Nat /\ offset \in {0, 1} /\ trade \in Trades
      /\ armed \in Seq(STRING) /\ Len(armed) \in Nat
  BY DEF ReplayInv, TypeOK, Trades
<1>2. /\ Len(events) \in Nat /\ Len(decisions) \in Nat /\ DOMAIN decisions = 1..Len(decisions)
  BY DEF StoryInv, Dated
<1>3. /\ stage = "bar" => IF Len(bars) < offset THEN Len(decisions) = 0
                                            ELSE Len(decisions) + offset = Len(bars)
      /\ stage # "bar" => Len(decisions) + offset + 1 = Len(bars)
  BY DEF StoryInv, Paced
<1>4. \A n \in DOMAIN decisions : n + offset \in 1..Len(bars)
  BY <1>1, <1>2, <1>3
<1>5. stage # "bar" => /\ Len(bars) \in 1..Len(bars)
                       /\ \A n \in DOMAIN decisions : n + offset < Len(bars)
  BY <1>1, <1>2, <1>3
<1> QED
  BY <1>1, <1>2, <1>4, <1>5

LEMMA InitStory == Init => StoryInv
<1> SUFFICES ASSUME Init PROVE StoryInv
  OBVIOUS
<1>1. /\ bars = <<>> /\ events = <<>> /\ decisions = <<>> /\ stage = "bar" /\ offset \in {0, 1}
      /\ trade = InitialTrade /\ <<>> \in Seq({})
  BY DEF Init
<1>2. /\ Len(bars) = 0 /\ Len(decisions) = 0 /\ DOMAIN events = {} /\ DOMAIN decisions = {}
      /\ ToSet(events) = {}
  BY <1>1 DEF ToSet
<1>3. trade.phase = 0 /\ trade.stop = initialStop /\ trade.profile = "initial"
  BY <1>1 DEF InitialTrade
<1>4. TradeTold
  BY <1>2, <1>3 DEF TradeTold, Tells, Says, Of
<1>5. Dated(events, Len(bars)) /\ decisions \in Seq(ToSet(decisions)) /\ Chained(events)
  BY <1>1, <1>2 DEF Dated, Chained, ToSet
<1>6. Paced /\ PastTold /\ ArmedTold
  BY <1>1, <1>2 DEF Paced, PastTold, ArmedTold
<1> QED
  BY <1>4, <1>5, <1>6 DEF StoryInv

\* A step that logs nothing and decides nothing.
LEMMA QuietStory ==
  ASSUME ReplayInv, StoryInv, UNCHANGED <<inputs, bars, events, decisions>>,
         trade'.phase = trade.phase, trade'.stop = trade.stop, trade'.profile = trade.profile,
         (stage' = "bar") <=> (stage = "bar"), ArmedTold'
  PROVE  StoryInv'
<1>1. Paced'
  BY DEF StoryInv, Paced, inputs
<1>2. TradeTold'
  BY DEF StoryInv, TradeTold, Tells, inputs
<1>3. PastTold'
  BY DEF StoryInv, PastTold, Tells, inputs
<1> QED
  BY <1>1, <1>2, <1>3 DEF StoryInv

\* What one more event of the current bar leaves as it was.
LEMMA LoggedStory ==
  ASSUME ReplayInv, StoryInv, UNCHANGED <<inputs, bars, decisions>>, stage # "bar",
         stage' # "bar", NEW x, x.bar = Len(bars), events' = Append(events, x),
         x.type = "phase_changed" => x.detail.from = trade.phase
  PROVE  /\ Dated(events, Len(bars))' /\ (decisions \in Seq(ToSet(decisions)))'
         /\ Paced' /\ PastTold' /\ Chained(events)'
         /\ x.bar \in 1..Len(bars)
<1>1. x.bar \in 1..Len(bars) /\ Len(bars) \in Nat /\ Dated(events, Len(bars))
  BY StoryFacts DEF StoryInv
<1>2. Dated(events, Len(bars))' /\ Len(events) \in Nat /\ Len(events') = Len(events) + 1
  BY <1>1, OneMore
<1>3. Paced' /\ (decisions \in Seq(ToSet(decisions)))'
  BY DEF StoryInv, Paced, inputs
<1>4. Chained(events)'
  <2>1. Chained(events)
    BY DEF StoryInv
  <2>2. Says(events, "phase_changed", "to", Len(bars), 0, trade.phase)
    BY DEF StoryInv, TradeTold, Tells
  <2>3. Chained(Append(events, x))
    BY <1>1, <2>1, <2>2, ChainGoesOn
  <2> QED
    BY <2>3
<1>5. ASSUME NEW n \in DOMAIN decisions
      PROVE  /\ Tells(events', n + offset, decisions[n])
             /\ decisions[n].armed \in Seq(STRING)
             /\ \E k \in 0..Len(events') : ExitsSaid(events', n + offset, decisions[n].armed, k)
  <2>1. n + offset \in Int /\ n + offset < x.bar /\ x.bar # n + offset
    <3>1. Len(bars) \in Nat /\ n + offset \in 1..Len(bars) /\ n + offset < Len(bars)
      BY StoryFacts
    <3> QED
      BY <3>1
  <2>2. /\ Tells(events, n + offset, decisions[n]) /\ decisions[n].armed \in Seq(STRING)
        /\ \E k \in 0..Len(events) : ExitsSaid(events, n + offset, decisions[n].armed, k)
    BY DEF StoryInv, PastTold
  <2>3. Tells(Append(events, x), n + offset, decisions[n])
    BY <1>1, <2>1, <2>2, SaidStill DEF Tells
  <2>4. PICK k \in 0..Len(events) : ExitsSaid(events, n + offset, decisions[n].armed, k)
    BY <2>2
  <2>5. k \in Nat /\ k \in 0..Len(events')
    BY <1>2
  <2>6. ExitsSaid(Append(events, x), n + offset, decisions[n].armed, k)
    BY <1>1, <2>1, <2>2, <2>4, <2>5, ExitsStill
  <2> QED
    BY <2>2, <2>3, <2>5, <2>6
<1>6. PastTold'
  BY <1>5, Zenon DEF PastTold, Tells, inputs
<1> QED
  BY <1>1, <1>2, <1>3, <1>4, <1>6

\* No exit of the bar is logged while its phase, stop and take rules are walked.
LEMMA NoExitYet ==
  ASSUME ReplayInv, StoryInv, UNCHANGED bars, stage \in {"phase", "stop", "take"},
         NEW x, x.bar = Len(bars), x.type # "runtime_exit_triggered",
         events' = Append(events, x)
  PROVE  Exits(events', Len(bars)) = {}
<1>1. x.bar \in 1..Len(bars) /\ Len(bars) \in Nat /\ Dated(events, Len(bars))
  BY StoryFacts DEF StoryInv
<1>2. Exits(events, Len(bars)) = {}
  BY DEF StoryInv, ArmedTold
<1>3. /\ Len(events) \in Nat /\ DOMAIN events = 1..Len(events)
      /\ DOMAIN events' = 1..Len(events) + 1
      /\ events'[Len(events) + 1] = x /\ \A e \in DOMAIN events : events'[e] = events[e]
  BY <1>1, OneMore
<1> QED
  BY <1>2, <1>3 DEF Exits

LEMMA NewBarStory ==
  ASSUME ReplayInv, StoryInv, NEW bar \in Bars, SkipEntryBar(bar) \/ NextBar(bar)
  PROVE  StoryInv'
<1>1. /\ bars \in Seq(Bars) /\ bars' = Append(bars, bar) /\ stage = "bar"
      /\ UNCHANGED <<inputs, armed, events, decisions>>
  BY DEF ReplayInv, TypeOK, SkipEntryBar, NextBar
<1>2. Len(bars') = Len(bars) + 1 /\ Len(bars) \in Nat
  BY <1>1
<1>3. trade'.phase = trade.phase /\ trade'.stop = trade.stop /\ trade'.profile = trade.profile
  BY StoryFacts DEF SkipEntryBar, NextBar, Trades
<1>4. Dated(events, Len(bars))
  BY DEF StoryInv
<1>5. Dated(events, Len(bars))'
  <2>1. \A n \in 1..Len(bars) : n \in 1..Len(bars) + 1
    BY <1>2
  <2> QED
    BY <1>1, <1>2, <1>4, <2>1 DEF Dated
<1>6. Paced'
  <2>1. Len(decisions) \in Nat /\ offset \in {0, 1}
    BY StoryFacts
  <2>2. IF Len(bars) < offset THEN Len(decisions) = 0 ELSE Len(decisions) + offset = Len(bars)
    BY <1>1 DEF StoryInv, Paced
  <2>3. \/ stage' = "bar" /\ Len(bars) < offset
        \/ stage' = "phase" /\ Len(bars) >= offset
    BY <1>1 DEF SkipEntryBar, NextBar
  <2> QED
    BY <1>1, <1>2, <2>1, <2>2, <2>3 DEF Paced, inputs
<1>7. TradeTold'
  <2>1. Tells(events, Len(bars) + 1, trade)
    BY <1>2, <1>4, SaidNextBar DEF StoryInv, TradeTold, Tells
  <2> QED
    BY <1>1, <1>2, <1>3, <2>1 DEF TradeTold, Tells, inputs
<1>8. PastTold'
  BY <1>1 DEF StoryInv, PastTold, Tells, inputs
<1>9. ArmedTold'
  <2>1. Exits(events, Len(bars) + 1) = {}
    BY <1>2, <1>4 DEF Exits, Dated
  <2>2. stage' \in {"bar", "phase"}
    BY <1>1 DEF SkipEntryBar, NextBar
  <2> QED
    BY <1>1, <1>2, <2>1, <2>2 DEF ArmedTold
<1>10. Chained(events)' /\ (decisions \in Seq(ToSet(decisions)))'
  BY <1>1 DEF StoryInv
<1> QED
  BY <1>5, <1>6, <1>7, <1>8, <1>9, <1>10 DEF StoryInv

LEMMA PhaseRuleStory == ASSUME ReplayInv, StoryInv, PhaseRule PROVE StoryInv'
<1>1. /\ UNCHANGED <<inputs, bars, stage, armed, decisions>> /\ stage = "phase"
  BY DEF PhaseRule
<1>2. CASE UNCHANGED <<trade, events>>
  <2>1. ArmedTold'
    BY <1>1, <1>2 DEF StoryInv, ArmedTold
  <2> QED
    BY <1>1, <1>2, <2>1, QuietStory
<1>3. CASE ~ UNCHANGED <<trade, events>>
  <2> DEFINE r == config.phase[at]
             x == Event("phase_changed", r.id, [from |-> trade.phase, to |-> r.to,
                                                path |-> WinningPath(r.condition)])
  <2>1. /\ trade' = [trade EXCEPT !.phase = r.to, !.maxPhase = Larger(@, r.to)]
        /\ events' = Append(events, x)
    BY <1>3 DEF PhaseRule
  <2>2. /\ x.bar = Len(bars) /\ x.type = "phase_changed" /\ x.detail.from = trade.phase
        /\ x.detail["to"] = r.to
    BY DEF Event
  <2>3. trade'.phase = r.to /\ trade'.stop = trade.stop /\ trade'.profile = trade.profile
    BY <2>1, StoryFacts DEF Trades
  <2> HIDE DEF x, r
  <2>4. /\ Dated(events, Len(bars))' /\ (decisions \in Seq(ToSet(decisions)))'
        /\ Paced' /\ PastTold' /\ Chained(events)' /\ x.bar \in 1..Len(bars)
    BY <1>1, <2>1, <2>2, LoggedStory
  <2>5. Len(bars) \in Nat /\ Dated(events, Len(bars)) /\ Tells(events, Len(bars), trade)
    BY StoryFacts DEF StoryInv, TradeTold
  <2>6. Tells(events', Len(bars), trade')
    <3>1. Says(events', "phase_changed", "to", Len(bars), 0, trade'.phase)
      <4>1. Says(Append(events, x), "phase_changed", "to", Len(bars), 0, x.detail["to"])
        BY <2>2, <2>4, <2>5, SaidLast
      <4> QED
        BY <2>1, <2>2, <2>3, <4>1
    <3>2. Says(events', "active_stop_updated", "price", Len(bars), initialStop, trade'.stop)
      <4>1. Says(events, "active_stop_updated", "price", Len(bars), initialStop, trade.stop)
        BY <2>5 DEF Tells
      <4> QED
        BY <2>1, <2>2, <2>3, <2>4, <2>5, <4>1, SaidStill
    <3>3. Says(events', "active_take_updated", "profile", Len(bars), "initial", trade'.profile)
      <4>1. Says(events, "active_take_updated", "profile", Len(bars), "initial", trade.profile)
        BY <2>5 DEF Tells
      <4> QED
        BY <2>1, <2>2, <2>3, <2>4, <2>5, <4>1, SaidStill
    <3> QED
      BY <1>1, <3>1, <3>2, <3>3 DEF Tells, inputs
  <2>7. TradeTold'
    BY <1>1, <2>6 DEF TradeTold, Tells, inputs
  <2>8. ArmedTold'
    <3>1. Exits(events', Len(bars)) = {}
      BY <1>1, <2>1, <2>2, NoExitYet
    <3> QED
      BY <1>1, <3>1 DEF ArmedTold
  <2> QED
    BY <2>4, <2>7, <2>8 DEF StoryInv
<1> QED
  BY <1>2, <1>3

LEMMA ChooseStopStory == ASSUME ReplayInv, StoryInv, ChooseStop PROVE StoryInv'
<1>1. /\ UNCHANGED <<inputs, bars, armed, decisions>> /\ stage = "stop" /\ stage' = "take"
  BY DEF ChooseStop
<1>2. CASE UNCHANGED <<trade, events>>
  <2>1. ArmedTold'
    BY <1>1, <1>2 DEF StoryInv, ArmedTold
  <2> QED
    BY <1>1, <1>2, <2>1, QuietStory
<1>3. CASE ~ UNCHANGED <<trade, events>>
  <2> DEFINE x == Event("active_stop_updated", Chosen.rule, [price |-> Tightened])
  <2>1. /\ trade' = [trade EXCEPT !.stop = Tightened, !.stopRule = Chosen.rule]
        /\ events' = Append(events, x)
    BY <1>3 DEF ChooseStop
  <2>2. /\ x.bar = Len(bars) /\ x.type = "active_stop_updated" /\ x.detail["price"] = Tightened
    BY DEF Event
  <2>3. trade'.phase = trade.phase /\ trade'.stop = Tightened /\ trade'.profile = trade.profile
    BY <2>1, StoryFacts DEF Trades
  <2> HIDE DEF x
  <2>4. /\ Dated(events, Len(bars))' /\ (decisions \in Seq(ToSet(decisions)))'
        /\ Paced' /\ PastTold' /\ Chained(events)' /\ x.bar \in 1..Len(bars)
    BY <1>1, <2>1, <2>2, LoggedStory
  <2>5. Len(bars) \in Nat /\ Dated(events, Len(bars)) /\ Tells(events, Len(bars), trade)
    BY StoryFacts DEF StoryInv, TradeTold
  <2>6. Tells(events', Len(bars), trade')
    <3>1. Says(events', "active_stop_updated", "price", Len(bars), initialStop, trade'.stop)
      <4>1. Says(Append(events, x), "active_stop_updated", "price", Len(bars), initialStop,
                 x.detail["price"])
        BY <2>2, <2>4, <2>5, SaidLast
      <4> QED
        BY <2>1, <2>2, <2>3, <4>1
    <3>2. Says(events', "phase_changed", "to", Len(bars), 0, trade'.phase)
      <4>1. Says(events, "phase_changed", "to", Len(bars), 0, trade.phase)
        BY <2>5 DEF Tells
      <4> QED
        BY <2>1, <2>2, <2>3, <2>4, <2>5, <4>1, SaidStill
    <3>3. Says(events', "active_take_updated", "profile", Len(bars), "initial", trade'.profile)
      <4>1. Says(events, "active_take_updated", "profile", Len(bars), "initial", trade.profile)
        BY <2>5 DEF Tells
      <4> QED
        BY <2>1, <2>2, <2>3, <2>4, <2>5, <4>1, SaidStill
    <3> QED
      BY <1>1, <3>1, <3>2, <3>3 DEF Tells, inputs
  <2>7. TradeTold'
    BY <1>1, <2>6 DEF TradeTold, Tells, inputs
  <2>8. ArmedTold'
    <3>1. Exits(events', Len(bars)) = {}
      BY <1>1, <2>1, <2>2, NoExitYet
    <3> QED
      BY <1>1, <3>1 DEF ArmedTold
  <2> QED
    BY <2>4, <2>7, <2>8 DEF StoryInv
<1> QED
  BY <1>2, <1>3

LEMMA TakeRuleStory == ASSUME ReplayInv, StoryInv, TakeRule PROVE StoryInv'
<1>1. /\ UNCHANGED <<inputs, bars, stage, armed, decisions>> /\ stage = "take"
  BY DEF TakeRule
<1>2. CASE UNCHANGED <<trade, events>>
  <2>1. ArmedTold'
    BY <1>1, <1>2 DEF StoryInv, ArmedTold
  <2> QED
    BY <1>1, <1>2, <2>1, QuietStory
<1>3. CASE ~ UNCHANGED <<trade, events>>
  <2> DEFINE r == config.take[at]
             x == Event("active_take_updated", r.id, [profile |-> Profile(r.action)])
  <2>1. /\ trade' = [trade EXCEPT !.profile = Profile(r.action), !.takeRule = r.id]
        /\ events' = Append(events, x)
    BY <1>3 DEF TakeRule
  <2>2. /\ x.bar = Len(bars) /\ x.type = "active_take_updated"
        /\ x.detail["profile"] = Profile(r.action)
    BY DEF Event
  <2>3. /\ trade'.phase = trade.phase /\ trade'.stop = trade.stop
        /\ trade'.profile = Profile(r.action)
    BY <2>1, StoryFacts DEF Trades
  <2> HIDE DEF x, r
  <2>4. /\ Dated(events, Len(bars))' /\ (decisions \in Seq(ToSet(decisions)))'
        /\ Paced' /\ PastTold' /\ Chained(events)' /\ x.bar \in 1..Len(bars)
    BY <1>1, <2>1, <2>2, LoggedStory
  <2>5. Len(bars) \in Nat /\ Dated(events, Len(bars)) /\ Tells(events, Len(bars), trade)
    BY StoryFacts DEF StoryInv, TradeTold
  <2>6. Tells(events', Len(bars), trade')
    <3>1. Says(events', "active_take_updated", "profile", Len(bars), "initial", trade'.profile)
      <4>1. Says(Append(events, x), "active_take_updated", "profile", Len(bars), "initial",
                 x.detail["profile"])
        BY <2>2, <2>4, <2>5, SaidLast
      <4> QED
        BY <2>1, <2>2, <2>3, <4>1
    <3>2. Says(events', "phase_changed", "to", Len(bars), 0, trade'.phase)
      <4>1. Says(events, "phase_changed", "to", Len(bars), 0, trade.phase)
        BY <2>5 DEF Tells
      <4> QED
        BY <2>1, <2>2, <2>3, <2>4, <2>5, <4>1, SaidStill
    <3>3. Says(events', "active_stop_updated", "price", Len(bars), initialStop, trade'.stop)
      <4>1. Says(events, "active_stop_updated", "price", Len(bars), initialStop, trade.stop)
        BY <2>5 DEF Tells
      <4> QED
        BY <2>1, <2>2, <2>3, <2>4, <2>5, <4>1, SaidStill
    <3> QED
      BY <1>1, <3>1, <3>2, <3>3 DEF Tells, inputs
  <2>7. TradeTold'
    BY <1>1, <2>6 DEF TradeTold, Tells, inputs
  <2>8. ArmedTold'
    <3>1. Exits(events', Len(bars)) = {}
      BY <1>1, <2>1, <2>2, NoExitYet
    <3> QED
      BY <1>1, <3>1 DEF ArmedTold
  <2> QED
    BY <2>4, <2>7, <2>8 DEF StoryInv
<1> QED
  BY <1>2, <1>3

LEMMA RuntimeRuleStory == ASSUME ReplayInv, StoryInv, RuntimeRule PROVE StoryInv'
<1>1. /\ UNCHANGED <<inputs, bars, stage, trade, decisions>> /\ stage = "runtime"
  BY DEF RuntimeRule
<1>2. CASE UNCHANGED <<armed, events>>
  <2>1. ArmedTold'
    BY <1>1, <1>2 DEF StoryInv, ArmedTold
  <2> QED
    BY <1>1, <1>2, <2>1, QuietStory
<1>3. CASE ~ UNCHANGED <<armed, events>>
  <2> DEFINE r == config.runtime[at]
             x == Event("runtime_exit_triggered", r.id, None)
  <2>1. armed' = Append(armed, r.id) /\ events' = Append(events, x)
    BY <1>3 DEF RuntimeRule
  <2>2. x.bar = Len(bars) /\ x.type = "runtime_exit_triggered" /\ x.rule = r.id
    BY DEF Event
  <2>3. r.id \in STRING
    <3>1. at \in DOMAIN config.runtime /\ config \in Configs
      BY ConfigFacts DEF ReplayInv, TypeOK, RuntimeRule
    <3> QED
      BY <3>1, ConfigFacts
  <2> HIDE DEF x, r
  <2>4. /\ Dated(events, Len(bars))' /\ (decisions \in Seq(ToSet(decisions)))'
        /\ Paced' /\ PastTold' /\ Chained(events)' /\ x.bar \in 1..Len(bars)
    BY <1>1, <2>1, <2>2, LoggedStory
  <2>5. Len(bars) \in Nat /\ Dated(events, Len(bars)) /\ Tells(events, Len(bars), trade)
    BY StoryFacts DEF StoryInv, TradeTold
  <2>6. Tells(Append(events, x), Len(bars), trade)
    BY <2>2, <2>4, <2>5, SaidStill DEF Tells
  <2>7. TradeTold'
    BY <1>1, <2>1, <2>6 DEF TradeTold, Tells, inputs
  <2>8. ArmedTold'
    <3>1. /\ Len(armed) <= Len(events)
          /\ ExitsSaid(events, Len(bars), armed, Len(events) - Len(armed))
      BY <1>1 DEF StoryInv, ArmedTold
    <3>2. armed \in Seq(STRING) /\ Len(armed) \in Nat /\ Len(events) \in Nat /\ Len(bars) # 0
      BY <1>1, StoryFacts
    <3>3. ExitsSaid(Append(events, x), Len(bars), Append(armed, x.rule), Len(events) - Len(armed))
      BY <2>2, <2>3, <2>5, <3>1, <3>2, ExitsMore
    <3>4. Len(events') = Len(events) + 1 /\ Len(armed') = Len(armed) + 1
      BY <2>1, <2>4, <2>5, <3>2, <2>3, OneMore
    <3>5. \A m, n \in Nat : m <= n => m + 1 <= n + 1 /\ (n + 1) - (m + 1) = n - m
      OBVIOUS
    <3>6. Len(armed') <= Len(events') /\ Len(events') - Len(armed') = Len(events) - Len(armed)
      BY <3>1, <3>2, <3>4, <3>5
    <3>7. ExitsSaid(events', Len(bars), armed', Len(events') - Len(armed'))
      BY <2>1, <2>2, <3>3, <3>6
    <3> QED
      BY <1>1, <3>6, <3>7 DEF ArmedTold
  <2> QED
    BY <2>4, <2>7, <2>8 DEF StoryInv
<1> QED
  BY <1>2, <1>3

LEMMA TakesDoneStory == ASSUME ReplayInv, StoryInv, TakesDone PROVE StoryInv'
<1>1. /\ UNCHANGED <<inputs, bars, trade, events, decisions>> /\ stage = "take"
      /\ stage' = "runtime" /\ armed' = <<>>
  BY DEF TakesDone
<1>2. Exits(events, Len(bars)) = {} /\ Len(events) \in Nat
  BY <1>1, StoryFacts DEF StoryInv, ArmedTold
<1>3. Len(armed') = 0 /\ DOMAIN armed' = {}
  BY <1>1
<1>4. ExitsSaid(events, Len(bars), armed', Len(events) - Len(armed'))
  BY <1>2, <1>3 DEF ExitsSaid
<1>5. ArmedTold'
  BY <1>1, <1>2, <1>3, <1>4 DEF ArmedTold
<1> QED
  BY <1>1, <1>5, QuietStory

LEMMA FinishBarStory == ASSUME ReplayInv, StoryInv, FinishBar PROVE StoryInv'
<1> DEFINE d == [phase |-> trade.phase, stop |-> trade.stop,
                 profile |-> trade.profile, armed |-> armed]
<1>1. /\ UNCHANGED <<inputs, bars, armed, events>> /\ stage = "runtime" /\ stage' = "bar"
      /\ trade' = [trade EXCEPT !.armed = armed] /\ decisions' = Append(decisions, d)
  BY DEF FinishBar
<1>2. /\ trade'.phase = trade.phase /\ trade'.stop = trade.stop /\ trade'.profile = trade.profile
  BY <1>1, StoryFacts DEF Trades
<1>3. /\ d.phase = trade.phase /\ d.stop = trade.stop /\ d.profile = trade.profile
      /\ d.armed = armed
  OBVIOUS
<1> HIDE DEF d
<1>4. /\ decisions' \in Seq(ToSet(decisions')) /\ Len(decisions) \in Nat
      /\ Len(decisions') = Len(decisions) + 1
      /\ DOMAIN decisions = 1..Len(decisions) /\ DOMAIN decisions' = 1..Len(decisions) + 1
      /\ decisions'[Len(decisions) + 1] = d
      /\ \A n \in DOMAIN decisions : decisions'[n] = decisions[n]
  <2> DEFINE S == ToSet(decisions) \cup {d}
  <2>1. decisions \in Seq(S)
    <3>1. decisions \in Seq(ToSet(decisions))
      BY DEF StoryInv
    <3> QED
      BY <3>1
  <2>2. d \in S
    OBVIOUS
  <2> HIDE DEF S
  <2>3. /\ decisions' \in Seq(S) /\ Len(decisions) \in Nat
        /\ Len(decisions') = Len(decisions) + 1
        /\ DOMAIN decisions = 1..Len(decisions) /\ DOMAIN decisions' = 1..Len(decisions) + 1
        /\ decisions'[Len(decisions) + 1] = d
        /\ \A n \in DOMAIN decisions : decisions'[n] = decisions[n]
    BY <1>1, <2>1, <2>2
  <2>4. decisions' \in Seq(ToSet(decisions'))
    BY <2>3 DEF ToSet
  <2> QED
    BY <2>3, <2>4
<1>5. /\ Len(bars) \in Nat /\ Len(events) \in Nat /\ Len(armed) \in Nat
      /\ offset \in {0, 1} /\ armed \in Seq(STRING)
  BY StoryFacts
<1>6. Len(decisions) + 1 + offset = Len(bars)
  <2>1. Len(decisions) + offset + 1 = Len(bars)
    BY <1>1 DEF StoryInv, Paced
  <2> QED
    BY <1>4, <1>5, <2>1
<1>7. Paced'
  <2>1. ~ (Len(bars) < offset) /\ Len(decisions') + offset = Len(bars)
    BY <1>4, <1>5, <1>6
  <2> QED
    BY <1>1, <2>1 DEF Paced, inputs
<1>8. Tells(events, Len(bars), trade)
  BY DEF StoryInv, TradeTold
<1>9. TradeTold'
  BY <1>1, <1>2, <1>8 DEF TradeTold, Tells, inputs
<1>10. ASSUME NEW n \in DOMAIN decisions'
       PROVE  /\ Tells(events, n + offset, decisions'[n])
              /\ decisions'[n].armed \in Seq(STRING)
              /\ \E k \in 0..Len(events) : ExitsSaid(events, n + offset, decisions'[n].armed, k)
  <2>1. CASE n \in DOMAIN decisions
    <3>1. /\ Tells(events, n + offset, decisions[n]) /\ decisions[n].armed \in Seq(STRING)
          /\ \E k \in 0..Len(events) : ExitsSaid(events, n + offset, decisions[n].armed, k)
      BY <2>1 DEF StoryInv, PastTold
    <3> QED
      BY <1>4, <2>1, <3>1
  <2>2. CASE n = Len(decisions) + 1
    <3>1. n + offset = Len(bars) /\ decisions'[n] = d
      BY <1>4, <1>6, <2>2
    <3>2. Tells(events, Len(bars), d)
      BY <1>3, <1>8 DEF Tells
    <3>3. /\ Len(armed) <= Len(events)
          /\ ExitsSaid(events, Len(bars), armed, Len(events) - Len(armed))
      BY <1>1 DEF StoryInv, ArmedTold
    <3>4. \A i, j \in Nat : i <= j => j - i \in 0..j
      OBVIOUS
    <3>5. Len(events) - Len(armed) \in 0..Len(events)
      BY <1>5, <3>3, <3>4
    <3> QED
      BY <1>3, <1>5, <3>1, <3>2, <3>3, <3>5
  <2> QED
    BY <1>4, <2>1, <2>2
<1>11. PastTold'
  BY <1>1, <1>10 DEF PastTold, Tells, inputs
<1>12. ArmedTold'
  BY <1>1 DEF ArmedTold
<1>13. Dated(events, Len(bars))' /\ Chained(events)'
  BY <1>1 DEF StoryInv
<1> QED
  BY <1>4, <1>7, <1>9, <1>11, <1>12, <1>13 DEF StoryInv

LEMMA StepStory == ReplayInv /\ StoryInv /\ [Next]_vars => StoryInv'
<1> SUFFICES ASSUME ReplayInv, StoryInv, [Next]_vars PROVE StoryInv'
  OBVIOUS
<1>1. ASSUME NEW bar \in Bars, SkipEntryBar(bar) \/ NextBar(bar) PROVE StoryInv'
  BY <1>1, NewBarStory
<1>2. CASE PhasesDone \/ StopRule
  <2>1. /\ UNCHANGED <<inputs, bars, trade, armed, events, decisions>>
        /\ stage \in {"phase", "stop"} /\ stage' = "stop"
    BY <1>2 DEF PhasesDone, StopRule
  <2>2. ArmedTold'
    BY <2>1 DEF StoryInv, ArmedTold
  <2> QED
    BY <2>1, <2>2, QuietStory
<1>3. CASE UNCHANGED vars
  <2>1. UNCHANGED <<inputs, bars, stage, trade, armed, events, decisions>>
    BY <1>3 DEF vars
  <2>2. ArmedTold'
    BY <2>1 DEF StoryInv, ArmedTold
  <2> QED
    BY <2>1, <2>2, QuietStory
<1> QED
  BY <1>1, <1>2, <1>3, PhaseRuleStory, ChooseStopStory, TakeRuleStory, TakesDoneStory,
     RuntimeRuleStory, FinishBarStory DEF Next

\* What a log says of a field is what Told reads in it: there is a last event.
LEMMA ToldIsSaid ==
  ASSUME StoryInv, NEW type, NEW field, NEW bar \in Int, NEW initial, NEW v,
         Says(events, type, field, bar, initial, v)
  PROVE  v = Told(type, field, bar, initial)
<1> DEFINE of == EventsOf(type, bar)
<1>1. of = Of(events, type, bar)
  BY DEF EventsOf, Of
<1>2. CASE of = {}
  BY <1>1, <1>2 DEF Says, Told
<1>3. CASE of # {}
  <2>1. DOMAIN events = 1..Len(events) /\ Len(events) \in Nat
    BY DEF StoryInv, Dated
  <2>2. of \in SUBSET Int /\ IsFiniteSet(of)
    <3>1. of \subseteq 1..Len(events)
      BY <2>1 DEF EventsOf
    <3>2. IsFiniteSet(1..Len(events))
      BY <2>1, FS_Interval
    <3> HIDE DEF of
    <3>3. IsFiniteSet(of)
      BY <3>1, <3>2, FS_Subset
    <3>4. of \in SUBSET Int
      BY <3>1
    <3> QED
      BY <3>3, <3>4
  <2> HIDE DEF of
  <2>3. \E m \in of : \A x \in of : x <= m
    <3>1. PICK m \in of : \A x \in of : m >= x
      BY <1>3, <2>2, GreatestNumber
    <3>2. \A x \in of : x <= m
      BY <2>2, <3>1
    <3> QED
      BY <3>2
  <2> DEFINE last == CHOOSE e \in of : \A f \in of : f <= e
  <2>4. last \in of /\ \A f \in of : f <= last
    BY <2>3
  <2>5. Told(type, field, bar, initial) = events[last].detail[field]
    BY <1>3 DEF Told, of
  <2> HIDE DEF last
  <2> QED
    BY <1>1, <2>4, <2>5 DEF Says
<1> QED
  BY <1>2, <1>3

\* A reader of the published events reconstructs the phase, stop, take profile and armed
\* exits of every per-bar decision, and the phase events chain, whatever the strategy,
\* the market and the length of the trade.
THEOREM EventsTellTheWholeStory == Spec => []EventsTellTheState
<1>1. ReplayInv /\ StoryInv => EventsTellTheState
  <2> SUFFICES ASSUME ReplayInv, StoryInv PROVE EventsTellTheState
    OBVIOUS
  <2>1. ASSUME NEW n \in DOMAIN decisions
        PROVE  /\ decisions[n].phase = Told("phase_changed", "to", n + offset, 0)
               /\ decisions[n].stop =
                    Told("active_stop_updated", "price", n + offset, initialStop)
               /\ decisions[n].profile =
                    Told("active_take_updated", "profile", n + offset, "initial")
    <3>1. n + offset \in Int
      BY StoryFacts
    <3>2. Tells(events, n + offset, decisions[n])
      BY DEF StoryInv, PastTold
    <3> QED
      BY <3>1, <3>2, ToldIsSaid DEF Tells
  <2>2. ASSUME NEW n \in DOMAIN decisions
        PROVE  \E k \in 0..Len(events) :
                 /\ {e \in DOMAIN events : events[e].type = "runtime_exit_triggered"
                                           /\ events[e].bar = n + offset}
                      = k + 1..k + Len(decisions[n].armed)
                 /\ \A i \in DOMAIN decisions[n].armed : decisions[n].armed[i] = events[k + i].rule
    BY DEF StoryInv, PastTold, ExitsSaid, Exits
  <2>3. Chained(events)
    BY DEF StoryInv
  <2> QED
    BY <2>1, <2>2, <2>3 DEF EventsTellTheState, Chained
<1>2. Spec => []StoryInv
  BY ReplayInvariance, InitStory, StepStory, PTL DEF Spec
<1> QED
  BY <1>1, <1>2, ReplayInvariance, PTL

--------------------------------------------------------------------------------
(* The projection of its strategy, and the policy derived from it.          *)

\* Nothing in the service checks it: it is the hypothesis of ReplayFollowsProjection.
Distinguishable == \A c \in Configs : ToldApart(c)

ConfigOK == Distinguishable /\ config \in Configs

LEMMA Sections ==
  ASSUME ConfigOK
  PROVE  /\ config.phase \in Seq(ToSet(config.phase)) /\ config.stop \in Seq(ToSet(config.stop))
         /\ config.take \in Seq(ToSet(config.take)) /\ config.runtime \in Seq(ToSet(config.runtime))
         /\ DOMAIN config.phase \subseteq Nat /\ DOMAIN config.stop \subseteq Nat
         /\ DOMAIN config.runtime \subseteq Nat
         /\ Apart(config.phase) /\ Apart(config.stop) /\ Apart(config.runtime)
         /\ \A n \in DOMAIN config.phase : config.phase[n] \in ToSet(config.phase)
         /\ \A n \in DOMAIN config.stop : config.stop[n] \in ToSet(config.stop)
         /\ \A n \in DOMAIN config.runtime : config.runtime[n] \in ToSet(config.runtime)
<1>1. config \in Configs
  BY DEF ConfigOK
<1>2. /\ config.phase \in Seq(ToSet(config.phase)) /\ config.stop \in Seq(ToSet(config.stop))
      /\ config.take \in Seq(ToSet(config.take)) /\ config.runtime \in Seq(ToSet(config.runtime))
  BY <1>1, ConfigFacts
<1>3. DOMAIN config.phase \subseteq Nat /\ DOMAIN config.stop \subseteq Nat
      /\ DOMAIN config.runtime \subseteq Nat
  BY <1>2
<1>4. Apart(config.phase) /\ Apart(config.stop) /\ Apart(config.runtime)
  BY DEF ConfigOK, Distinguishable, ToldApart
<1>5. /\ \A n \in DOMAIN config.phase : config.phase[n] \in ToSet(config.phase)
      /\ \A n \in DOMAIN config.stop : config.stop[n] \in ToSet(config.stop)
      /\ \A n \in DOMAIN config.runtime : config.runtime[n] \in ToSet(config.runtime)
  BY DEF ToSet
<1> QED
  BY <1>2, <1>3, <1>4, <1>5

--------------------------------------------------------------------------------
(* The projected rules: those of a section stand where the section begins. *)

LEMMA Joined ==
  ASSUME NEW S, NEW a \in Seq(S), NEW b \in Seq(S)
  PROVE  /\ a \o b \in Seq(S) /\ Len(a \o b) = Len(a) + Len(b)
         /\ Len(a) \in Nat /\ Len(b) \in Nat
         /\ DOMAIN (a \o b) = 1..Len(a) + Len(b)
         /\ \A n \in 1..Len(a) : (a \o b)[n] = a[n]
         /\ \A n \in 1..Len(b) : (a \o b)[Len(a) + n] = b[n]
  OBVIOUS

LEMMA FourJoined ==
  ASSUME NEW S, NEW a \in Seq(S), NEW b \in Seq(S), NEW c \in Seq(S), NEW d \in Seq(S),
         NEW R, R = ((a \o b) \o c) \o d
  PROVE  /\ DOMAIN R = 1..Len(a) + Len(b) + Len(c) + Len(d)
         /\ \A n \in 1..Len(a) : R[n] = a[n]
         /\ \A n \in 1..Len(b) : R[Len(a) + n] = b[n]
         /\ \A n \in 1..Len(c) : R[Len(a) + Len(b) + n] = c[n]
         /\ \A n \in 1..Len(d) : R[Len(a) + Len(b) + Len(c) + n] = d[n]
<1> DEFINE A == Len(a)
           B == Len(b)
           C == Len(c)
           D == Len(d)
<1>1. PICK ab : ab = a \o b
  OBVIOUS
<1>2. /\ ab \in Seq(S) /\ Len(ab) = A + B /\ A \in Nat /\ B \in Nat
      /\ \A n \in 1..A : ab[n] = a[n]
      /\ \A n \in 1..B : ab[A + n] = b[n]
  BY <1>1, Joined
<1>3. PICK abc : abc = ab \o c
  OBVIOUS
<1>4. /\ abc \in Seq(S) /\ Len(abc) = A + B + C /\ C \in Nat
      /\ \A n \in 1..A + B : abc[n] = ab[n]
      /\ \A n \in 1..C : abc[A + B + n] = c[n]
  <2>1. ab \in Seq(S)
    BY <1>2
  <2>2. /\ ab \o c \in Seq(S) /\ Len(ab \o c) = Len(ab) + Len(c) /\ Len(c) \in Nat
        /\ \A n \in 1..Len(ab) : (ab \o c)[n] = ab[n]
        /\ \A n \in 1..Len(c) : (ab \o c)[Len(ab) + n] = c[n]
    BY <2>1, Joined
  <2> QED
    BY <1>2, <1>3, <2>2
<1>5. R = abc \o d
  BY <1>1, <1>3
<1>6. /\ DOMAIN R = 1..A + B + C + D /\ D \in Nat
      /\ \A n \in 1..A + B + C : R[n] = abc[n]
      /\ \A n \in 1..D : R[A + B + C + n] = d[n]
  <2>1. abc \in Seq(S)
    BY <1>4
  <2>2. /\ DOMAIN (abc \o d) = 1..Len(abc) + Len(d) /\ Len(d) \in Nat
        /\ \A n \in 1..Len(abc) : (abc \o d)[n] = abc[n]
        /\ \A n \in 1..Len(d) : (abc \o d)[Len(abc) + n] = d[n]
    BY <2>1, Joined
  <2> QED
    BY <1>4, <1>5, <2>2
<1> HIDE DEF A, B, C, D
<1>7. ASSUME NEW n \in 1..A PROVE R[n] = a[n]
  BY <1>2, <1>4, <1>6, SMTT(30)
<1>8. ASSUME NEW n \in 1..B PROVE R[A + n] = b[n]
  <2>1. A + n \in 1..A + B /\ A + n \in 1..A + B + C
    BY <1>2, <1>4, SMTT(30)
  <2>2. R[A + n] = abc[A + n] /\ abc[A + n] = ab[A + n]
    BY <1>4, <1>6, <2>1
  <2> QED
    BY <1>2, <2>2
<1>9. ASSUME NEW n \in 1..C PROVE R[A + B + n] = c[n]
  <2>1. A + B + n \in 1..A + B + C
    BY <1>2, <1>4
  <2> QED
    BY <1>4, <1>6, <2>1
<1> QED
  BY <1>6, <1>7, <1>8, <1>9 DEF A, B, C, D

LEMMA MappedSeq ==
  ASSUME NEW s, NEW N \in Nat, DOMAIN s = 1..N, NEW t, t = [n \in DOMAIN s |-> t[n]], NEW S,
         \A n \in DOMAIN s : t[n] \in S
  PROVE  t \in Seq(S) /\ Len(t) = N
<1>2. t \in [1..N -> S]
  BY Zenon
<1> QED
  BY <1>2

NPhase == Len(config.phase)
NStop == Len(config.stop)
NTake == Len(config.take)
NExit == Len(config.runtime)

LEMMA RulesAre ==
  ASSUME ConfigOK
  PROVE  /\ NPhase \in Nat /\ NStop \in Nat /\ NTake \in Nat /\ NExit \in Nat
         /\ DOMAIN config.phase = 1..NPhase /\ DOMAIN config.stop = 1..NStop
         /\ DOMAIN config.take = 1..NTake /\ DOMAIN config.runtime = 1..NExit
         /\ DOMAIN ProjectedRules = 1..NPhase + NStop + NTake + NExit
         /\ \A n \in 1..NPhase : ProjectedRules[n] = ProjectedPhase(config.phase[n])
         /\ \A n \in 1..NStop : ProjectedRules[NPhase + n] = ProjectedStop(config.stop[n])
         /\ \A n \in 1..NTake : ProjectedRules[NPhase + NStop + n] = ProjectedTake(config.take[n])
         /\ \A n \in 1..NExit : ProjectedRules[NPhase + NStop + NTake + n] = ProjectedRuntime(config.runtime[n])
<1>1. PICK a : a = [n \in DOMAIN config.phase |-> ProjectedPhase(config.phase[n])]
  OBVIOUS
<1>2. PICK b : b = [n \in DOMAIN config.stop |-> ProjectedStop(config.stop[n])]
  OBVIOUS
<1>3. PICK c : c = [n \in DOMAIN config.take |-> ProjectedTake(config.take[n])]
  OBVIOUS
<1>4. PICK d : d = [n \in DOMAIN config.runtime |-> ProjectedRuntime(config.runtime[n])]
  OBVIOUS
<1>5. ProjectedRules = ((a \o b) \o c) \o d
  BY <1>1, <1>2, <1>3, <1>4 DEF ProjectedRules
<1>6. PICK S : /\ \A n \in DOMAIN config.phase : a[n] \in S
               /\ \A n \in DOMAIN config.stop : b[n] \in S
               /\ \A n \in DOMAIN config.take : c[n] \in S
               /\ \A n \in DOMAIN config.runtime : d[n] \in S
  <2> WITNESS {a[n] : n \in DOMAIN config.phase} \cup {b[n] : n \in DOMAIN config.stop}
         \cup {c[n] : n \in DOMAIN config.take} \cup {d[n] : n \in DOMAIN config.runtime}
  <2> QED
    OBVIOUS
<1>7. /\ NPhase \in Nat /\ NStop \in Nat /\ NTake \in Nat /\ NExit \in Nat
      /\ DOMAIN config.phase = 1..NPhase /\ DOMAIN config.stop = 1..NStop
      /\ DOMAIN config.take = 1..NTake /\ DOMAIN config.runtime = 1..NExit
  <2>1. /\ config.phase \in Seq(ToSet(config.phase)) /\ config.stop \in Seq(ToSet(config.stop))
        /\ config.take \in Seq(ToSet(config.take))
        /\ config.runtime \in Seq(ToSet(config.runtime))
    BY Sections
  <2> QED
    BY <2>1 DEF NPhase, NStop, NTake, NExit
<1>8. a \in Seq(S) /\ Len(a) = NPhase
  <2>1. a = [n \in DOMAIN config.phase |-> a[n]]
    BY <1>1
  <2>2. NPhase \in Nat /\ DOMAIN config.phase = 1..NPhase
    BY <1>7
  <2>3. \A n \in DOMAIN config.phase : a[n] \in S
    BY <1>6
  <2> QED
    BY <2>1, <2>2, <2>3, MappedSeq
<1>9. b \in Seq(S) /\ Len(b) = NStop
  <2>1. b = [n \in DOMAIN config.stop |-> b[n]]
    BY <1>2
  <2>2. NStop \in Nat /\ DOMAIN config.stop = 1..NStop
    BY <1>7
  <2>3. \A n \in DOMAIN config.stop : b[n] \in S
    BY <1>6
  <2> QED
    BY <2>1, <2>2, <2>3, MappedSeq
<1>10. c \in Seq(S) /\ Len(c) = NTake
  <2>1. c = [n \in DOMAIN config.take |-> c[n]]
    BY <1>3
  <2>2. NTake \in Nat /\ DOMAIN config.take = 1..NTake
    BY <1>7
  <2>3. \A n \in DOMAIN config.take : c[n] \in S
    BY <1>6
  <2> QED
    BY <2>1, <2>2, <2>3, MappedSeq
<1>11. d \in Seq(S) /\ Len(d) = NExit
  <2>1. d = [n \in DOMAIN config.runtime |-> d[n]]
    BY <1>4
  <2>2. NExit \in Nat /\ DOMAIN config.runtime = 1..NExit
    BY <1>7
  <2>3. \A n \in DOMAIN config.runtime : d[n] \in S
    BY <1>6
  <2> QED
    BY <2>1, <2>2, <2>3, MappedSeq
<1>13. a \in Seq(S) /\ b \in Seq(S) /\ c \in Seq(S) /\ d \in Seq(S)
  BY <1>8, <1>9, <1>10, <1>11
<1>14. /\ DOMAIN ProjectedRules = 1..Len(a) + Len(b) + Len(c) + Len(d)
       /\ \A n \in 1..Len(a) : ProjectedRules[n] = a[n]
       /\ \A n \in 1..Len(b) : ProjectedRules[Len(a) + n] = b[n]
       /\ \A n \in 1..Len(c) : ProjectedRules[Len(a) + Len(b) + n] = c[n]
       /\ \A n \in 1..Len(d) : ProjectedRules[Len(a) + Len(b) + Len(c) + n] = d[n]
  BY <1>5, <1>13, FourJoined
<1>12. /\ DOMAIN ProjectedRules = 1..NPhase + NStop + NTake + NExit
       /\ \A n \in 1..NPhase : ProjectedRules[n] = a[n]
       /\ \A n \in 1..NStop : ProjectedRules[NPhase + n] = b[n]
       /\ \A n \in 1..NTake : ProjectedRules[NPhase + NStop + n] = c[n]
       /\ \A n \in 1..NExit : ProjectedRules[NPhase + NStop + NTake + n] = d[n]
  BY <1>8, <1>9, <1>10, <1>11, <1>14
<1> QED
  BY <1>1, <1>2, <1>3, <1>4, <1>7, <1>12

OfKindIn(R, kind) == {n \in DOMAIN R : R[n].kind = kind}
Behind(m, k) == {m + n : n \in 1..k}

\* Rules that come section by section.
Sectioned(R, p, s, t, q) ==
  /\ p \in Nat /\ s \in Nat /\ t \in Nat /\ q \in Nat
  /\ DOMAIN R = 1..p + s + t + q
  /\ \A n \in 1..p : R[n].kind = "phase_transition"
  /\ \A n \in 1..s : R[p + n].kind = "stop_action"
  /\ \A n \in 1..t : R[p + s + n].kind = "take_action"
  /\ \A n \in 1..q : R[p + s + t + n].kind = "runtime_exit"

\* Where the rules of a kind are, in rules that come section by section.
LEMMA KindsStand ==
  ASSUME NEW R, NEW p, NEW s, NEW t, NEW q, Sectioned(R, p, s, t, q)
  PROVE  /\ OfKindIn(R, "phase_transition") = 1..p
         /\ OfKindIn(R, "stop_action") = Behind(p, s)
         /\ OfKindIn(R, "take_action") = Behind(p + s, t)
         /\ OfKindIn(R, "runtime_exit") = Behind(p + s + t, q)
<1>0. /\ p \in Nat /\ s \in Nat /\ t \in Nat /\ q \in Nat
      /\ DOMAIN R = 1..p + s + t + q
      /\ \A n \in 1..p : R[n].kind = "phase_transition"
      /\ \A n \in 1..s : R[p + n].kind = "stop_action"
      /\ \A n \in 1..t : R[p + s + n].kind = "take_action"
      /\ \A n \in 1..q : R[p + s + t + n].kind = "runtime_exit"
  BY DEF Sectioned
<1>1. ASSUME NEW m \in DOMAIN R
      PROVE  \/ m \in 1..p /\ R[m].kind = "phase_transition"
             \/ (\E n \in 1..s : m = p + n) /\ R[m].kind = "stop_action"
             \/ (\E n \in 1..t : m = p + s + n) /\ R[m].kind = "take_action"
             \/ (\E n \in 1..q : m = p + s + t + n) /\ R[m].kind = "runtime_exit"
  <2>1. m \in 1..p + s + t + q
    BY <1>0
  <2>2. CASE m <= p
    BY <1>0, <2>1, <2>2
  <2>3. CASE p < m /\ m <= p + s
    <3>1. PICK n \in 1..s : m = p + n
      <4>1. m - p \in 1..s /\ m = p + (m - p)
        BY <1>0, <2>1, <2>3
      <4> QED
        BY <4>1
    <3> QED
      BY <1>0, <3>1
  <2>4. CASE p + s < m /\ m <= p + s + t
    <3>1. PICK n \in 1..t : m = p + s + n
      <4>1. m - (p + s) \in 1..t /\ m = p + s + (m - (p + s))
        BY <1>0, <2>1, <2>4
      <4> QED
        BY <4>1
    <3> QED
      BY <1>0, <3>1
  <2>5. CASE p + s + t < m
    <3>1. PICK n \in 1..q : m = p + s + t + n
      <4>1. m - (p + s + t) \in 1..q /\ m = p + s + t + (m - (p + s + t))
        BY <1>0, <2>1, <2>5
      <4> QED
        BY <4>1
    <3> QED
      BY <1>0, <3>1
  <2>6. m <= p \/ (p < m /\ m <= p + s) \/ (p + s < m /\ m <= p + s + t) \/ p + s + t < m
    BY <1>0, <2>1
  <2> QED
    BY <2>2, <2>3, <2>4, <2>5, <2>6
<1>2. /\ \A n \in 1..p : n \in DOMAIN R
      /\ \A n \in 1..s : p + n \in DOMAIN R
      /\ \A n \in 1..t : p + s + n \in DOMAIN R
      /\ \A n \in 1..q : p + s + t + n \in DOMAIN R
  BY <1>0
<1>3. OfKindIn(R, "phase_transition") = 1..p
  BY <1>0, <1>1, <1>2 DEF OfKindIn
<1>4. OfKindIn(R, "stop_action") = Behind(p, s)
  <2>1. ASSUME NEW m \in DOMAIN R, R[m].kind = "stop_action" PROVE m \in Behind(p, s)
    BY <1>1, <2>1 DEF Behind, OfKindIn
  <2>2. ASSUME NEW n \in 1..s PROVE p + n \in DOMAIN R /\ R[p + n].kind = "stop_action"
    <3>1. p + n \in DOMAIN R
      BY <1>2
    <3>2. R[p + n].kind = "stop_action"
      BY <1>0
    <3> QED
      BY <3>1, <3>2
  <2> QED
    BY <2>1, <2>2 DEF OfKindIn, Behind
<1>5. OfKindIn(R, "take_action") = Behind(p + s, t)
  <2>1. ASSUME NEW m \in DOMAIN R, R[m].kind = "take_action" PROVE m \in Behind(p + s, t)
    BY <1>1, <2>1 DEF Behind, OfKindIn
  <2>2. ASSUME NEW n \in 1..t PROVE p + s + n \in DOMAIN R /\ R[p + s + n].kind = "take_action"
    <3>1. p + s + n \in DOMAIN R
      BY <1>2
    <3>2. R[p + s + n].kind = "take_action"
      BY <1>0
    <3> QED
      BY <3>1, <3>2
  <2> QED
    BY <2>1, <2>2 DEF OfKindIn, Behind
<1>6. OfKindIn(R, "runtime_exit") = Behind(p + s + t, q)
  <2>1. ASSUME NEW m \in DOMAIN R, R[m].kind = "runtime_exit" PROVE m \in Behind(p + s + t, q)
    BY <1>1, <2>1 DEF Behind, OfKindIn
  <2>2. ASSUME NEW n \in 1..q PROVE p + s + t + n \in DOMAIN R /\ R[p + s + t + n].kind = "runtime_exit"
    <3>1. p + s + t + n \in DOMAIN R
      BY <1>2
    <3>2. R[p + s + t + n].kind = "runtime_exit"
      BY <1>0
    <3> QED
      BY <3>1, <3>2
  <2> QED
    BY <2>1, <2>2 DEF OfKindIn, Behind
<1> QED
  BY <1>3, <1>4, <1>5, <1>6

LEMMA OfKindIs ==
  ASSUME ConfigOK
  PROVE  /\ Policy!OfKind("phase_transition") = 1..NPhase
         /\ Policy!OfKind("stop_action") = Behind(NPhase, NStop)
         /\ Policy!OfKind("take_action") = Behind(NPhase + NStop, NTake)
         /\ Policy!OfKind("runtime_exit") = Behind(NPhase + NStop + NTake, NExit)
<1>1. /\ NPhase \in Nat /\ NStop \in Nat /\ NTake \in Nat /\ NExit \in Nat
      /\ DOMAIN ProjectedRules = 1..NPhase + NStop + NTake + NExit
      /\ \A n \in 1..NPhase : ProjectedRules[n] = ProjectedPhase(config.phase[n])
      /\ \A n \in 1..NStop : ProjectedRules[NPhase + n] = ProjectedStop(config.stop[n])
      /\ \A n \in 1..NTake : ProjectedRules[NPhase + NStop + n] = ProjectedTake(config.take[n])
      /\ \A n \in 1..NExit : ProjectedRules[NPhase + NStop + NTake + n] = ProjectedRuntime(config.runtime[n])
  BY RulesAre
<1>2. /\ \A r : ProjectedPhase(r).kind = "phase_transition"
      /\ \A r : ProjectedStop(r).kind = "stop_action"
      /\ \A r : ProjectedTake(r).kind = "take_action"
      /\ \A r : ProjectedRuntime(r).kind = "runtime_exit"
  BY DEF ProjectedPhase, ProjectedStop, ProjectedTake, ProjectedRuntime
<1>3. /\ OfKindIn(ProjectedRules, "phase_transition") = 1..NPhase
      /\ OfKindIn(ProjectedRules, "stop_action")
           = Behind(NPhase, NStop)
      /\ OfKindIn(ProjectedRules, "take_action")
           = Behind(NPhase + NStop, NTake)
      /\ OfKindIn(ProjectedRules, "runtime_exit")
           = Behind(NPhase + NStop + NTake, NExit)
  <2>1. Sectioned(ProjectedRules, NPhase, NStop, NTake, NExit)
    BY <1>1, <1>2 DEF Sectioned
  <2> QED
    BY <2>1, KindsStand
<1> QED
  BY <1>3 DEF Policy!OfKind, OfKindIn
--------------------------------------------------------------------------------
(* The series: each belongs to one rule, whatever the writers of its section. *)

LEMMA OnlyOne ==
  ASSUME NEW section, Apart(section), NEW writers \in SUBSET DOMAIN section,
         DOMAIN section \subseteq Nat, NEW n \in writers
  PROVE  /\ LastOf(section, section[n].id, writers) = section[n]
         /\ FirstOf(section, section[n].id, writers) = section[n]
<1>1. {m \in writers : section[m].id = section[n].id} = {n}
  BY DEF Apart
<1>2. Max({n}) = n /\ Min({n}) = n
  BY DEF Max, Min
<1> QED
  BY <1>1, <1>2 DEF LastOf, FirstOf

\* What the writers of a section are.
LEMMA Writers ==
  ASSUME ConfigOK
  PROVE  /\ Gates \in SUBSET DOMAIN config.phase /\ TradeAtoms \in SUBSET DOMAIN config.phase
         /\ Composed \in SUBSET DOMAIN config.phase /\ InitialRs \in SUBSET DOMAIN config.stop
         /\ \A x : WithChild(x) \in SUBSET DOMAIN config.phase
         /\ \A x : WithPath(x) \in SUBSET DOMAIN config.phase
  BY DEF Gates, TradeAtoms, Composed, InitialRs, WithChild, WithPath

LEMMA OnlyPhase ==
  ASSUME ConfigOK, NEW writers \in SUBSET DOMAIN config.phase, NEW n \in writers
  PROVE  /\ LastOf(config.phase, config.phase[n].id, writers) = config.phase[n]
         /\ FirstOf(config.phase, config.phase[n].id, writers) = config.phase[n]
<1>1. Apart(config.phase) /\ DOMAIN config.phase \subseteq Nat
  BY Sections
<1> QED
  BY <1>1, OnlyOne

LEMMA OnlyStop ==
  ASSUME ConfigOK, NEW writers \in SUBSET DOMAIN config.stop, NEW n \in writers
  PROVE  LastOf(config.stop, config.stop[n].id, writers) = config.stop[n]
<1>1. Apart(config.stop) /\ DOMAIN config.stop \subseteq Nat
  BY Sections
<1> QED
  BY <1>1, OnlyOne

LEMMA OnlyExit ==
  ASSUME ConfigOK, NEW n \in DOMAIN config.runtime
  PROVE  LastOf(config.runtime, config.runtime[n].id, DOMAIN config.runtime) = config.runtime[n]
<1>1. Apart(config.runtime) /\ DOMAIN config.runtime \subseteq Nat
  BY Sections
<1> QED
  BY <1>1, OnlyOne

LEMMA TheChild ==
  ASSUME ConfigOK, NEW n \in Composed, NEW ref \in DOMAIN config.phase[n].condition.children
  PROVE  ChildOf(<<"child", config.phase[n].id, ref>>) = config.phase[n].condition.children[ref]
<1>1. WithChild(ref) \in SUBSET DOMAIN config.phase /\ n \in WithChild(ref)
  BY Writers DEF WithChild
<1>2. FirstOf(config.phase, config.phase[n].id, WithChild(ref)) = config.phase[n]
  BY <1>1, OnlyPhase
<1> QED
  BY <1>2 DEF ChildOf

\* The sections of the conditions of a bar are told apart by the tag of the key.
LEMMA Tags ==
  /\ \A tag, section, writers : \A k \in Keys(section, tag, writers) : k[1] = tag
  /\ \A k \in PathKeys : k[1] = "path"
  /\ \A k \in ChildKeys : k[1] = "child"
  BY DEF Keys, PathKeys, ChildKeys

LEMMA GateHolds ==
  ASSUME ConfigOK, NEW n \in Gates, NEW bar
  PROVE  <<"phase", config.phase[n].id>> \in ConditionsAt(bar)
           <=> MarketMet(config.phase[n].condition, bar)
<1> DEFINE key == <<"phase", config.phase[n].id>>
<1>1. key \in Keys(config.phase, "phase", Gates) /\ key[1] = "phase" /\ key[2] = config.phase[n].id
  BY DEF Keys
<1>2. LastOf(config.phase, key[2], Gates) = config.phase[n]
  BY <1>1, Writers, OnlyPhase
<1>3. /\ key \notin PathKeys /\ key \notin ChildKeys
      /\ key \notin Keys(config.runtime, "runtime", DOMAIN config.runtime)
  BY <1>1, Tags
<1> HIDE DEF key
<1>4. key \in ConditionsAt(bar) <=> MarketMet(LastOf(config.phase, key[2], Gates).condition, bar)
  BY <1>1, <1>3 DEF ConditionsAt
<1> QED
  BY <1>2, <1>4 DEF key

LEMMA PathHolds ==
  ASSUME ConfigOK, NEW n \in Composed, NEW p \in DOMAIN config.phase[n].condition.paths, NEW bar
  PROVE  LET c == config.phase[n].condition
         IN  <<"path", config.phase[n].id, p>> \in ConditionsAt(bar)
               <=> HasMarketPart(c, c.paths[p]) /\ FoldedMask(c, c.paths[p], bar)
<1> DEFINE key == <<"path", config.phase[n].id, p>>
<1>1. key \in PathKeys /\ key[1] = "path" /\ key[2] = config.phase[n].id /\ key[3] = p
  BY DEF PathKeys
<1>2. n \in WithPath(p) /\ WithPath(p) \in SUBSET DOMAIN config.phase
  BY Writers DEF WithPath
<1>3. LastOf(config.phase, config.phase[n].id, WithPath(p)) = config.phase[n]
  BY <1>2, OnlyPhase
<1>4. /\ key \notin Keys(config.phase, "phase", Gates) /\ key \notin ChildKeys
      /\ key \notin Keys(config.runtime, "runtime", DOMAIN config.runtime)
  BY <1>1, Tags
<1> HIDE DEF key
<1>5. key \in ConditionsAt(bar) <=> PathMask(key, bar)
  BY <1>1, <1>4 DEF ConditionsAt
<1>6. PathMask(key, bar) <=> /\ HasMarketPart(config.phase[n].condition, config.phase[n].condition.paths[p])
                             /\ FoldedMask(config.phase[n].condition, config.phase[n].condition.paths[p], bar)
  BY <1>1, <1>3 DEF PathMask
<1> QED
  BY <1>5, <1>6 DEF key

LEMMA ChildHolds ==
  ASSUME ConfigOK, NEW n \in Composed, NEW ref \in DOMAIN config.phase[n].condition.children,
         config.phase[n].condition.children[ref].kind \in MarketKinds, NEW bar
  PROVE  <<"child", config.phase[n].id, ref>> \in ConditionsAt(bar)
           <=> MarketMet(config.phase[n].condition.children[ref], bar)
<1> DEFINE key == <<"child", config.phase[n].id, ref>>
<1>1. key \in ChildKeys /\ key[1] = "child"
  BY DEF ChildKeys
<1>2. ChildOf(key) = config.phase[n].condition.children[ref]
  BY TheChild
<1>3. /\ key \notin Keys(config.phase, "phase", Gates) /\ key \notin PathKeys
      /\ key \notin Keys(config.runtime, "runtime", DOMAIN config.runtime)
  BY <1>1, Tags
<1> HIDE DEF key
<1>4. key \in ConditionsAt(bar) <=> IsMarketChild(key) /\ MarketMet(ChildOf(key), bar)
  BY <1>1, <1>3 DEF ConditionsAt
<1> QED
  BY <1>2, <1>4 DEF key, IsMarketChild

LEMMA ExitHolds ==
  ASSUME ConfigOK, NEW n \in DOMAIN config.runtime, NEW bar
  PROVE  <<"runtime", config.runtime[n].id>> \in ConditionsAt(bar)
           <=> RuntimeCondition(config.runtime[n], bar)
<1> DEFINE key == <<"runtime", config.runtime[n].id>>
<1>1. /\ key \in Keys(config.runtime, "runtime", DOMAIN config.runtime)
      /\ key[1] = "runtime" /\ key[2] = config.runtime[n].id
  BY DEF Keys
<1>2. LastOf(config.runtime, key[2], DOMAIN config.runtime) = config.runtime[n]
  BY <1>1, OnlyExit
<1>3. /\ key \notin Keys(config.phase, "phase", Gates) /\ key \notin PathKeys
      /\ key \notin ChildKeys
  BY <1>1, Tags
<1> HIDE DEF key
<1>4. key \in ConditionsAt(bar)
        <=> RuntimeCondition(LastOf(config.runtime, key[2], DOMAIN config.runtime), bar)
  BY <1>1, <1>3 DEF ConditionsAt
<1> QED
  BY <1>2, <1>4 DEF key

\* The distances of a bar.
LEMMA Distances ==
  ASSUME NEW bar, NEW key \in DistanceKeys
  PROVE  Reading(bar).distances[key] = DistanceAt(key, bar)
  BY DEF Reading

LEMMA AtomDistance ==
  ASSUME ConfigOK, NEW n \in TradeAtoms, NEW bar
  PROVE  Reading(bar).distances[<<"phase", config.phase[n].id>>]
           = Threshold(config.phase[n].condition, bar)
<1> DEFINE key == <<"phase", config.phase[n].id>>
<1>1. key \in DistanceKeys
  BY DEF DistanceKeys, Keys
<1>2. key[1] = "phase" /\ key[2] = config.phase[n].id
  OBVIOUS
<1>3. LastOf(config.phase, config.phase[n].id, TradeAtoms) = config.phase[n]
  BY Writers, OnlyPhase
<1> HIDE DEF key
<1>4. DistanceAt(key, bar) = Threshold(config.phase[n].condition, bar)
  BY <1>2, <1>3 DEF DistanceAt
<1> QED
  BY <1>1, <1>4, Distances DEF key

LEMMA ChildDistance ==
  ASSUME ConfigOK, NEW n \in Composed, NEW ref \in DOMAIN config.phase[n].condition.children,
         config.phase[n].condition.children[ref].kind \notin MarketKinds, NEW bar
  PROVE  Reading(bar).distances[<<"child", config.phase[n].id, ref>>]
           = Threshold(config.phase[n].condition.children[ref], bar)
<1> DEFINE key == <<"child", config.phase[n].id, ref>>
<1>1. ChildOf(key) = config.phase[n].condition.children[ref]
  BY TheChild
<1>2. key \in ChildKeys /\ key[1] = "child"
  BY DEF ChildKeys
<1> HIDE DEF key
<1>3. key \in DistanceKeys
  BY <1>1, <1>2 DEF DistanceKeys, IsMarketChild
<1>4. DistanceAt(key, bar) = Threshold(config.phase[n].condition.children[ref], bar)
  BY <1>1, <1>2 DEF DistanceAt
<1> QED
  BY <1>3, <1>4, Distances DEF key

LEMMA StopDistances ==
  ASSUME ConfigOK, NEW n \in DOMAIN config.stop, NEW bar
  PROVE  /\ Reading(bar).distances[<<"stop", config.stop[n].id>>]
              = StopDistance(config.stop[n], bar)
         /\ n \in InitialRs =>
              Reading(bar).distances[<<"trigger", config.stop[n].id>>] = config.stop[n].trigger
<1> DEFINE d == <<"stop", config.stop[n].id>>
           t == <<"trigger", config.stop[n].id>>
<1>1. d \in DistanceKeys /\ (n \in InitialRs => t \in DistanceKeys)
  BY DEF DistanceKeys, Keys
<1>2. d[1] = "stop" /\ d[2] = config.stop[n].id /\ t[1] = "trigger" /\ t[2] = config.stop[n].id
  OBVIOUS
<1>3. LastOf(config.stop, config.stop[n].id, DOMAIN config.stop) = config.stop[n]
  BY OnlyStop
<1>4. n \in InitialRs => LastOf(config.stop, config.stop[n].id, InitialRs) = config.stop[n]
  BY Writers, OnlyStop
<1> HIDE DEF d, t
<1>5. DistanceAt(d, bar) = StopDistance(config.stop[n], bar)
  BY <1>2, <1>3 DEF DistanceAt
<1>6. n \in InitialRs => DistanceAt(t, bar) = config.stop[n].trigger
  BY <1>2, <1>4 DEF DistanceAt
<1> QED
  BY <1>1, <1>5, <1>6, Distances DEF d, t
--------------------------------------------------------------------------------
(* A condition of the replay and a term of the policy, on the current bar. *)

\* The readings of the bars the trade has seen, the current one included.
Rs == [n \in DOMAIN bars |-> Reading(bars[n])]

\* The extreme of the replay is the best price of the evaluated bars.
BestIs ==
  LET seen == (1 + offset)..Len(bars)
  IN  IF side = "long"
      THEN /\ trade.best = Entry \/ \E j \in seen : trade.best = bars[j].high
           /\ trade.best >= Entry /\ \A j \in seen : trade.best >= bars[j].high
      ELSE /\ trade.best = Entry \/ \E j \in seen : trade.best = bars[j].low
           /\ Entry >= trade.best /\ \A j \in seen : bars[j].low >= trade.best

\* A bar in progress.
InBar ==
  /\ ReplayInv /\ ConfigOK /\ BestIs
  /\ stage # "bar" /\ Len(bars) >= 1 + offset /\ trade.barsInTrade = Len(bars)

LEMMA MaxIs ==
  ASSUME NEW S, S \subseteq Int, NEW m \in S, \A x \in S : m >= x PROVE Max(S) = m
<1>1. \A x \in S : (\A y \in S : x >= y) => x = m
  OBVIOUS
<1> QED
  BY <1>1 DEF Max

LEMMA MinIs ==
  ASSUME NEW S, S \subseteq Int, NEW m \in S, \A x \in S : x >= m PROVE Min(S) = m
<1>1. \A x \in S : (\A y \in S : x =< y) => x = m
  OBVIOUS
<1>2. \A y \in S : m =< y
  OBVIOUS
<1> QED
  BY <1>1, <1>2 DEF Min

LEMMA SameExtremes == \A S : Policy!Max(S) = Max(S) /\ Policy!Min(S) = Min(S)
  BY DEF Policy!Max, Policy!Min, Max, Min

LEMMA SameSizes == \A S : Policy!Cardinality(S) = Cardinality(S)
  BY DEF Policy!Cardinality, Cardinality

LEMMA RsAre ==
  ASSUME ReplayInv
  PROVE  /\ Len(bars) \in Nat /\ DOMAIN bars = 1..Len(bars) /\ Len(Rs) = Len(bars)
         /\ offset \in {0, 1} /\ side \in {"long", "short"} /\ initialStop \in Int \cup {None}
         /\ trade.best \in Int
         /\ \A j \in 1..Len(bars) :
              /\ Rs[j] = Reading(bars[j]) /\ Rs[j].high = bars[j].high /\ Rs[j].low = bars[j].low
              /\ Rs[j].conditions = ConditionsAt(bars[j])
              /\ Rs[j].distances = Reading(bars[j]).distances
              /\ bars[j].high \in Int /\ bars[j].low \in Int /\ bars[j].atr \in Int \cup {None}
<1>1. /\ bars \in Seq(Bars) /\ offset \in {0, 1} /\ side \in {"long", "short"}
      /\ initialStop \in Int \cup {None} /\ trade.best \in Int
  BY DEF ReplayInv, TypeOK, Price
<1>2. Len(bars) \in Nat /\ DOMAIN bars = 1..Len(bars) /\ \A j \in 1..Len(bars) : bars[j] \in Bars
  BY <1>1
<1>3. Len(Rs) = Len(bars)
  <2>1. Rs = [n \in DOMAIN bars |-> Rs[n]]
    BY DEF Rs
  <2>2. \A n \in DOMAIN bars : Rs[n] \in {Rs[m] : m \in DOMAIN bars}
    OBVIOUS
  <2> QED
    BY <1>2, <2>1, <2>2, MappedSeq
<1>4. \A j \in 1..Len(bars) : Rs[j] = Reading(bars[j])
  BY <1>2 DEF Rs
<1>5. \A b : Reading(b).high = b.high /\ Reading(b).low = b.low
             /\ Reading(b).conditions = ConditionsAt(b)
  BY DEF Reading
<1>6. \A b \in Bars : b.high \in Int /\ b.low \in Int /\ b.atr \in Int \cup {None}
  BY ConfigAssumption
<1> QED
  BY <1>1, <1>2, <1>3, <1>4, <1>5, <1>6

LEMMA BestAgrees == ASSUME ReplayInv, BestIs PROVE Policy!Best(Rs) = trade.best
<1>1. /\ Len(Rs) = Len(bars) /\ Len(bars) \in Nat /\ offset \in {0, 1} /\ trade.best \in Int
      /\ \A j \in 1..Len(bars) : /\ Rs[j].high = bars[j].high /\ Rs[j].low = bars[j].low
                                 /\ bars[j].high \in Int /\ bars[j].low \in Int
  BY RsAre
<1>2. \A j \in (1 + offset)..Len(bars) : j \in 1..Len(bars)
  BY <1>1
<1>3. Entry \in Int
  BY ReplayAssumption
<1>4. CASE side = "long"
  <2> DEFINE S == {Entry} \cup {Rs[j].high : j \in (1 + offset)..Len(Rs)}
  <2>1. S \subseteq Int /\ trade.best \in S /\ \A x \in S : trade.best >= x
    BY <1>1, <1>2, <1>3, <1>4 DEF BestIs
  <2> HIDE DEF S
  <2>2. Max(S) = trade.best
    BY <2>1, MaxIs
  <2> QED
    BY <1>4, <2>2, SameExtremes DEF Policy!Best, S
<1>5. CASE side # "long"
  <2> DEFINE S == {Entry} \cup {Rs[j].low : j \in (1 + offset)..Len(Rs)}
  <2>1. S \subseteq Int /\ trade.best \in S /\ \A x \in S : x >= trade.best
    BY <1>1, <1>2, <1>3, <1>5 DEF BestIs
  <2> HIDE DEF S
  <2>2. Min(S) = trade.best
    BY <2>1, MinIs
  <2> QED
    BY <1>5, <2>2, SameExtremes DEF Policy!Best, S
<1> QED
  BY <1>4, <1>5

LEMMA ExcursionAgrees ==
  ASSUME ReplayInv, BestIs
  PROVE  Policy!Excursion(Rs) = Excursion /\ Excursion \in Int
<1>1. Policy!Best(Rs) = trade.best /\ trade.best \in Int /\ Entry \in Int
  BY BestAgrees, RsAre, ReplayAssumption
<1>2. IF side = "long" THEN trade.best >= Entry ELSE Entry >= trade.best
  BY DEF BestIs
<1> QED
  BY <1>1, <1>2 DEF Policy!Excursion, Excursion, Distance, MfePrice

LEMMA RiskAgrees ==
  ASSUME ReplayInv
  PROVE  /\ Policy!InitialRisk = InitialRisk /\ (Policy!RiskKnown <=> RiskKnown)
         /\ RiskKnown => InitialRisk \in Nat
<1>1. initialStop \in Int \cup {None} /\ Entry \in Int /\ None \notin Int
  BY RsAre, ReplayAssumption
<1>2. Policy!InitialRisk = InitialRisk
  BY <1>1 DEF Policy!InitialRisk, InitialRisk, Distance
<1>3. Policy!RiskKnown <=> RiskKnown
  BY <1>2 DEF Policy!RiskKnown, RiskKnown
<1>4. RiskKnown => InitialRisk \in Nat
  BY <1>1 DEF RiskKnown, InitialRisk, Distance
<1> QED
  BY <1>2, <1>3, <1>4

LEMMA InBarFacts ==
  ASSUME InBar
  PROVE  /\ ReplayInv /\ ConfigOK /\ Len(bars) \in 1..Len(bars) /\ 1 \in 1..Len(bars)
         /\ Len(Rs) = Len(bars) /\ Bar = bars[Len(bars)] /\ trade.barsInTrade = Len(bars)
         /\ Bar.atr \in Int \cup {None}
<1>1. ReplayInv /\ ConfigOK /\ Len(bars) >= 1 + offset /\ trade.barsInTrade = Len(bars)
  BY DEF InBar
<1>2. Len(bars) \in Nat /\ offset \in {0, 1}
  BY <1>1, RsAre
<1>3. Len(bars) \in 1..Len(bars) /\ 1 \in 1..Len(bars)
  BY <1>1, <1>2
<1>4. Bar = bars[Len(bars)]
  BY DEF Bar
<1> QED
  BY <1>1, <1>3, <1>4, RsAre

\* A threshold of the trade, whatever the series its distances come from.
LEMMA TradeTermMet ==
  ASSUME InBar, NEW c, c.kind \in TradeKinds \cup {"change_since_entry"}, c.threshold \in Int,
         NEW key, Rs[1].distances[key] = Threshold(c, bars[1]),
         Rs[Len(bars)].distances[key] = Threshold(c, Bar)
  PROVE  Policy!TermMet(TradeTerm(key, c), Rs) <=> AtomMet(c)
<1>1. /\ Len(Rs) = Len(bars) /\ Bar.atr \in Int \cup {None} /\ trade.barsInTrade = Len(bars)
      /\ None \notin Int
  BY InBarFacts, ReplayAssumption
<1>2. Policy!Excursion(Rs) = Excursion /\ Policy!InitialRisk = InitialRisk
      /\ (Policy!RiskKnown <=> RiskKnown)
  BY ExcursionAgrees, RiskAgrees DEF InBar
<1>3. CASE c.kind = "change_since_entry"
  <2>1. TradeTerm(key, c) = [type |-> "change", id |-> key, op |-> c.op, value |-> c.threshold]
    BY <1>3 DEF TradeTerm
  <2>2. Rs[1].distances[key] = bars[1].value /\ Rs[Len(Rs)].distances[key] = Bar.value
    BY <1>1, <1>3 DEF Threshold
  <2>3. \A op, a, b : Policy!Compare(op, a, b) = Compare(op, a, b)
    BY DEF Policy!Compare, Compare
  <2>4. Policy!TermMet(TradeTerm(key, c), Rs)
          <=> /\ Bar.value # None /\ bars[1].value # None
              /\ Policy!Compare(c.op, Bar.value - bars[1].value, c.threshold)
    BY <2>1, <2>2 DEF Policy!TermMet
  <2>5. AtomMet(c) <=> ChangeMet(c)
    BY <1>3 DEF AtomMet, MarketKinds
  <2> QED
    BY <2>3, <2>4, <2>5 DEF ChangeMet
<1>4. CASE c.kind # "change_since_entry"
  <2> DEFINE d == Threshold(c, Bar)
  <2>1. TradeTerm(key, c) = [type |-> "threshold", id |-> key, metric |-> Metric(c.kind)]
    BY <1>4 DEF TradeTerm
  <2>2. Rs[Len(Rs)].distances[key] = d
    BY <1>1
  <2>3. Policy!TermMet(TradeTerm(key, c), Rs) <=> d # None /\ Policy!Reached(Metric(c.kind), d, Rs)
    BY <2>1, <2>2 DEF Policy!TermMet
  <2>4. CASE c.kind = "mfe_atr"
    <3>1. Metric(c.kind) = "mfe_distance"
      BY <2>4 DEF Metric
    <3>2. d = IF Bar.atr # None /\ Bar.atr > 0 THEN c.threshold * Bar.atr ELSE None
      BY <2>4 DEF Threshold
    <3>3. Policy!Reached("mfe_distance", d, Rs) <=> Excursion >= d
      BY <1>2 DEF Policy!Reached
    <3>4. Bar.atr # None => c.threshold * Bar.atr \in Int
      BY <1>1
    <3>5. AtomMet(c) <=> Bar.atr # None /\ Bar.atr > 0 /\ Excursion >= c.threshold * Bar.atr
      BY <2>4 DEF AtomMet, MarketKinds
    <3> HIDE DEF d
    <3> QED
      BY <1>1, <2>3, <3>1, <3>2, <3>3, <3>4, <3>5
  <2>5. CASE c.kind # "mfe_atr"
    <3>1. d = c.threshold /\ d # None
      BY <1>1, <1>4, <2>5 DEF Threshold
    <3>2. CASE c.kind = "mfe_pct"
      <4>1. Metric(c.kind) = "mfe_pct"
        BY <3>2 DEF Metric
      <4>2. AtomMet(c) <=> Excursion >= c.threshold
        BY <3>2 DEF AtomMet, MarketKinds
      <4> HIDE DEF d
      <4>3. Policy!Reached("mfe_pct", d, Rs) <=> Excursion >= d
        BY <1>2 DEF Policy!Reached
      <4> QED
        BY <2>3, <3>1, <4>1, <4>2, <4>3
    <3>3. CASE c.kind = "mfe_r"
      <4>1. Metric(c.kind) = "mfe_r"
        BY <3>3 DEF Metric
      <4>2. AtomMet(c) <=> RiskKnown /\ Excursion >= c.threshold * InitialRisk
        BY <3>3 DEF AtomMet, MarketKinds
      <4> HIDE DEF d
      <4>3. Policy!Reached("mfe_r", d, Rs) <=> RiskKnown /\ Excursion >= d * InitialRisk
        BY <1>2 DEF Policy!Reached
      <4> QED
        BY <2>3, <3>1, <4>1, <4>2, <4>3
    <3>4. CASE c.kind = "bars_in_trade"
      <4>1. Metric(c.kind) = "bars_since_entry"
        BY <3>4 DEF Metric
      <4>2. AtomMet(c) <=> trade.barsInTrade >= c.threshold
        BY <3>4 DEF AtomMet, MarketKinds
      <4> HIDE DEF d
      <4>3. Policy!Reached("bars_since_entry", d, Rs) <=> Len(Rs) >= d
        BY DEF Policy!Reached
      <4> QED
        BY <1>1, <2>3, <3>1, <4>1, <4>2, <4>3
    <3> QED
      BY <1>4, <2>5, <3>2, <3>3, <3>4 DEF TradeKinds
  <2> QED
    BY <2>4, <2>5
<1> QED
  BY <1>3, <1>4

LEMMA MarketTermMet ==
  ASSUME InBar, NEW c, c.kind \in MarketKinds, NEW key,
         key \in ConditionsAt(Bar) <=> MarketMet(c, Bar)
  PROVE  Policy!TermMet(ConditionTerm(key), Rs) <=> AtomMet(c)
<1>1. Rs[Len(Rs)].conditions = ConditionsAt(Bar)
  BY InBarFacts, RsAre
<1>2. Policy!TermMet(ConditionTerm(key), Rs) <=> key \in ConditionsAt(Bar)
  BY <1>1 DEF Policy!TermMet, Policy!Holds, ConditionTerm
<1>3. AtomMet(c) <=> MarketMet(c, Bar)
  BY DEF AtomMet, MarketKinds
<1> QED
  BY <1>2, <1>3
--------------------------------------------------------------------------------
(* A phase rule is met in the policy exactly when its condition is in the  *)
(* replay, and by the same path.                                           *)

LEMMA Accepted ==
  ASSUME ConfigOK
  PROVE  /\ \A n \in Composed : CompositeAccepted(config.phase[n])
         /\ \A n \in DOMAIN config.phase \ Composed :
              /\ Atomic(config.phase[n]) /\ ProjectedPhase(config.phase[n]).term # None
              /\ AtomAccepted(config.phase[n].condition, TradeKinds \cup {"adx_di_threshold"})
         /\ \A n \in DOMAIN config.stop :
              config.stop[n].kind \in {"break_even_stop", "lock_profit_stop"} \cup InitialRKinds
         /\ \A n \in DOMAIN config.runtime :
              IF config.runtime[n].kind = "phase_runtime_exit"
              THEN config.runtime[n].close \in BOOLEAN /\ config.runtime[n].confirm = 1
              ELSE config.runtime[n].confirm \in Int
<1>1. config \in Configs /\ Distinguishable
  BY DEF ConfigOK
<1>2. /\ \A n \in DOMAIN config.phase : config.phase[n] \in ToSet(config.phase)
      /\ \A n \in DOMAIN config.stop : config.stop[n] \in ToSet(config.stop)
      /\ \A n \in DOMAIN config.runtime : config.runtime[n] \in ToSet(config.runtime)
  BY DEF ToSet
<1>3. \A r \in ToSet(config.phase) :
        IF Atomic(r)
        THEN /\ AtomAccepted(r.condition, TradeKinds \cup {"adx_di_threshold"})
             /\ ProjectedPhase(r).term # None
        ELSE CompositeAccepted(r)
  BY <1>1, ProjectionAssumption
<1>4. \A r \in ToSet(config.stop) :
        r.kind \in {"break_even_stop", "lock_profit_stop"} \cup InitialRKinds
  BY <1>1, ProjectionAssumption
<1>5. \A r \in ToSet(config.runtime) :
        IF r.kind = "phase_runtime_exit" THEN r.close \in BOOLEAN ELSE r.confirm \in Int
  BY <1>1, ProjectionAssumption
<1>6. \A r \in ToSet(config.runtime) : r.kind = "phase_runtime_exit" => r.confirm = 1
  BY <1>1 DEF Distinguishable, ToldApart
<1>7. \A n \in DOMAIN config.phase : n \in Composed <=> ~Atomic(config.phase[n])
  BY DEF Composed
<1>8. \A n \in Composed : n \in DOMAIN config.phase
  BY DEF Composed
<1> QED
  BY <1>2, <1>3, <1>4, <1>5, <1>6, <1>7, <1>8

LEMMA ChildTermMet ==
  ASSUME InBar, NEW n \in Composed, NEW ref \in DOMAIN config.phase[n].condition.children
  PROVE  Policy!TermMet(ChildTerm(config.phase[n], ref), Rs)
           <=> AtomMet(config.phase[n].condition.children[ref])
<1> DEFINE c == config.phase[n].condition.children[ref]
           key == <<"child", config.phase[n].id, ref>>
<1>1. CompositeAccepted(config.phase[n])
  BY Accepted, InBarFacts
<1>2. AtomAccepted(c, TradeKinds \cup MarketKinds \cup {"change_since_entry"})
  BY <1>1 DEF CompositeAccepted
<1>3. /\ ConfigOK /\ Len(bars) \in 1..Len(bars) /\ 1 \in 1..Len(bars) /\ Bar = bars[Len(bars)]
      /\ ReplayInv
  BY InBarFacts
<1>4. CASE c.kind \in MarketKinds
  <2>1. key \in ConditionsAt(Bar) <=> MarketMet(c, Bar)
    BY <1>3, <1>4, ChildHolds
  <2>2. ChildTerm(config.phase[n], ref) = ConditionTerm(key)
    BY <1>4 DEF ChildTerm
  <2> HIDE DEF c, key
  <2>3. Policy!TermMet(ConditionTerm(key), Rs) <=> AtomMet(c)
    BY <1>4, <2>1, MarketTermMet
  <2> QED
    BY <2>2, <2>3 DEF c
<1>5. CASE c.kind \notin MarketKinds
  <2>1. \A bar : Reading(bar).distances[key] = Threshold(c, bar)
    BY <1>3, <1>5, ChildDistance
  <2>2. ChildTerm(config.phase[n], ref) = TradeTerm(key, c)
    BY <1>5 DEF ChildTerm
  <2> HIDE DEF c, key
  <2>3. c.kind \in TradeKinds \cup {"change_since_entry"} /\ c.threshold \in Int
    BY <1>2, <1>5 DEF AtomAccepted
  <2>4. Rs[1].distances[key] = Threshold(c, bars[1])
        /\ Rs[Len(bars)].distances[key] = Threshold(c, Bar)
    BY <1>3, <2>1, RsAre
  <2>5. Policy!TermMet(TradeTerm(key, c), Rs) <=> AtomMet(c)
    BY <2>3, <2>4, TradeTermMet
  <2> QED
    BY <2>2, <2>5 DEF c
<1> QED
  BY <1>4, <1>5

\* The terms of an at_least stand for its children one to one.
LEMMA VotesAgree ==
  ASSUME InBar, NEW n \in Composed,
         NEW of \in SUBSET DOMAIN config.phase[n].condition.children, IsFiniteSet(of)
  PROVE  Cardinality({t \in {ChildTerm(config.phase[n], ref) : ref \in of} : Policy!TermMet(t, Rs)})
           = Cardinality({ref \in of : AtomMet(config.phase[n].condition.children[ref])})
<1> DEFINE r == config.phase[n]
           S == {ref \in of : AtomMet(r.condition.children[ref])}
           T == {t \in {ChildTerm(r, ref) : ref \in of} : Policy!TermMet(t, Rs)}
           f == [ref \in S |-> ChildTerm(r, ref)]
<1>1. \A ref \in of : Policy!TermMet(ChildTerm(r, ref), Rs) <=> AtomMet(r.condition.children[ref])
  BY ChildTermMet
<1>2. \A ref : ChildTerm(r, ref).id = <<"child", r.id, ref>>
  BY DEF ChildTerm, ConditionTerm, TradeTerm
<1>3. \A x, y : ChildTerm(r, x) = ChildTerm(r, y) => x = y
  <2> SUFFICES ASSUME NEW x, NEW y, ChildTerm(r, x) = ChildTerm(r, y) PROVE x = y
    OBVIOUS
  <2> HIDE DEF r
  <2>1. <<"child", r.id, x>> = <<"child", r.id, y>>
    BY <1>2
  <2> QED
    BY <2>1
<1> HIDE DEF r
<1>4. f \in Bijection(S, T)
  <2>1. \A ref \in S : ChildTerm(r, ref) \in T
    BY <1>1
  <2>2. \A t \in T : \E ref \in S : ChildTerm(r, ref) = t
    BY <1>1
  <2> HIDE DEF S, T
  <2>3. f \in [S -> T] /\ \A ref \in S : f[ref] = ChildTerm(r, ref)
    BY <2>1
  <2> HIDE DEF f
  <2>4. f \in Injection(S, T)
    BY <1>3, <2>3 DEF Injection, IsInjective
  <2>5. f \in Surjection(S, T)
    BY <2>2, <2>3 DEF Surjection
  <2> QED
    BY <2>4, <2>5 DEF Bijection
<1>5. IsFiniteSet(S)
  <2>1. S \subseteq of
    OBVIOUS
  <2> QED
    BY <2>1, FS_Subset
<1> HIDE DEF S, T, f
<1>6. Cardinality(T) = Cardinality(S)
  BY <1>4, <1>5, FS_Bijection DEF ExistsBijection
<1> QED
  BY <1>6 DEF S, T, r

LEMMA PathAgrees ==
  ASSUME InBar, NEW n \in Composed, NEW p \in DOMAIN config.phase[n].condition.paths
  PROVE  Policy!PathMet(ProjectedPath(config.phase[n], p), Rs)
           <=> PathMet(config.phase[n].condition, config.phase[n].condition.paths[p])
<1> DEFINE r == config.phase[n]
           c == r.condition
           path == c.paths[p]
           keeps == path.k > 0 /\ ~VoteFolds(c, path)
           proj == ProjectedPath(r, p)
           key == <<"path", r.id, p>>
<1>1. /\ path.require \subseteq DOMAIN c.children /\ path.of \subseteq DOMAIN c.children
      /\ IsFiniteSet(path.of) /\ path.k \in Nat
      /\ HasMarketPart(c, path) => proj.condition # None
  <2>1. CompositeAccepted(config.phase[n])
    BY Accepted, InBarFacts
  <2> QED
    BY <2>1 DEF CompositeAccepted
<1>2. /\ proj.condition = IF HasMarketPart(c, path) THEN key ELSE None
      /\ proj.all = {ChildTerm(r, ref) : ref \in TradeRequire(c, path)}
      /\ proj.k = IF keeps THEN path.k ELSE 0
      /\ proj.terms = IF keeps THEN {ChildTerm(r, ref) : ref \in path.of} ELSE {}
  BY DEF ProjectedPath
<1>3. key \in ConditionsAt(Bar) <=> HasMarketPart(c, path) /\ FoldedMask(c, path, Bar)
  BY InBarFacts, PathHolds
<1>4. \A ref \in DOMAIN c.children :
        Policy!TermMet(ChildTerm(r, ref), Rs) <=> AtomMet(c.children[ref])
  BY ChildTermMet
<1>5. Cardinality({t \in {ChildTerm(r, ref) : ref \in path.of} : Policy!TermMet(t, Rs)})
        = Cardinality({ref \in path.of : AtomMet(c.children[ref])})
  BY <1>1, VotesAgree
<1>6. Rs[Len(Rs)].conditions = ConditionsAt(Bar)
  BY InBarFacts, RsAre
<1> HIDE DEF r, c, path, proj, key
<1>7. (proj.condition # None => Policy!Holds(proj.condition, Rs, Len(Rs)))
        <=> (HasMarketPart(c, path) => FoldedMask(c, path, Bar))
  BY <1>1, <1>2, <1>3, <1>6 DEF Policy!Holds
<1>8. (\A t \in proj.all : Policy!TermMet(t, Rs))
        <=> \A ref \in TradeRequire(c, path) : AtomMet(c.children[ref])
  <2>1. \A ref \in TradeRequire(c, path) : ref \in DOMAIN c.children
    BY <1>1 DEF TradeRequire
  <2> QED
    BY <1>2, <1>4, <2>1
<1>9. Cardinality({t \in proj.terms : Policy!TermMet(t, Rs)}) >= proj.k
        <=> (keeps => Cardinality({ref \in path.of : AtomMet(c.children[ref])}) >= path.k)
  <2>1. CASE keeps
    BY <1>2, <1>5, <2>1
  <2>2. CASE ~keeps
    <3>1. proj.terms = {} /\ proj.k = 0
      BY <1>2, <2>2
    <3>2. {t \in proj.terms : Policy!TermMet(t, Rs)} = {}
      BY <3>1
    <3>3. Cardinality({}) = 0
      BY FS_EmptySet
    <3> QED
      BY <2>2, <3>1, <3>2, <3>3
  <2> QED
    BY <2>1, <2>2
<1>10. Policy!PathMet(proj, Rs) <=> PathMet(c, path)
  BY <1>7, <1>8, <1>9, SameSizes DEF Policy!PathMet, PathMet, keeps
<1> QED
  BY <1>10 DEF proj, path, c, r

LEMMA PhaseAgrees ==
  ASSUME InBar, NEW n \in DOMAIN config.phase
  PROVE  LET r == ProjectedPhase(config.phase[n])
             c == config.phase[n].condition
         IN  /\ Policy!RuleMet(r, Rs) <=> ConditionMet(c)
             /\ ConditionMet(c) =>
                  (IF r.term = None THEN Policy!Min(Policy!Paths(r, Rs)) ELSE None) = WinningPath(c)
<1> DEFINE r == ProjectedPhase(config.phase[n])
           c == config.phase[n].condition
           id == config.phase[n].id
<1>0. ConfigOK /\ ReplayInv /\ Len(bars) \in 1..Len(bars) /\ 1 \in 1..Len(bars)
      /\ Bar = bars[Len(bars)]
  BY InBarFacts
<1>1. CASE n \in Composed
  <2>1. ~Atomic(config.phase[n]) /\ c.kind = "composite_phase_condition"
    BY <1>1 DEF Composed, Atomic
  <2>2. r.term = None /\ DOMAIN r.paths = DOMAIN c.paths
        /\ \A p \in DOMAIN c.paths : r.paths[p] = ProjectedPath(config.phase[n], p)
    BY <2>1 DEF ProjectedPhase
  <2>3. \A p \in DOMAIN c.paths :
          Policy!PathMet(ProjectedPath(config.phase[n], p), Rs) <=> PathMet(c, c.paths[p])
    BY <1>1, PathAgrees
  <2> HIDE DEF r, c
  <2>4. Policy!Paths(r, Rs) = MetPaths(c)
    BY <2>2, <2>3 DEF Policy!Paths, MetPaths
  <2>5. Policy!RuleMet(r, Rs) <=> ConditionMet(c)
    BY <2>1, <2>2, <2>4 DEF Policy!RuleMet, ConditionMet
  <2>6. Policy!Min(MetPaths(c)) = WinningPath(c)
    BY <2>1 DEF Policy!Min, WinningPath
  <2> QED
    BY <2>2, <2>4, <2>5, <2>6 DEF r, c
<1>2. CASE n \notin Composed
  <2>1. /\ Atomic(config.phase[n]) /\ r.term # None
        /\ AtomAccepted(c, TradeKinds \cup {"adx_di_threshold"})
    BY <1>0, <1>2, Accepted
  <2>2. r.paths = <<>> /\ r.term = IF Gate(config.phase[n]) THEN ConditionTerm(<<"phase", id>>)
                                   ELSE TradeTerm(<<"phase", id>>, c)
    BY <2>1 DEF ProjectedPhase
  <2>3. (ConditionMet(c) <=> AtomMet(c)) /\ WinningPath(c) = None
    BY <2>1 DEF ConditionMet, WinningPath, Atomic
  <2>4. Policy!TermMet(r.term, Rs) <=> AtomMet(c)
    <3>1. CASE Gate(config.phase[n])
      <4>1. n \in Gates /\ c.kind \in MarketKinds
        BY <3>1 DEF Gates, Gate, MarketKinds
      <4>2. <<"phase", id>> \in ConditionsAt(Bar) <=> MarketMet(c, Bar)
        BY <1>0, <4>1, GateHolds
      <4>3. Policy!TermMet(ConditionTerm(<<"phase", id>>), Rs) <=> AtomMet(c)
        BY <4>1, <4>2, MarketTermMet
      <4> QED
        BY <2>2, <3>1, <4>3
    <3>2. CASE ~Gate(config.phase[n])
      <4>1. n \in TradeAtoms
        BY <2>1, <3>2 DEF TradeAtoms, Gates
      <4>2. \A bar : Reading(bar).distances[<<"phase", id>>] = Threshold(c, bar)
        BY <1>0, <4>1, AtomDistance
      <4>3. c.kind \in TradeKinds /\ c.threshold \in Int
        BY <2>1, <3>2 DEF AtomAccepted, Gate, TradeKinds, MarketKinds
      <4>4. /\ Rs[1].distances[<<"phase", id>>] = Threshold(c, bars[1])
            /\ Rs[Len(bars)].distances[<<"phase", id>>] = Threshold(c, Bar)
        BY <1>0, <4>2, RsAre
      <4>5. Policy!TermMet(TradeTerm(<<"phase", id>>, c), Rs) <=> AtomMet(c)
        BY <4>3, <4>4, TradeTermMet
      <4> QED
        BY <2>2, <3>2, <4>5
    <3> QED
      BY <3>1, <3>2
  <2> HIDE DEF r, c
  <2>5. Policy!Paths(r, Rs) = {}
    BY <2>2 DEF Policy!Paths
  <2>6. Policy!RuleMet(r, Rs) <=> ConditionMet(c)
    BY <2>1, <2>3, <2>4, <2>5 DEF Policy!RuleMet
  <2> QED
    BY <2>1, <2>3, <2>6 DEF r, c
<1> QED
  BY <1>1, <1>2
--------------------------------------------------------------------------------
(* What a stop rule offers, and whether an exit is armed, on either side. *)

LEMMA OfferAgrees ==
  ASSUME InBar, NEW n \in DOMAIN config.stop
  PROVE  Policy!Offer(ProjectedStop(config.stop[n]), Rs) = StopOffer(config.stop[n])
<1> DEFINE r == config.stop[n]
           p == ProjectedStop(r)
           d == StopDistance(r, Bar)
<1>1. /\ ConfigOK /\ ReplayInv /\ Len(bars) \in 1..Len(bars) /\ Bar = bars[Len(bars)]
      /\ Len(Rs) = Len(bars) /\ Bar.atr \in Int \cup {None} /\ None \notin Int /\ None \notin STRING
  BY InBarFacts, ReplayAssumption
<1>2. r.action \in Int /\ r.kind \in {"break_even_stop", "lock_profit_stop"} \cup InitialRKinds
  BY <1>1, Accepted, ConfigFacts DEF ConfigOK
<1>3. p.distance = <<"stop", r.id>>
  BY DEF ProjectedStop
<1>4. Rs[Len(Rs)].distances[p.distance] = d
  <2>1. Reading(Bar).distances[<<"stop", r.id>>] = d
    BY <1>1, StopDistances
  <2> QED
    BY <1>1, <1>3, <2>1, RsAre
<1>5. \A q, x : Policy!Away(q, x) = Away(q, x) /\ Policy!Back(q, x) = Back(q, x)
  BY DEF Policy!Away, Policy!Back, Away, Back
<1>6. CASE r.kind \in InitialRKinds
  <2>1. /\ d = r.action /\ p.trigger = <<"trigger", r.id>>
        /\ p.formula = IF r.kind = "initial_r_lock_stop" THEN "initial_r_lock"
                                                         ELSE "initial_r_trailing"
    BY <1>6 DEF StopDistance, ProjectedStop, InitialRKinds
  <2>2. Rs[Len(Rs)].distances[p.trigger] = r.trigger
    <3>1. n \in InitialRs
      BY <1>6 DEF InitialRs
    <3>2. Reading(Bar).distances[<<"trigger", r.id>>] = r.trigger
      BY <1>1, <3>1, StopDistances
    <3> QED
      BY <1>1, <2>1, <3>2, RsAre
  <2>3. d # None /\ p.formula # None
    <3>1. None \notin {"initial_r_lock", "initial_r_trailing"}
      BY ProjectionAssumption
    <3>2. d # None
      BY <1>1, <1>2, <2>1
    <3> QED
      BY <2>1, <3>1, <3>2
  <2>4. /\ Policy!Excursion(Rs) = Excursion /\ Excursion \in Int /\ Policy!InitialRisk = InitialRisk
        /\ (Policy!RiskKnown <=> RiskKnown) /\ (RiskKnown => InitialRisk \in Nat)
        /\ Policy!Best(Rs) = trade.best
    BY ExcursionAgrees, RiskAgrees, BestAgrees DEF InBar
  <2>5. r.trigger \in Nat
    <3>1. \A m \in DOMAIN config.stop :
            config.stop[m].kind \in {"initial_r_lock_stop", "initial_r_trailing_stop"} =>
              config.stop[m].trigger \in Nat
      BY <1>1, ConfigFacts DEF ConfigOK, RiskKinds
    <3> QED
      BY <1>6, <3>1 DEF InitialRKinds
  <2>6. Policy!Reached("mfe_r", r.trigger, Rs) <=> RiskKnown /\ Excursion >= r.trigger * InitialRisk
    BY <2>4 DEF Policy!Reached
  <2>7. RiskKnown => (Excursion >= r.trigger * InitialRisk <=> ~(Excursion < r.trigger * InitialRisk))
    BY <2>4, <2>5
  <2>8. StopOffer(r) = InitialROffer(r)
    BY <1>6 DEF StopOffer, InitialRKinds
  <2> HIDE DEF d, p
  <2>9. Policy!Offer(p, Rs)
          = IF ~(RiskKnown /\ Excursion >= r.trigger * InitialRisk) THEN None
            ELSE IF p.formula = "initial_r_lock" THEN Away(Entry, d * InitialRisk)
            ELSE Back(trade.best, d * InitialRisk)
    BY <1>4, <1>5, <2>2, <2>3, <2>4, <2>6 DEF Policy!Offer
  <2>10. InitialROffer(r)
           = IF ~(RiskKnown /\ Excursion >= r.trigger * InitialRisk) THEN None
             ELSE IF r.kind = "initial_r_lock_stop" THEN Away(Entry, r.action * InitialRisk)
             ELSE Back(trade.best, r.action * InitialRisk)
    BY <2>7 DEF InitialROffer, MfePrice
  <2>11. p.formula = "initial_r_lock" <=> r.kind = "initial_r_lock_stop"
    BY <2>1
  <2> QED
    BY <2>1, <2>8, <2>9, <2>10, <2>11 DEF p
<1>7. CASE r.kind \notin InitialRKinds
  <2>1. p.formula = None
    BY <1>7 DEF ProjectedStop, InitialRKinds
  <2>2. d = IF r.kind = "break_even_stop" /\ r.buffer = "none" THEN r.action
            ELSE IF Bar.atr = None THEN None ELSE r.action * Bar.atr
    BY <1>7 DEF StopDistance
  <2>3. StopOffer(r) = IF r.kind = "break_even_stop" /\ r.buffer = "none" THEN Away(Entry, r.action)
                       ELSE IF Bar.atr = None THEN None ELSE Away(Entry, r.action * Bar.atr)
    BY <1>2, <1>7 DEF StopOffer, InitialRKinds
  <2> HIDE DEF d, p
  <2>4. Policy!Offer(p, Rs) = IF d = None THEN None ELSE Away(Entry, d)
    BY <1>4, <1>5, <2>1 DEF Policy!Offer
  <2>5. r.action # None /\ (Bar.atr # None => r.action * Bar.atr # None)
    <3>1. Bar.atr # None => r.action * Bar.atr \in Int
      BY <1>1, <1>2
    <3> QED
      BY <1>1, <1>2, <3>1
  <2> QED
    BY <2>2, <2>3, <2>4, <2>5 DEF p
<1> QED
  BY <1>6, <1>7

\* The runs of bars that confirm an exit.
Confirmed(r, rs) ==
  /\ Len(rs) - r.confirm + 1 >= 1 + offset
  /\ \A j \in (Len(rs) - r.confirm + 1)..Len(rs) : Policy!Holds(r.condition, rs, j)

LEMMA ExitAgrees ==
  ASSUME InBar, NEW n \in DOMAIN config.runtime
  PROVE  Confirmed(ProjectedRuntime(config.runtime[n]), Rs) <=> RuntimeSignal(config.runtime[n])
<1> DEFINE r == config.runtime[n]
           p == ProjectedRuntime(r)
           from == Len(bars) - r.confirm + 1
<1>1. /\ ConfigOK /\ ReplayInv /\ Len(bars) \in 1..Len(bars) /\ Len(Rs) = Len(bars)
      /\ Len(bars) >= 1 + offset /\ offset \in {0, 1} /\ Len(bars) \in Nat
  BY InBarFacts, RsAre DEF InBar
<1>2. p.confirm = r.confirm /\ p.condition = <<"runtime", r.id>>
  BY DEF ProjectedRuntime
<1>3. \A j \in 1..Len(bars) : Policy!Holds(p.condition, Rs, j) <=> RuntimeCondition(r, bars[j])
  <2>1. \A bar : <<"runtime", r.id>> \in ConditionsAt(bar) <=> RuntimeCondition(r, bar)
    BY <1>1, ExitHolds
  <2> QED
    BY <1>1, <1>2, <2>1, RsAre, Zenon DEF Policy!Holds
<1>4. IF r.kind = "phase_runtime_exit" THEN r.close \in BOOLEAN /\ r.confirm = 1
                                       ELSE r.confirm \in Int
  BY <1>1, Accepted
<1> HIDE DEF p, r
<1>5. Confirmed(p, Rs) <=> from >= 1 + offset /\ \A j \in from..Len(bars) : RuntimeCondition(r, bars[j])
  <2>1. r.confirm \in Int
    BY <1>4
  <2>2. from >= 1 + offset => \A j \in from..Len(bars) : j \in 1..Len(bars)
    BY <1>1, <2>1
  <2>3. Confirmed(p, Rs) <=> /\ from >= 1 + offset
                             /\ \A j \in from..Len(bars) : Policy!Holds(p.condition, Rs, j)
    BY <1>1, <1>2 DEF Confirmed
  <2> HIDE DEF from
  <2> QED
    BY <1>3, <2>2, <2>3
<1>6. CASE r.kind = "phase_runtime_exit"
  <2>1. from = Len(bars)
    BY <1>1, <1>4, <1>6
  <2>2. \A bar : RuntimeCondition(r, bar) <=> r.close
    BY <1>6 DEF RuntimeCondition
  <2>3. RuntimeSignal(r) <=> r.close
    BY <1>6 DEF RuntimeSignal
  <2>4. \A j \in from..Len(bars) : j = Len(bars)
    BY <1>1, <2>1
  <2>5. Len(bars) \in from..Len(bars)
    BY <1>1, <2>1
  <2> HIDE DEF from
  <2> QED
    BY <1>1, <1>5, <2>1, <2>2, <2>3, <2>5 DEF r, p
<1>7. CASE r.kind # "phase_runtime_exit"
  <2>1. \A bar : RuntimeCondition(r, bar) <=> r.signal \in bar.market
    BY <1>7 DEF RuntimeCondition
  <2>2. RuntimeSignal(r) <=> /\ from >= 1 + offset
                             /\ \A j \in from..Len(bars) : r.signal \in bars[j].market
    BY <1>7 DEF RuntimeSignal, WindowStart
  <2> HIDE DEF from
  <2> QED
    BY <1>5, <2>1, <2>2 DEF r, p
<1> QED
  BY <1>6, <1>7
--------------------------------------------------------------------------------
(* Within a bar the rules are read the same at every step.                 *)

SameBar ==
  UNCHANGED <<inputs, bars>> /\ trade'.best = trade.best /\ trade'.barsInTrade = trade.barsInTrade

LEMMA AtomStays == ASSUME SameBar PROVE \A c : AtomMet(c)' <=> AtomMet(c)
<1> SUFFICES ASSUME NEW c PROVE AtomMet(c)' <=> AtomMet(c)
  OBVIOUS
<1>1. Excursion' = Excursion
  BY DEF SameBar, inputs, Excursion, MfePrice, Distance
<1>2. Bar' = Bar /\ bars'[1] = bars[1]
  BY DEF SameBar, Bar
<1>3. (RiskKnown' <=> RiskKnown) /\ InitialRisk' = InitialRisk
  BY DEF SameBar, inputs, RiskKnown, InitialRisk, Distance
<1>4. ChangeMet(c)' <=> ChangeMet(c)
  BY <1>2 DEF ChangeMet
<1>5. MarketMet(c, Bar)' <=> MarketMet(c, Bar)
  BY <1>2 DEF MarketMet
<1> QED
  BY <1>1, <1>2, <1>3, <1>4, <1>5 DEF SameBar, AtomMet

LEMMA ConditionStays ==
  ASSUME SameBar
  PROVE  /\ \A c : ConditionMet(c)' <=> ConditionMet(c)
         /\ \A c : WinningPath(c)' = WinningPath(c)
<1>1. \A c : AtomMet(c)' <=> AtomMet(c)
  BY AtomStays
<1>2. Bar' = Bar
  BY DEF SameBar, Bar
<1>3. \A c, path : FoldedMask(c, path, Bar)' <=> FoldedMask(c, path, Bar)
  BY <1>2
<1>4. \A c, path : PathMet(c, path)' <=> PathMet(c, path)
  <2> SUFFICES ASSUME NEW c, NEW path PROVE PathMet(c, path)' <=> PathMet(c, path)
    OBVIOUS
  <2>1. {ref \in path.of : AtomMet(c.children[ref])'} = {ref \in path.of : AtomMet(c.children[ref])}
    BY <1>1
  <2>2. (\A ref \in TradeRequire(c, path) : AtomMet(c.children[ref])')
          <=> \A ref \in TradeRequire(c, path) : AtomMet(c.children[ref])
    BY <1>1
  <2> QED
    BY <1>3, <2>1, <2>2 DEF PathMet
<1>5. \A c : MetPaths(c)' = MetPaths(c)
  BY <1>4 DEF MetPaths
<1>6. \A c : ConditionMet(c)' <=> ConditionMet(c)
  BY <1>1, <1>5 DEF ConditionMet
<1>7. \A c : WinningPath(c)' = WinningPath(c)
  <2> SUFFICES ASSUME NEW c PROVE WinningPath(c)' = WinningPath(c)
    OBVIOUS
  <2> DEFINE first(S) == CHOOSE p \in S : \A q \in S : p <= q
             won == IF c.kind = "composite_phase_condition" THEN first(MetPaths(c)) ELSE None
  <2>1. WinningPath(c) = won
    BY DEF WinningPath
  <2>2. WinningPath(c)' = won'
    BY DEF WinningPath
  <2> HIDE DEF first
  <2> QED
    BY <1>5, <2>1, <2>2
<1> QED
  BY <1>6, <1>7

LEMMA OfferStays == ASSUME SameBar PROVE \A r : StopOffer(r)' = StopOffer(r)
<1> SUFFICES ASSUME NEW r PROVE StopOffer(r)' = StopOffer(r)
  OBVIOUS
<1>1. Excursion' = Excursion /\ MfePrice' = MfePrice
  BY DEF SameBar, inputs, Excursion, MfePrice, Distance
<1>2. Bar' = Bar
  BY DEF SameBar, Bar
<1>3. (RiskKnown' <=> RiskKnown) /\ InitialRisk' = InitialRisk
  BY DEF SameBar, inputs, RiskKnown, InitialRisk, Distance
<1>4. \A p, d : Away(p, d)' = Away(p, d) /\ Back(p, d)' = Back(p, d)
  BY DEF SameBar, inputs, Away, Back
<1>5. InitialROffer(r)' = InitialROffer(r)
  BY <1>1, <1>3, <1>4 DEF InitialROffer
<1> QED
  BY <1>2, <1>4, <1>5 DEF StopOffer

LEMMA SignalStays == ASSUME SameBar PROVE \A r : RuntimeSignal(r)' <=> RuntimeSignal(r)
  BY DEF SameBar, inputs, RuntimeSignal, WindowStart
--------------------------------------------------------------------------------
(* The transitions the log gives a bar.                                    *)

FiredIn(evs, n) ==
  {[rule |-> evs[e].rule, path |-> evs[e].detail.path] :
     e \in {e \in DOMAIN evs : evs[e].bar = n /\ evs[e].type = "phase_changed"}}

LEMMA FiredMore ==
  ASSUME NEW evs, NEW b \in Nat, Dated(evs, b), NEW x, x.bar \in 1..b, NEW n
  PROVE  FiredIn(Append(evs, x), n)
           = FiredIn(evs, n) \cup (IF x.bar = n /\ x.type = "phase_changed"
                                   THEN {[rule |-> x.rule, path |-> x.detail.path]} ELSE {})
<1> DEFINE more == Append(evs, x)
           said(e) == [rule |-> e.rule, path |-> e.detail.path]
<1>1. /\ Len(evs) \in Nat /\ DOMAIN evs = 1..Len(evs) /\ DOMAIN more = 1..Len(evs) + 1
      /\ more[Len(evs) + 1] = x /\ \A e \in DOMAIN evs : more[e] = evs[e]
  BY OneMore
<1>2. DOMAIN more = DOMAIN evs \cup {Len(evs) + 1}
  BY <1>1
<1> HIDE DEF more
<1>3. /\ \A s : FiredIn(s, n) = {said(s[e]) : e \in {e \in DOMAIN s : s[e].bar = n /\ s[e].type = "phase_changed"}}
  BY DEF FiredIn
<1> HIDE DEF said
<1>4. {e \in DOMAIN more : more[e].bar = n /\ more[e].type = "phase_changed"}
        = {e \in DOMAIN evs : evs[e].bar = n /\ evs[e].type = "phase_changed"}
            \cup (IF x.bar = n /\ x.type = "phase_changed" THEN {Len(evs) + 1} ELSE {})
  BY <1>1, <1>2
<1>5. FiredIn(more, n) = FiredIn(evs, n) \cup (IF x.bar = n /\ x.type = "phase_changed"
                                               THEN {said(x)} ELSE {})
  BY <1>1, <1>3, <1>4
<1> QED
  BY <1>5 DEF more, said

LEMMA NotYetFired ==
  ASSUME NEW evs, NEW b \in Nat, Dated(evs, b) PROVE FiredIn(evs, b + 1) = {}
  BY DEF FiredIn, Dated

--------------------------------------------------------------------------------
(* The walk through the rules of a bar, against the decision on the bar    *)
(* before: what the rules walked so far have made of the trade is what the *)
(* closed forms of the policy say of them.                                 *)

Before == DecisionAfter(Len(decisions))

MetIn(ns) == {n \in ns : ConditionMet(config.phase[n].condition)}
Transition(n) == [rule |-> config.phase[n].id, path |-> WinningPath(config.phase[n].condition)]
Leads(met) ==
  {n \in met : /\ config.phase[n].to > Before.phase
               /\ \A m \in met : m < n => config.phase[m].to < config.phase[n].to}

PhaseWalk(ns) ==
  /\ trade.phase = Before.phase \/ \E n \in MetIn(ns) : trade.phase = config.phase[n].to
  /\ trade.phase >= Before.phase /\ \A n \in MetIn(ns) : trade.phase >= config.phase[n].to
  /\ FiredOn(Len(bars)) = {Transition(n) : n \in Leads(MetIn(ns))}

Active(section, ns) == {n \in ns : trade.phase >= section[n].at}

OffersOf(ns) == {StopOffer(config.stop[n]) : n \in Active(config.stop, ns)} \ {None}
Prices == {candidates[m].price : m \in DOMAIN candidates}
StopWalk(ns) == Prices = OffersOf(ns)
IsBestOf(stop, offers) ==
  IF offers = {} THEN stop = None ELSE stop \in offers /\ \A q \in offers : ~Better(q, stop)
StopChosen == IsBestOf(trade.stop, (OffersOf(1..NStop) \cup {Before.stop}) \ {None})

TakeWalk(ns) ==
  IF Active(config.take, ns) = {} THEN trade.profile = Before.profile
  ELSE \E n \in Active(config.take, ns) :
         /\ \A m \in Active(config.take, ns) : m <= n
         /\ trade.profile = Profile(config.take[n].action)

ExitWalk(ns) ==
  ToSet(armed) = {config.runtime[n].id :
                    n \in {n \in Active(config.runtime, ns) : RuntimeSignal(config.runtime[n])}}

WalkInv ==
  /\ Before.phase \in Phases /\ Before.stop \in Price
  /\ stage = "bar" => /\ trade.phase = Before.phase /\ trade.stop = Before.stop
                      /\ trade.profile = Before.profile
  /\ stage = "phase" => at <= NPhase + 1 /\ PhaseWalk(1..at - 1)
  /\ stage \in {"stop", "take", "runtime"} => PhaseWalk(1..NPhase)
  /\ stage \in {"phase", "stop"} => trade.stop = Before.stop
  /\ stage \in {"phase", "stop"} => trade.profile = Before.profile
  /\ stage = "stop" => at <= NStop + 1 /\ StopWalk(1..at - 1)
  /\ stage \in {"take", "runtime"} => StopChosen
  /\ stage = "take" => at <= NTake + 1 /\ TakeWalk(1..at - 1)
  /\ stage = "runtime" => TakeWalk(1..NTake)
  /\ stage = "runtime" => at <= NExit + 1 /\ ExitWalk(1..at - 1)

InProgress == stage # "bar" => Len(bars) >= 1 + offset /\ trade.barsInTrade = Len(bars)

ParityInv == ReplayInv /\ StoryInv /\ BestIs /\ InProgress /\ WalkInv

\* A step that logs at most one event, of the bar it is on.
Logs ==
  events' = events \/ (stage # "bar" /\ \E x : x.bar = Len(bars) /\ events' = Append(events, x))

LEMMA FiredIs == \A n : FiredOn(n) = FiredIn(events, n)
  BY DEF FiredOn, FiredIn

LEMMA BeforeStays ==
  ASSUME ReplayInv, StoryInv, UNCHANGED <<inputs, decisions>>, Logs
  PROVE  Before' = Before
<1>1. offset' = offset /\ initialStop' = initialStop /\ decisions' = decisions
  BY DEF inputs
<1>2. Undecided' = Undecided
  BY <1>1 DEF Undecided
<1>3. CASE events' = events
  BY <1>1, <1>2, <1>3 DEF Before, DecisionAfter, DecisionOn, FiredOn
<1>4. CASE stage # "bar" /\ \E x : x.bar = Len(bars) /\ events' = Append(events, x)
  <2>1. PICK x : x.bar = Len(bars) /\ events' = Append(events, x)
    BY <1>4
  <2>2. /\ Len(bars) \in Nat /\ Len(decisions) \in Nat /\ DOMAIN decisions = 1..Len(decisions)
        /\ Len(bars) \in 1..Len(bars) /\ \A n \in DOMAIN decisions : n + offset < Len(bars)
    BY <1>4, StoryFacts
  <2>3. Dated(events, Len(bars))
    BY DEF StoryInv
  <2>4. CASE Len(decisions) = 0
    BY <1>1, <1>2, <2>4 DEF Before, DecisionAfter
  <2>5. CASE Len(decisions) # 0
    <3>1. PICK n : n = Len(decisions) + offset
      OBVIOUS
    <3>2. n # Len(bars)
      BY <2>2, <2>5, <3>1
    <3>3. PICK evs, b : evs = events /\ b = Len(bars)
      OBVIOUS
    <3>4. FiredIn(Append(evs, x), n) = FiredIn(evs, n)
      <4>1. x.bar \in 1..b /\ x.bar # n /\ b \in Nat /\ Dated(evs, b)
        BY <2>1, <2>2, <2>3, <3>2, <3>3
      <4>2. FiredIn(Append(evs, x), n)
              = FiredIn(evs, n) \cup (IF x.bar = n /\ x.type = "phase_changed"
                                      THEN {[rule |-> x.rule, path |-> x.detail.path]} ELSE {})
        BY <4>1, FiredMore, Zenon
      <4> QED
        BY <4>1, <4>2
    <3>5. FiredOn(n)' = FiredOn(n)
      BY <2>1, <3>3, <3>4 DEF FiredOn, FiredIn
    <3>6. FiredOn(Len(decisions) + offset)' = FiredOn(Len(decisions) + offset)
      BY <1>1, <3>1, <3>5
    <3> QED
      BY <1>1, <1>2, <3>6 DEF Before, DecisionAfter, DecisionOn
  <2> QED
    BY <2>4, <2>5
<1> QED
  BY <1>3, <1>4 DEF Logs
\* A step within a bar that leaves the phase and logs no transition.
PhaseStays ==
  /\ SameBar /\ UNCHANGED decisions /\ stage # "bar" /\ trade'.phase = trade.phase
  /\ events' = events \/ \E x : /\ x.bar = Len(bars) /\ x.type # "phase_changed"
                                /\ events' = Append(events, x)

LEMMA MetStays ==
  ASSUME SameBar, Before' = Before
  PROVE  /\ \A ns : MetIn(ns)' = MetIn(ns)
         /\ \A n : Transition(n)' = Transition(n)
         /\ \A met : Leads(met)' = Leads(met)
<1>1. config' = config
  BY DEF SameBar, inputs
<1>2. \A n : ConditionMet(config.phase[n].condition)' <=> ConditionMet(config.phase[n].condition)
  BY <1>1, ConditionStays
<1>3. \A n : WinningPath(config.phase[n].condition)' = WinningPath(config.phase[n].condition)
  BY <1>1, ConditionStays
<1>4. \A ns : MetIn(ns)' = MetIn(ns)
  BY <1>2 DEF MetIn
<1>5. \A n : Transition(n)' = Transition(n)
  BY <1>1, <1>3 DEF Transition
<1>6. \A met : Leads(met)' = Leads(met)
  BY <1>1 DEF Leads
<1> QED
  BY <1>4, <1>5, <1>6

LEMMA PhaseWalkStays ==
  ASSUME ReplayInv, StoryInv, PhaseStays
  PROVE  Before' = Before /\ \A ns : PhaseWalk(ns)' <=> PhaseWalk(ns)
<1>1. Before' = Before
  <2>1. UNCHANGED <<inputs, decisions>> /\ Logs
    BY DEF PhaseStays, SameBar, Logs
  <2> QED
    BY <2>1, BeforeStays
<1>2. /\ \A ns : MetIn(ns)' = MetIn(ns)
      /\ \A n : Transition(n)' = Transition(n)
      /\ \A met : Leads(met)' = Leads(met)
  BY <1>1, MetStays DEF PhaseStays
<1>3. FiredOn(Len(bars))' = FiredOn(Len(bars))
  <2>1. bars' = bars
    BY DEF PhaseStays, SameBar
  <2>2. CASE events' = events
    BY <2>1, <2>2 DEF FiredOn
  <2>3. CASE \E x : x.bar = Len(bars) /\ x.type # "phase_changed" /\ events' = Append(events, x)
    <3>1. PICK x : x.bar = Len(bars) /\ x.type # "phase_changed" /\ events' = Append(events, x)
      BY <2>3
    <3>2. PICK evs, b : evs = events /\ b = Len(bars)
      OBVIOUS
    <3>3. b \in Nat /\ x.bar \in 1..b /\ Dated(evs, b)
      BY <3>1, <3>2, StoryFacts DEF PhaseStays, StoryInv
    <3>4. FiredIn(Append(evs, x), b)
            = FiredIn(evs, b) \cup (IF x.bar = b /\ x.type = "phase_changed"
                                    THEN {[rule |-> x.rule, path |-> x.detail.path]} ELSE {})
      BY <3>3, FiredMore, Zenon
    <3>5. FiredIn(Append(evs, x), b) = FiredIn(evs, b)
      BY <3>1, <3>4
    <3>6. FiredOn(b)' = FiredOn(b)
      BY <3>1, <3>2, <3>5 DEF FiredOn, FiredIn
    <3> QED
      BY <2>1, <3>2, <3>6
  <2> QED
    BY <2>2, <2>3 DEF PhaseStays
<1>4. \A ns : {Transition(n)' : n \in Leads(MetIn(ns))'} = {Transition(n) : n \in Leads(MetIn(ns))}
  BY <1>2
<1>5. config' = config /\ trade'.phase = trade.phase
  BY DEF PhaseStays, SameBar, inputs
<1>6. \A ns : PhaseWalk(ns)' <=> PhaseWalk(ns)
  BY <1>1, <1>2, <1>3, <1>4, <1>5 DEF PhaseWalk
<1> QED
  BY <1>1, <1>6

LEMMA ActiveStays ==
  ASSUME SameBar, trade'.phase = trade.phase
  PROVE  /\ \A section, ns : Active(section, ns)' = Active(section, ns)
         /\ \A ns : OffersOf(ns)' = OffersOf(ns)
<1>1. \A section, ns : Active(section, ns)' = Active(section, ns)
  BY DEF Active
<1>2. config' = config
  BY DEF SameBar, inputs
<1>3. \A n : StopOffer(config.stop[n])' = StopOffer(config.stop[n])
  BY <1>2, OfferStays
<1>4. \A ns : Active(config.stop, ns)' = Active(config.stop, ns)
  BY <1>2 DEF Active
<1>5. \A ns : OffersOf(ns)' = OffersOf(ns)
  BY <1>3, <1>4 DEF OffersOf
<1> QED
  BY <1>1, <1>5

LEMMA StopChosenStays ==
  ASSUME SameBar, Before' = Before, trade'.phase = trade.phase, trade'.stop = trade.stop
  PROVE  StopChosen' <=> StopChosen
<1>1. OffersOf(1..NStop)' = OffersOf(1..NStop)
  <2>1. NStop' = NStop
    BY DEF SameBar, inputs, NStop
  <2> QED
    BY <2>1, ActiveStays
<1>2. side' = side
  BY DEF SameBar, inputs
<1>3. \A s, o : IsBestOf(s, o)' <=> IsBestOf(s, o)
  BY <1>2 DEF IsBestOf, Better
<1> QED
  BY <1>1, <1>3 DEF StopChosen

LEMMA TakeWalkStays ==
  ASSUME SameBar, Before' = Before, trade'.phase = trade.phase, trade'.profile = trade.profile
  PROVE  \A ns : TakeWalk(ns)' <=> TakeWalk(ns)
<1>1. config' = config
  BY DEF SameBar, inputs
<1>2. \A ns : Active(config.take, ns)' = Active(config.take, ns)
  BY <1>1 DEF Active
<1> QED
  BY <1>1, <1>2 DEF TakeWalk

LEMMA BestStays == ASSUME SameBar PROVE BestIs' <=> BestIs
  BY DEF SameBar, inputs, BestIs

LEMMA SizesStay ==
  ASSUME SameBar PROVE NPhase' = NPhase /\ NStop' = NStop /\ NTake' = NTake /\ NExit' = NExit
  BY DEF SameBar, inputs, NPhase, NStop, NTake, NExit
--------------------------------------------------------------------------------
(* The bars.                                                               *)

LEMMA InitParity == Init => ParityInv
<1> SUFFICES ASSUME Init PROVE ParityInv
  OBVIOUS
<1>1. ReplayInv /\ StoryInv
  BY InitReplayInv, InitStory
<1>2. /\ bars = <<>> /\ Len(bars) = 0 /\ decisions = <<>> /\ Len(decisions) = 0 /\ stage = "bar"
      /\ offset \in {0, 1} /\ trade = InitialTrade
  BY DEF Init
<1>3. trade.phase = 0 /\ trade.stop = initialStop /\ trade.profile = "initial" /\ trade.best = Entry
  BY <1>2 DEF InitialTrade
<1>4. Before = Undecided
  BY <1>2 DEF Before, DecisionAfter
<1>5. Before.phase = 0 /\ Before.stop = initialStop /\ Before.profile = "initial"
  BY <1>4 DEF Undecided
<1>6. initialStop \in Price
  BY <1>1 DEF ReplayInv, TypeOK
<1>7. WalkInv
  BY <1>2, <1>3, <1>5, <1>6 DEF WalkInv, Phases
<1>8. BestIs /\ InProgress
  <2>1. Entry \in Int
    BY ReplayAssumption
  <2> QED
    BY <1>2, <1>3, <2>1 DEF BestIs, InProgress
<1> QED
  BY <1>1, <1>7, <1>8 DEF ParityInv

LEMMA SkipEntryBarParity ==
  ASSUME ParityInv, NEW bar \in Bars, SkipEntryBar(bar) PROVE ParityInv'
<1>1. ReplayInv /\ StoryInv /\ ReplayInv' /\ StoryInv'
  <2>1. ReplayInv /\ StoryInv /\ Next
    BY DEF ParityInv, Next
  <2> QED
    BY <2>1, StepReplayInv, StepStory
<1>2. /\ UNCHANGED <<inputs, stage, trade, events, decisions>> /\ stage = "bar"
      /\ bars' = Append(bars, bar) /\ Len(bars) < offset
  BY DEF SkipEntryBar
<1>3. Before' = Before
  <2>1. Logs
    BY <1>2 DEF Logs
  <2> QED
    BY <1>1, <1>2, <2>1, BeforeStays
<1>4. WalkInv'
  BY <1>2, <1>3 DEF ParityInv, WalkInv, Price
<1>5. InProgress'
  BY <1>2 DEF InProgress
<1>6. BestIs'
  <2>1. /\ bars \in Seq(Bars) /\ Len(bars) \in Nat /\ offset \in {0, 1}
    BY <1>1 DEF ReplayInv, TypeOK
  <2>2. Len(bars') = Len(bars) + 1
    BY <1>2, <2>1
  <2>3. (1 + offset)..Len(bars) = {} /\ (1 + offset')..Len(bars') = {}
    BY <1>2, <2>1, <2>2 DEF inputs
  <2>4. side' = side /\ trade' = trade
    BY <1>2 DEF inputs
  <2> QED
    BY <2>3, <2>4 DEF ParityInv, BestIs
<1> QED
  BY <1>1, <1>4, <1>5, <1>6 DEF ParityInv

\* A new bar moves the extreme to what it is with that bar.
LEMMA BestMoves ==
  ASSUME ReplayInv, BestIs, NEW bar \in Bars, NextBar(bar) PROVE BestIs'
<1>1. /\ bars \in Seq(Bars) /\ Len(bars) \in Nat /\ offset \in {0, 1} /\ side \in {"long", "short"}
      /\ trade \in Trades
  BY DEF ReplayInv, TypeOK, Trades
<1>2. /\ \A j \in 1..Len(bars) : bars[j].high \in Int /\ bars[j].low \in Int
      /\ bar.high \in Int /\ bar.low \in Int /\ Entry \in Int /\ trade.best \in Int
  BY RsAre, ConfigAssumption, ReplayAssumption
<1>3. /\ bars' = Append(bars, bar) /\ offset' = offset /\ side' = side /\ Len(bars) >= offset
      /\ trade'.best = IF side = "long" THEN Larger(trade.best, bar.high) ELSE Smaller(trade.best, bar.low)
  BY <1>1 DEF NextBar, inputs, Trades
<1>4. /\ Len(bars') = Len(bars) + 1 /\ bars'[Len(bars) + 1] = bar
      /\ \A j \in 1..Len(bars) : bars'[j] = bars[j]
  BY <1>1, <1>3
<1>5. /\ Len(bars) + 1 \in (1 + offset)..(Len(bars) + 1)
      /\ \A j \in (1 + offset)..(Len(bars) + 1) :
           j = Len(bars) + 1 \/ (j \in (1 + offset)..Len(bars) /\ j \in 1..Len(bars))
      /\ \A j \in (1 + offset)..Len(bars) : j \in 1..Len(bars) /\ j \in (1 + offset)..(Len(bars) + 1)
  BY <1>1, <1>3
<1>6. PICK best, n : best = trade.best /\ n = Len(bars)
  OBVIOUS
<1>7. CASE side = "long"
  <2>1. /\ best = Entry \/ \E j \in (1 + offset)..n : best = bars[j].high
        /\ best >= Entry /\ \A j \in (1 + offset)..n : best >= bars[j].high
    BY <1>6, <1>7 DEF BestIs
  <2>2. PICK now : now = trade'.best
    OBVIOUS
  <2>3. (now = best \/ now = bar.high) /\ now >= best /\ now >= bar.high /\ now \in Int
    BY <1>2, <1>3, <1>6, <1>7, <2>2 DEF Larger
  <2>4. now = Entry \/ \E j \in (1 + offset)..(n + 1) : now = bars'[j].high
    BY <1>4, <1>5, <1>6, <2>1, <2>3
  <2>5. now >= Entry
    BY <1>2, <1>6, <2>1, <2>3
  <2>6. ASSUME NEW j \in (1 + offset)..(n + 1) PROVE now >= bars'[j].high
    <3>1. CASE j = n + 1
      BY <1>4, <1>6, <2>3, <3>1
    <3>2. CASE j \in (1 + offset)..n /\ j \in 1..n
      <4>1. bars'[j] = bars[j] /\ bars[j].high \in Int /\ best >= bars[j].high /\ best \in Int
        BY <1>2, <1>4, <1>6, <2>1, <3>2
      <4> QED
        BY <2>3, <4>1
    <3> QED
      BY <1>5, <1>6, <3>1, <3>2
  <2>7. BestIs' <=> /\ now = Entry \/ \E j \in (1 + offset)..(n + 1) : now = bars'[j].high
                    /\ now >= Entry /\ \A j \in (1 + offset)..(n + 1) : now >= bars'[j].high
    BY <1>3, <1>4, <1>6, <1>7, <2>2 DEF BestIs
  <2> QED
    BY <2>4, <2>5, <2>6, <2>7
<1>8. CASE side # "long"
  <2>1. /\ best = Entry \/ \E j \in (1 + offset)..n : best = bars[j].low
        /\ Entry >= best /\ \A j \in (1 + offset)..n : bars[j].low >= best
    BY <1>6, <1>8 DEF BestIs
  <2>2. PICK now : now = trade'.best
    OBVIOUS
  <2>3. (now = best \/ now = bar.low) /\ best >= now /\ bar.low >= now /\ now \in Int
    BY <1>2, <1>3, <1>6, <1>8, <2>2 DEF Smaller
  <2>4. now = Entry \/ \E j \in (1 + offset)..(n + 1) : now = bars'[j].low
    BY <1>4, <1>5, <1>6, <2>1, <2>3
  <2>5. Entry >= now
    BY <1>2, <1>6, <2>1, <2>3
  <2>6. ASSUME NEW j \in (1 + offset)..(n + 1) PROVE bars'[j].low >= now
    <3>1. CASE j = n + 1
      BY <1>4, <1>6, <2>3, <3>1
    <3>2. CASE j \in (1 + offset)..n /\ j \in 1..n
      <4>1. bars'[j] = bars[j] /\ bars[j].low \in Int /\ bars[j].low >= best /\ best \in Int
        BY <1>2, <1>4, <1>6, <2>1, <3>2
      <4> QED
        BY <2>3, <4>1
    <3> QED
      BY <1>5, <1>6, <3>1, <3>2
  <2>7. BestIs' <=> /\ now = Entry \/ \E j \in (1 + offset)..(n + 1) : now = bars'[j].low
                    /\ Entry >= now /\ \A j \in (1 + offset)..(n + 1) : bars'[j].low >= now
    BY <1>3, <1>4, <1>6, <1>8, <2>2 DEF BestIs
  <2> QED
    BY <2>4, <2>5, <2>6, <2>7
<1> QED
  BY <1>7, <1>8

LEMMA NextBarParity ==
  ASSUME ParityInv, NEW bar \in Bars, NextBar(bar) PROVE ParityInv'
<1>1. ReplayInv /\ StoryInv /\ ReplayInv' /\ StoryInv'
  <2>1. ReplayInv /\ StoryInv /\ Next
    BY DEF ParityInv, Next
  <2> QED
    BY <2>1, StepReplayInv, StepStory
<1>2. /\ UNCHANGED <<inputs, events, decisions>> /\ stage = "bar" /\ stage' = "phase" /\ at' = 1
      /\ bars' = Append(bars, bar) /\ Len(bars) >= offset /\ bars \in Seq(Bars)
      /\ Len(bars) \in Nat /\ Len(bars') = Len(bars) + 1 /\ offset \in {0, 1} /\ offset' = offset
  BY <1>1 DEF NextBar, inputs, ReplayInv, TypeOK
<1>3. /\ trade' = [trade EXCEPT !.barsInTrade = Len(bars) + 1,
                                !.best = IF side = "long" THEN Larger(@, bar.high)
                                                          ELSE Smaller(@, bar.low)]
      /\ trade \in Trades
  BY <1>1 DEF NextBar, ReplayInv, TypeOK, Trades
<1>4. /\ trade'.phase = trade.phase /\ trade'.stop = trade.stop /\ trade'.profile = trade.profile
      /\ trade'.barsInTrade = Len(bars) + 1 /\ trade.phase \in Phases
  BY <1>3 DEF Trades
<1>5. Before' = Before
  <2>1. Logs
    BY <1>2 DEF Logs
  <2> QED
    BY <1>1, <1>2, <2>1, BeforeStays
<1>6. InProgress'
  BY <1>2, <1>4 DEF InProgress
<1>7. FiredOn(Len(bars))' = {}
  <2>1. Dated(events, Len(bars))
    BY <1>1 DEF StoryInv
  <2>2. PICK evs, b : evs = events /\ b = Len(bars)
    OBVIOUS
  <2>3. FiredIn(evs, b + 1) = {}
    BY <1>2, <2>1, <2>2, NotYetFired
  <2>4. FiredOn(b + 1)' = {}
    BY <1>2, <2>2, <2>3 DEF FiredOn, FiredIn
  <2> QED
    BY <1>2, <2>2, <2>4
<1>8. PhaseWalk(1..at - 1)'
  <2>1. 1..at' - 1 = {}
    BY <1>2
  <2>2. trade'.phase = Before'.phase /\ trade'.phase >= Before'.phase
    BY <1>2, <1>4, <1>5 DEF ParityInv, WalkInv, Phases
  <2>3. MetIn({})' = {} /\ Leads({})' = {}
    BY DEF MetIn, Leads
  <2>4. PhaseWalk({})'
    BY <1>7, <2>2, <2>3 DEF PhaseWalk
  <2> QED
    BY <2>1, <2>4
<1>9. WalkInv'
  <2>1. at' <= NPhase' + 1
    <3>1. config' = config /\ config \in Configs
      BY <1>1, <1>2 DEF inputs, ReplayInv, TypeOK
    <3>2. NPhase \in Nat /\ NPhase' = NPhase
      BY <3>1, ConfigFacts DEF NPhase
    <3> QED
      BY <1>2, <3>2
  <2>2. Before'.phase \in Phases /\ Before'.stop \in Price
        /\ trade'.stop = Before'.stop /\ trade'.profile = Before'.profile
    BY <1>2, <1>4, <1>5 DEF ParityInv, WalkInv
  <2> QED
    BY <1>2, <1>8, <2>1, <2>2 DEF WalkInv, Price, Phases
<1>10. BestIs'
  BY <1>1, BestMoves DEF ParityInv
<1> QED
  BY <1>1, <1>6, <1>9, <1>10 DEF ParityInv
--------------------------------------------------------------------------------
(* The phase rules.                                                        *)

\* A met rule leads when it goes beyond the highest phase so far.
LEMMA LeadsMore ==
  ASSUME NEW k \in Nat \ {0}, NEW met \in SUBSET (1..k - 1), Before.phase \in Int,
         \A n \in met \cup {k} : config.phase[n].to \in Int,
         NEW f \in Int, f = Before.phase \/ \E n \in met : f = config.phase[n].to,
         f >= Before.phase, \A n \in met : f >= config.phase[n].to
  PROVE  Leads(met \cup {k}) = Leads(met) \cup (IF config.phase[k].to > f THEN {k} ELSE {})
<1>1. PICK to, b : to = [n \in met \cup {k} |-> config.phase[n].to] /\ b = Before.phase
  OBVIOUS
<1>2. \A s \in SUBSET (met \cup {k}) :
        Leads(s) = {n \in s : to[n] > b /\ \A m \in s : m < n => to[m] < to[n]}
  BY <1>1 DEF Leads
<1>3. /\ \A n \in met \cup {k} : to[n] \in Int
      /\ b \in Int /\ f >= b /\ \A n \in met : f >= to[n]
      /\ config.phase[k].to = to[k]
  BY <1>1
<1>3a. f = b \/ \E n \in met : f = to[n]
  BY <1>1
<1>4. \A n \in met : n \in Int /\ n < k /\ n # k
  OBVIOUS
<1>5. \A n \in met : (\A m \in met \cup {k} : m < n => to[m] < to[n])
                       <=> \A m \in met : m < n => to[m] < to[n]
  BY <1>4
<1>6. (to[k] > b /\ \A m \in met \cup {k} : m < k => to[m] < to[k]) <=> to[k] > f
  <2>1. ASSUME to[k] > f PROVE to[k] > b /\ \A m \in met \cup {k} : m < k => to[m] < to[k]
    <3>1. to[k] > b /\ \A m \in met : to[m] < to[k]
      BY <1>3, <2>1
    <3>2. ~(k < k)
      OBVIOUS
    <3> QED
      BY <3>1, <3>2
  <2>2. ASSUME to[k] > b, \A m \in met \cup {k} : m < k => to[m] < to[k] PROVE to[k] > f
    BY <1>3, <1>3a, <1>4, <2>2
  <2> QED
    BY <2>1, <2>2
<1>7. Leads(met \cup {k}) = {n \in met \cup {k} : to[n] > b /\ \A m \in met \cup {k} : m < n => to[m] < to[n]}
  BY <1>2
<1>8. Leads(met) = {n \in met : to[n] > b /\ \A m \in met : m < n => to[m] < to[n]}
  BY <1>2
<1>9. \A n : n \in Leads(met \cup {k}) <=> n \in Leads(met) \/ (n = k /\ to[k] > f)
  BY <1>4, <1>5, <1>6, <1>7, <1>8
<1>10. config.phase[k].to = to[k]
  BY <1>3
<1>11. Leads(met \cup {k}) = Leads(met) \cup (IF to[k] > f THEN {k} ELSE {})
  <2>1. PICK A, B : A = Leads(met \cup {k}) /\ B = Leads(met)
    OBVIOUS
  <2>2. \A n : n \in A <=> n \in B \/ (n = k /\ to[k] > f)
    BY <1>9, <2>1
  <2>3. CASE to[k] > f
    <3>1. A = B \cup {k}
      BY <2>2, <2>3
    <3> QED
      BY <2>1, <2>3, <3>1
  <2>4. CASE ~(to[k] > f)
    <3>1. A = B
      BY <2>2, <2>4
    <3> QED
      BY <2>1, <2>4, <3>1
  <2> QED
    BY <2>3, <2>4
<1> QED
  BY <1>10, <1>11

\* What holds of the walk through a section at one of its rules.
LEMMA WalkFacts ==
  ASSUME ParityInv
  PROVE  /\ config \in Configs /\ at \in Nat \ {0} /\ trade \in Trades /\ trade.phase \in Phases
         /\ trade.phase \in Int /\ Before.phase \in Int /\ trade.stop \in Int \cup {None}
         /\ NPhase \in Nat /\ NStop \in Nat /\ NTake \in Nat /\ NExit \in Nat
         /\ DOMAIN config.phase = 1..NPhase /\ DOMAIN config.stop = 1..NStop
         /\ DOMAIN config.take = 1..NTake /\ DOMAIN config.runtime = 1..NExit
         /\ \A n \in 1..NPhase : config.phase[n].to \in Int
         /\ None \notin Int /\ side \in {"long", "short"}
<1>1. /\ config \in Configs /\ at \in Nat \ {0} /\ trade \in Trades /\ side \in {"long", "short"}
  BY DEF ParityInv, ReplayInv, TypeOK, Trades
<1>2. trade.phase \in Phases /\ trade.stop \in Int \cup {None}
  BY <1>1 DEF Trades, Price
<1>3. Before.phase \in Phases
  BY DEF ParityInv, WalkInv
<1>4. /\ config.phase \in Seq(ToSet(config.phase)) /\ config.stop \in Seq(ToSet(config.stop))
      /\ config.take \in Seq(ToSet(config.take)) /\ config.runtime \in Seq(ToSet(config.runtime))
      /\ \A n \in DOMAIN config.phase : config.phase[n].to \in Phases
  BY <1>1, ConfigFacts
<1>5. /\ NPhase \in Nat /\ NStop \in Nat /\ NTake \in Nat /\ NExit \in Nat
      /\ DOMAIN config.phase = 1..NPhase /\ DOMAIN config.stop = 1..NStop
      /\ DOMAIN config.take = 1..NTake /\ DOMAIN config.runtime = 1..NExit
  BY <1>4 DEF NPhase, NStop, NTake, NExit
<1>6. \A p \in Phases : p \in Int
  BY DEF Phases
<1>7. \A n \in 1..NPhase : config.phase[n].to \in Int
  BY <1>4, <1>5, <1>6
<1>8. None \notin Int
  BY ReplayAssumption
<1>9. trade.phase \in Int /\ Before.phase \in Int
  BY <1>2, <1>3, <1>6
<1> HIDE DEF Phases
<1> QED
  BY <1>1, <1>2, <1>5, <1>7, <1>8, <1>9

LEMMA PhaseRuleWalk ==
  ASSUME ParityInv, PhaseRule
  PROVE  Before' = Before /\ SameBar /\ PhaseWalk(1..at - 1)'
         /\ trade'.stop = trade.stop /\ trade'.profile = trade.profile
<1> DEFINE r == config.phase[at]
           moves == r.to > trade.phase /\ ConditionMet(r.condition)
<1>1. /\ at \in 1..NPhase /\ at \in Nat \ {0} /\ trade \in Trades /\ trade.phase \in Int
      /\ Before.phase \in Int /\ NPhase \in Nat /\ \A n \in 1..NPhase : config.phase[n].to \in Int
      /\ stage = "phase"
  <2>1. at <= NPhase /\ stage = "phase"
    BY DEF PhaseRule, NPhase
  <2> QED
    BY <2>1, WalkFacts
<1>2. /\ moves => /\ trade' = [trade EXCEPT !.phase = r.to, !.maxPhase = Larger(@, r.to)]
                  /\ events' = Append(events, Event("phase_changed", r.id,
                       [from |-> trade.phase, to |-> r.to, path |-> WinningPath(r.condition)]))
      /\ ~moves => UNCHANGED <<trade, events>>
      /\ UNCHANGED <<inputs, bars, decisions>>
  BY DEF PhaseRule
<1> HIDE DEF r, moves
<1>3. /\ trade'.stop = trade.stop /\ trade'.profile = trade.profile /\ trade'.best = trade.best
      /\ trade'.barsInTrade = trade.barsInTrade
      /\ trade'.phase = IF moves THEN r.to ELSE trade.phase
  BY <1>1, <1>2 DEF Trades
<1>4. SameBar
  BY <1>2, <1>3 DEF SameBar
<1>5. ReplayInv /\ StoryInv /\ PhaseWalk(1..at - 1)
  BY <1>1 DEF ParityInv, WalkInv
<1>6. Before' = Before
  <2>1. Logs
    <3>1. \A type, rule, detail : Event(type, rule, detail).bar = Len(bars)
      BY DEF Event
    <3> QED
      BY <1>1, <1>2, <3>1 DEF Logs
  <2> QED
    BY <1>2, <1>5, <2>1, BeforeStays
<1>7. /\ \A ns : MetIn(ns)' = MetIn(ns)
      /\ \A n : Transition(n)' = Transition(n)
      /\ \A met : Leads(met)' = Leads(met)
  BY <1>4, <1>6, MetStays
<1>8. FiredOn(Len(bars))' = FiredOn(Len(bars)) \cup (IF moves THEN {Transition(at)} ELSE {})
  <2>1. bars' = bars
    BY <1>2
  <2>2. CASE moves
    <3>1. PICK evs, b, x : evs = events /\ b = Len(bars) /\ x = Event("phase_changed", r.id,
            [from |-> trade.phase, to |-> r.to, path |-> WinningPath(r.condition)])
      OBVIOUS
    <3>2. x.bar = b /\ x.type = "phase_changed" /\ x.rule = r.id
          /\ x.detail.path = WinningPath(r.condition)
      BY <3>1 DEF Event
    <3>3. b \in Nat /\ b \in 1..b /\ Dated(evs, b)
      BY <1>1, <1>5, <3>1, StoryFacts DEF StoryInv
    <3>4. FiredIn(Append(evs, x), b)
            = FiredIn(evs, b) \cup (IF x.bar = b /\ x.type = "phase_changed"
                                    THEN {[rule |-> x.rule, path |-> x.detail.path]} ELSE {})
      BY <3>2, <3>3, FiredMore, Zenon
    <3>5. FiredIn(Append(evs, x), b) = FiredIn(evs, b) \cup {Transition(at)}
      BY <3>2, <3>4 DEF Transition, r
    <3>6. FiredOn(b)' = FiredIn(events', b) /\ FiredOn(b) = FiredIn(events, b)
      BY DEF FiredOn, FiredIn
    <3>7. events' = Append(evs, x)
      BY <1>2, <2>2, <3>1
    <3> QED
      BY <2>1, <2>2, <3>1, <3>5, <3>6, <3>7
  <2>3. CASE ~moves
    BY <1>2, <2>1, <2>3 DEF FiredOn
  <2> QED
    BY <2>2, <2>3
<1>9. MetIn(1..at) = MetIn(1..at - 1) \cup (IF ConditionMet(r.condition) THEN {at} ELSE {})
  <2>1. \A n : n \in 1..at <=> n \in 1..at - 1 \/ n = at
    BY <1>1
  <2> QED
    BY <2>1 DEF MetIn, r
<1>10. /\ MetIn(1..at - 1) \subseteq 1..at - 1 /\ r.to \in Int
       /\ \A n \in MetIn(1..at - 1) : config.phase[n].to \in Int
  BY <1>1 DEF MetIn, r
<1>11. PICK k, met, f : k = at /\ met = MetIn(1..at - 1) /\ f = trade.phase
  OBVIOUS
<1>12. /\ f = Before.phase \/ \E n \in met : f = config.phase[n].to
       /\ f >= Before.phase /\ \A n \in met : f >= config.phase[n].to
       /\ FiredOn(Len(bars)) = {Transition(n) : n \in Leads(met)}
  BY <1>5, <1>11 DEF PhaseWalk
<1>12a. f = Before.phase \/ \E n \in met : f = config.phase[n].to
  BY <1>12
<1>13. Leads(met \cup {k}) = Leads(met) \cup (IF config.phase[k].to > f THEN {k} ELSE {})
  <2>1. k \in Nat \ {0} /\ met \in SUBSET (1..k - 1) /\ f \in Int
        /\ \A n \in met \cup {k} : config.phase[n].to \in Int
    BY <1>1, <1>10, <1>11 DEF r
  <2> QED
    BY <1>1, <1>12, <1>12a, <2>1, LeadsMore
<1>14. r = config.phase[k]
  BY <1>11 DEF r
<1>17. 1..at' - 1 = 1..k
  <2>1. at' = at + 1
    BY DEF PhaseRule
  <2> QED
    BY <1>1, <1>11, <2>1
<1>15. CASE moves
  <2>1. MetIn(1..at) = met \cup {k} /\ r.to > f
    BY <1>9, <1>11, <1>15 DEF moves
  <2>2. Leads(met \cup {k}) = Leads(met) \cup {k}
    BY <1>13, <1>14, <2>1
  <2>3. trade'.phase = r.to
    BY <1>3, <1>15
  <2>4. \E n \in met \cup {k} : r.to = config.phase[n].to
    BY <1>14
  <2>5. r.to >= Before.phase /\ \A n \in met \cup {k} : r.to >= config.phase[n].to
    BY <1>1, <1>10, <1>11, <1>12, <1>14, <2>1
  <2>6. FiredOn(Len(bars))' = {Transition(n) : n \in Leads(met \cup {k})}
    BY <1>8, <1>11, <1>12, <1>15, <2>2
  <2>7. config' = config
    BY <1>2 DEF inputs
  <2>8. {Transition(n)' : n \in Leads(met \cup {k})'} = {Transition(n) : n \in Leads(met \cup {k})}
    BY <1>7
  <2>9. PhaseWalk(1..k)'
    <3>1. MetIn(1..k)' = met \cup {k}
      BY <1>7, <1>11, <2>1
    <3> QED
      BY <1>6, <2>3, <2>4, <2>5, <2>6, <2>7, <2>8, <3>1 DEF PhaseWalk
  <2> QED
    BY <1>3, <1>4, <1>6, <1>17, <2>9
<1>16. CASE ~moves
  <2>1. Leads(MetIn(1..at)) = Leads(met) /\ (\A n \in MetIn(1..at) : f >= config.phase[n].to)
        /\ met \subseteq MetIn(1..at)
    <3>1. CASE ConditionMet(r.condition)
      <4>1. MetIn(1..at) = met \cup {k} /\ ~(config.phase[k].to > f)
        BY <1>9, <1>11, <1>14, <1>16, <3>1 DEF moves
      <4>2. f >= config.phase[k].to
        BY <1>1, <1>10, <1>11, <1>14, <4>1
      <4> QED
        BY <1>12, <1>13, <4>1, <4>2
    <3>2. CASE ~ConditionMet(r.condition)
      <4>1. MetIn(1..at) = met
        BY <1>9, <1>11, <3>2
      <4> QED
        BY <1>12, <4>1
    <3> QED
      BY <3>1, <3>2
  <2>2. trade'.phase = f
    BY <1>3, <1>11, <1>16
  <2>3. PICK now : now = MetIn(1..at)
    OBVIOUS
  <2>4. /\ f = Before.phase \/ \E n \in now : f = config.phase[n].to
        /\ f >= Before.phase /\ \A n \in now : f >= config.phase[n].to
        /\ FiredOn(Len(bars))' = {Transition(n) : n \in Leads(now)}
    BY <1>8, <1>12, <1>16, <2>1, <2>3
  <2>5. {Transition(n)' : n \in Leads(now)'} = {Transition(n) : n \in Leads(now)}
    BY <1>7
  <2>6. config' = config
    BY <1>2 DEF inputs
  <2>7. PhaseWalk(1..k)'
    <3>1. MetIn(1..k)' = now
      BY <1>7, <1>11, <2>3
    <3> QED
      BY <1>6, <2>2, <2>4, <2>5, <2>6, <3>1 DEF PhaseWalk
  <2> QED
    BY <1>3, <1>4, <1>6, <1>17, <2>7
<1> QED
  BY <1>15, <1>16

LEMMA Onward ==
  ASSUME ParityInv, Next, SameBar, stage # "bar", WalkInv' PROVE ParityInv'
<1>1. ReplayInv' /\ StoryInv'
  BY StepReplayInv, StepStory DEF ParityInv
<1>2. BestIs'
  BY BestStays DEF ParityInv
<1>3. InProgress'
  BY DEF ParityInv, InProgress, SameBar, inputs
<1> QED
  BY <1>1, <1>2, <1>3 DEF ParityInv

\* The parts of the walk that say nothing of the section it is in.
LEMMA Bounds == ASSUME ParityInv PROVE Before.phase \in Phases /\ Before.stop \in Price
  BY DEF ParityInv, WalkInv

LEMMA PhaseRuleParity == ASSUME ParityInv, PhaseRule PROVE ParityInv'
<1>1. /\ Before' = Before /\ SameBar /\ PhaseWalk(1..at - 1)'
      /\ trade'.stop = trade.stop /\ trade'.profile = trade.profile
  BY PhaseRuleWalk
<1>2. stage = "phase" /\ stage' = "phase" /\ at' = at + 1 /\ at <= NPhase
  BY DEF PhaseRule, NPhase
<1>3. NPhase' = NPhase /\ NPhase \in Nat /\ at \in Nat
  BY <1>1, SizesStay, WalkFacts
<1>4. at' <= NPhase' + 1
  BY <1>2, <1>3
<1>5. trade'.stop = Before'.stop /\ trade'.profile = Before'.profile
  BY <1>1, <1>2 DEF ParityInv, WalkInv
<1>6. Before'.phase \in Phases /\ Before'.stop \in Price
  BY <1>1, Bounds
<1>7. WalkInv'
  BY <1>1, <1>2, <1>4, <1>5, <1>6 DEF WalkInv, Price, Phases
<1> QED
  BY <1>1, <1>2, <1>7, Onward DEF Next

LEMMA PhasesDoneParity == ASSUME ParityInv, PhasesDone PROVE ParityInv'
<1>1. /\ stage = "phase" /\ stage' = "stop" /\ at > NPhase /\ at' = 1 /\ candidates' = <<>>
      /\ UNCHANGED <<inputs, bars, trade, armed, events, decisions>>
  BY DEF PhasesDone, NPhase
<1>2. SameBar /\ PhaseStays /\ ReplayInv /\ StoryInv
  BY <1>1 DEF SameBar, PhaseStays, ParityInv
<1>3. Before' = Before /\ \A ns : PhaseWalk(ns)' <=> PhaseWalk(ns)
  BY <1>2, PhaseWalkStays
<1>4. at - 1 = NPhase /\ PhaseWalk(1..at - 1)
  <2>1. at <= NPhase + 1 /\ PhaseWalk(1..at - 1) /\ NPhase \in Nat /\ at \in Nat
    BY <1>1, WalkFacts DEF ParityInv, WalkInv
  <2> QED
    BY <1>1, <2>1
<1>5. PhaseWalk(1..NPhase)'
  <2>1. NPhase' = NPhase
    BY <1>2, SizesStay
  <2> QED
    BY <1>3, <1>4, <2>1
<1>6. StopWalk(1..at - 1)'
  <2>1. 1..at' - 1 = {}
    BY <1>1
  <2>2. OffersOf({})' = {}
    BY DEF OffersOf, Active
  <2>3. Prices' = {}
    BY <1>1 DEF Prices
  <2>4. StopWalk({})'
    BY <2>2, <2>3 DEF StopWalk
  <2> QED
    BY <2>1, <2>4
<1>7. at' <= NStop' + 1
  <2>1. NStop' = NStop /\ NStop \in Nat
    BY <1>2, SizesStay, WalkFacts
  <2> QED
    BY <1>1, <2>1
<1>8. trade'.stop = Before'.stop /\ trade'.profile = Before'.profile
  BY <1>1, <1>3 DEF ParityInv, WalkInv
<1>9. Before'.phase \in Phases /\ Before'.stop \in Price
  BY <1>3, Bounds
<1>10. WalkInv'
  BY <1>1, <1>5, <1>6, <1>7, <1>8, <1>9 DEF WalkInv, Price, Phases
<1> QED
  BY <1>1, <1>2, <1>10, Onward DEF Next

--------------------------------------------------------------------------------
(* The stops.                                                              *)

LEMMA StopRuleParity == ASSUME ParityInv, StopRule PROVE ParityInv'
<1> DEFINE r == config.stop[at]
           ready == trade.phase >= r.at /\ StopOffer(r) # None
<1>1. /\ stage = "stop" /\ stage' = "stop" /\ at <= NStop /\ at' = at + 1
      /\ UNCHANGED <<inputs, bars, trade, armed, events, decisions>>
      /\ candidates' = IF ready THEN Append(candidates, [price |-> StopOffer(r), rule |-> r.id])
                       ELSE candidates
  BY DEF StopRule, NStop
<1>2. SameBar /\ PhaseStays /\ ReplayInv /\ StoryInv
  BY <1>1 DEF SameBar, PhaseStays, ParityInv
<1>3. Before' = Before /\ \A ns : PhaseWalk(ns)' <=> PhaseWalk(ns)
  BY <1>2, PhaseWalkStays
<1>4. at \in Nat \ {0} /\ NStop \in Nat /\ NStop' = NStop /\ NPhase' = NPhase
  BY <1>2, SizesStay, WalkFacts
<1>5. PhaseWalk(1..NPhase)'
  <2>1. PhaseWalk(1..NPhase)
    BY <1>1 DEF ParityInv, WalkInv
  <2> QED
    BY <1>3, <1>4, <2>1
<1>6. OffersOf(1..at) = OffersOf(1..at - 1) \cup (IF ready THEN {StopOffer(r)} ELSE {})
  <2>1. \A n : n \in 1..at <=> n \in 1..at - 1 \/ n = at
    BY <1>4
  <2>2. \A n : n \in Active(config.stop, 1..at) <=>
                 n \in Active(config.stop, 1..at - 1) \/ (n = at /\ trade.phase >= config.stop[n].at)
    BY <2>1 DEF Active
  <2>3. \A x : x \in OffersOf(1..at) <=> x \in OffersOf(1..at - 1) \/ (ready /\ x = StopOffer(r))
    BY <2>2 DEF OffersOf
  <2> HIDE DEF ready, r
  <2>4. PICK A, B : A = OffersOf(1..at) /\ B = OffersOf(1..at - 1)
    OBVIOUS
  <2>5. \A x : x \in A <=> x \in B \/ (ready /\ x = StopOffer(r))
    BY <2>3, <2>4
  <2>6. CASE ready
    <3>1. A = B \cup {StopOffer(r)}
      BY <2>5, <2>6
    <3> QED
      BY <2>4, <2>6, <3>1
  <2>7. CASE ~ready
    <3>1. A = B
      BY <2>5, <2>7
    <3> QED
      BY <2>4, <2>7, <3>1
  <2> QED
    BY <2>6, <2>7
<1> HIDE DEF ready, r
<1>7. Prices' = Prices \cup (IF ready THEN {StopOffer(r)} ELSE {})
  <2>1. CASE ready
    <3>1. PICK c, x : c = candidates /\ x = [price |-> StopOffer(r), rule |-> r.id]
      OBVIOUS
    <3>2. candidates' = Append(c, x) /\ x.price = StopOffer(r)
      BY <1>1, <2>1, <3>1
    <3>3. c \in Seq(Candidates)
      BY <1>2, <3>1 DEF ReplayInv, TypeOK, Candidates
    <3>4. c \in Seq(Candidates \cup {x}) /\ x \in Candidates \cup {x}
      BY <3>3
    <3>5. /\ DOMAIN Append(c, x) = DOMAIN c \cup {Len(c) + 1} /\ Append(c, x)[Len(c) + 1] = x
          /\ \A m \in DOMAIN c : Append(c, x)[m] = c[m]
      BY <3>4
    <3>6. PICK d : d = Append(c, x)
      OBVIOUS
    <3>7. {d[m].price : m \in DOMAIN d} = {c[m].price : m \in DOMAIN c} \cup {x.price}
      BY <3>5, <3>6
    <3>8. Prices' = {d[m].price : m \in DOMAIN d} /\ Prices = {c[m].price : m \in DOMAIN c}
      BY <3>1, <3>2, <3>6 DEF Prices
    <3> QED
      BY <2>1, <3>2, <3>7, <3>8
  <2>2. CASE ~ready
    BY <1>1, <2>2 DEF Prices
  <2> QED
    BY <2>1, <2>2
<1>8. StopWalk(1..at - 1)'
  <2>1. Prices = OffersOf(1..at - 1)
    BY <1>1 DEF ParityInv, WalkInv, StopWalk
  <2>2. PICK k : k = at
    OBVIOUS
  <2>3. OffersOf(1..k)' = OffersOf(1..k)
    BY <1>1, <1>2, ActiveStays
  <2>4. 1..at' - 1 = 1..k
    BY <1>1, <1>4, <2>2
  <2>5. Prices' = OffersOf(1..k)'
    BY <1>6, <1>7, <2>1, <2>2, <2>3
  <2> QED
    BY <2>4, <2>5 DEF StopWalk
<1>9. at' <= NStop' + 1
  BY <1>1, <1>4
<1>10. trade'.stop = Before'.stop /\ trade'.profile = Before'.profile
  BY <1>1, <1>3 DEF ParityInv, WalkInv
<1>11. Before'.phase \in Phases /\ Before'.stop \in Price
  BY <1>3, Bounds
<1>12. WalkInv'
  BY <1>1, <1>5, <1>8, <1>9, <1>10, <1>11 DEF WalkInv, Price, Phases
<1> QED
  BY <1>1, <1>2, <1>12, Onward DEF Next

\* Among the offers and the stop of the bar before, the replay keeps the best.
LEMMA BestChosen ==
  ASSUME ParityInv, ChooseStop, Before' = Before, SameBar, trade'.phase = trade.phase
  PROVE  StopChosen'
<1>1. /\ stage = "stop" /\ at > NStop /\ trade \in Trades /\ NStop \in Nat /\ at \in Nat
      /\ trade.stop \in Int \cup {None} /\ None \notin Int /\ side \in {"long", "short"}
  BY WalkFacts DEF ChooseStop, NStop
<1>2. Prices = OffersOf(1..NStop)
  <2>1. at <= NStop + 1 /\ StopWalk(1..at - 1)
    BY <1>1 DEF ParityInv, WalkInv
  <2>2. at - 1 = NStop
    BY <1>1, <2>1
  <2> QED
    BY <2>1, <2>2 DEF StopWalk
<1>3. Before.stop = trade.stop
  BY <1>1 DEF ParityInv, WalkInv
<1>4. OffersOf(1..NStop)' = OffersOf(1..NStop)
  <2>1. NStop' = NStop
    BY SizesStay
  <2> QED
    BY <2>1, ActiveStays
<1>5. PICK offers, stop : offers = OffersOf(1..NStop) /\ stop = trade.stop
  OBVIOUS
<1>6. \A s, o : IsBestOf(s, o)' <=> IsBestOf(s, o)
  BY DEF SameBar, inputs, IsBestOf, Better
<1>7. IsBestOf(trade'.stop, (offers \cup {stop}) \ {None})
  <2>0. candidates \in Seq(Candidates)
    BY DEF ParityInv, ReplayInv, TypeOK, Candidates
  <2>1. CASE candidates = <<>>
    <3>1. trade'.stop = stop /\ offers = {}
      BY <1>2, <1>5, <2>1 DEF ChooseStop, Prices
    <3>2. stop # None => ~Better(stop, stop)
      BY <1>1, <1>5 DEF Better
    <3> QED
      BY <3>1, <3>2 DEF IsBestOf
  <2>2. CASE candidates # <<>>
    <3>1. PICK n \in DOMAIN candidates : Chosen = candidates[n] /\ Chosen \in Candidates
      BY <2>2, ChosenIsOffered DEF ParityInv
    <3>2. PICK c : c = Chosen.price
      OBVIOUS
    <3>3. c \in Int /\ c \in offers
      BY <1>2, <1>5, <3>1, <3>2 DEF Candidates, Prices
    <3>4. \A q \in offers : q \in Int
      <4>0. \A m \in DOMAIN candidates : candidates[m] \in Candidates
        BY <2>0
      <4>1. \A m \in DOMAIN candidates : candidates[m].price \in Int
        BY <4>0 DEF Candidates
      <4> QED
        BY <1>2, <1>5, <4>1 DEF Prices
    <3>5. \A q \in offers : ~Better(q, c)
      <4>1. \E m \in DOMAIN candidates : IsFirstBest(m)
        BY <2>2 DEF ParityInv, ReplayInv, HasBest
      <4>2. PICK m \in DOMAIN candidates : Chosen = candidates[m] /\ IsFirstBest(m)
        BY <4>1 DEF Chosen
      <4>3. IsBest(m)
        BY <4>2 DEF IsFirstBest
      <4> QED
        BY <1>2, <1>5, <3>2, <4>2, <4>3 DEF IsBest, Prices
    <3>6. trade'.stop = IF stop = None \/ Better(c, stop) THEN c ELSE stop
      <4>1. Tightened = IF stop = None \/ Better(c, stop) THEN c ELSE stop
        BY <1>5, <3>2 DEF Tightened
      <4>2. trade'.stop = Tightened
        <5>1. CASE Tightened # trade.stop
          BY <1>1, <2>2, <5>1 DEF ChooseStop, Trades
        <5>2. CASE Tightened = trade.stop
          BY <5>2 DEF ChooseStop
        <5> QED
          BY <5>1, <5>2
      <4> QED
        BY <4>1, <4>2
    <3>7. CASE stop = None
      <4>1. trade'.stop = c /\ (offers \cup {stop}) \ {None} = offers
        BY <1>1, <3>4, <3>6, <3>7
      <4> QED
        BY <3>3, <3>5, <4>1 DEF IsBestOf
    <3>8. CASE stop # None
      <4>1. (offers \cup {stop}) \ {None} = offers \cup {stop} /\ stop \in Int
        BY <1>1, <1>5, <3>4, <3>8
      <4>2. trade'.stop \in offers \cup {stop}
        BY <3>3, <3>6
      <4>3. \A q \in offers \cup {stop} : ~Better(q, trade'.stop)
        <5>1. CASE Better(c, stop)
          BY <1>1, <3>3, <3>5, <3>6, <4>1, <5>1 DEF Better
        <5>2. CASE ~Better(c, stop)
          <6>1. trade'.stop = stop
            BY <3>6, <3>8, <5>2
          <6>2. ASSUME NEW q \in offers PROVE ~Better(q, stop)
            <7>1. q \in Int /\ ~Better(q, c)
              BY <3>4, <3>5
            <7> QED
              BY <1>1, <3>3, <4>1, <5>2, <7>1 DEF Better
          <6>3. ~Better(stop, stop)
            BY <1>1, <4>1 DEF Better
          <6> QED
            BY <6>1, <6>2, <6>3
        <5> QED
          BY <5>1, <5>2
      <4> QED
        BY <4>1, <4>2, <4>3 DEF IsBestOf
    <3> QED
      BY <3>7, <3>8
  <2> QED
    BY <2>1, <2>2
<1>8. StopChosen' <=> IsBestOf(trade'.stop, (offers \cup {stop}) \ {None})
  BY <1>3, <1>4, <1>5, <1>6 DEF StopChosen
<1> QED
  BY <1>7, <1>8

LEMMA ChooseStopParity == ASSUME ParityInv, ChooseStop PROVE ParityInv'
<1>1. /\ stage = "stop" /\ stage' = "take" /\ at' = 1
      /\ UNCHANGED <<inputs, bars, candidates, armed, decisions>> /\ trade \in Trades
      /\ \/ UNCHANGED <<trade, events>>
         \/ /\ trade' = [trade EXCEPT !.stop = Tightened, !.stopRule = Chosen.rule]
            /\ events' = Append(events, Event("active_stop_updated", Chosen.rule, [price |-> Tightened]))
  BY WalkFacts DEF ChooseStop
<1>2. /\ trade'.phase = trade.phase /\ trade'.best = trade.best /\ trade'.profile = trade.profile
      /\ trade'.barsInTrade = trade.barsInTrade
  BY <1>1 DEF Trades
<1>3. SameBar /\ ReplayInv /\ StoryInv
  BY <1>1, <1>2 DEF SameBar, ParityInv
<1>4. PhaseStays
  <2>1. \A rule, detail : /\ Event("active_stop_updated", rule, detail).bar = Len(bars)
                          /\ Event("active_stop_updated", rule, detail).type # "phase_changed"
    BY DEF Event
  <2> QED
    BY <1>1, <1>2, <1>3, <2>1 DEF PhaseStays
<1>5. Before' = Before /\ \A ns : PhaseWalk(ns)' <=> PhaseWalk(ns)
  BY <1>3, <1>4, PhaseWalkStays
<1>6. PhaseWalk(1..NPhase)'
  <2>1. PhaseWalk(1..NPhase) /\ NPhase' = NPhase
    BY <1>1, <1>3, SizesStay DEF ParityInv, WalkInv
  <2> QED
    BY <1>5, <2>1
<1>7. StopChosen'
  BY <1>2, <1>3, <1>5, BestChosen
<1>8. TakeWalk(1..at - 1)'
  <2>1. 1..at' - 1 = {}
    BY <1>1
  <2>2. trade'.profile = Before'.profile
    BY <1>1, <1>2, <1>5 DEF ParityInv, WalkInv
  <2>3. TakeWalk({})'
    BY <2>2 DEF TakeWalk, Active
  <2> QED
    BY <2>1, <2>3
<1>9. at' <= NTake' + 1
  <2>1. NTake' = NTake /\ NTake \in Nat
    BY <1>3, SizesStay, WalkFacts
  <2> QED
    BY <1>1, <2>1
<1>10. Before'.phase \in Phases /\ Before'.stop \in Price
  BY <1>5, Bounds
<1>11. WalkInv'
  BY <1>1, <1>6, <1>7, <1>8, <1>9, <1>10 DEF WalkInv, Price, Phases
<1> QED
  BY <1>1, <1>3, <1>11, Onward DEF Next

--------------------------------------------------------------------------------
(* The takes.                                                              *)

LEMMA TakeRuleParity == ASSUME ParityInv, TakeRule PROVE ParityInv'
<1> DEFINE r == config.take[at]
<1>1. /\ stage = "take" /\ stage' = "take" /\ at <= NTake /\ at' = at + 1
      /\ UNCHANGED <<inputs, bars, candidates, armed, decisions>> /\ trade \in Trades
      /\ IF trade.phase >= r.at /\ Profile(r.action) # trade.profile
         THEN /\ trade' = [trade EXCEPT !.profile = Profile(r.action), !.takeRule = r.id]
              /\ events' = Append(events, Event("active_take_updated", r.id,
                                                [profile |-> Profile(r.action)]))
         ELSE UNCHANGED <<trade, events>>
  BY WalkFacts DEF TakeRule, NTake
<1> HIDE DEF r
<1>2. /\ trade'.phase = trade.phase /\ trade'.best = trade.best /\ trade'.stop = trade.stop
      /\ trade'.barsInTrade = trade.barsInTrade
      /\ trade'.profile = IF trade.phase >= r.at THEN Profile(r.action) ELSE trade.profile
  BY <1>1 DEF Trades
<1>3. SameBar /\ ReplayInv /\ StoryInv
  BY <1>1, <1>2 DEF SameBar, ParityInv
<1>4. PhaseStays
  <2>1. \A rule, detail : /\ Event("active_take_updated", rule, detail).bar = Len(bars)
                          /\ Event("active_take_updated", rule, detail).type # "phase_changed"
    BY DEF Event
  <2> QED
    BY <1>1, <1>2, <1>3, <2>1 DEF PhaseStays
<1>5. Before' = Before /\ \A ns : PhaseWalk(ns)' <=> PhaseWalk(ns)
  BY <1>3, <1>4, PhaseWalkStays
<1>6. PhaseWalk(1..NPhase)'
  <2>1. PhaseWalk(1..NPhase) /\ NPhase' = NPhase
    BY <1>1, <1>3, SizesStay DEF ParityInv, WalkInv
  <2> QED
    BY <1>5, <2>1
<1>7. StopChosen'
  BY <1>1, <1>2, <1>3, <1>5, StopChosenStays DEF ParityInv, WalkInv
<1>8. at \in Nat \ {0} /\ NTake \in Nat /\ NTake' = NTake
  BY <1>3, SizesStay, WalkFacts
<1>9. TakeWalk(1..at - 1)'
  <2>1. PICK k, was, now : k = at /\ was = Active(config.take, 1..at - 1)
                           /\ now = Active(config.take, 1..at)
    OBVIOUS
  <2>2. /\ \A n : n \in now <=> n \in was \/ (n = k /\ trade.phase >= r.at)
        /\ k \in Nat /\ \A n \in was : n \in Nat /\ n <= k
    <3>1. \A n : n \in 1..at <=> n \in 1..at - 1 \/ n = at
      BY <1>8
    <3>2. \A n : n \in now <=> n \in was \/ (n = k /\ trade.phase >= r.at)
      BY <2>1, <3>1 DEF Active, r
    <3>3. \A n \in was : n \in 1..k - 1
      BY <2>1 DEF Active
    <3> QED
      BY <1>8, <2>1, <3>2, <3>3
  <2>3. IF was = {} THEN trade.profile = Before.profile
        ELSE \E n \in was : /\ \A m \in was : m <= n
                            /\ trade.profile = Profile(config.take[n].action)
    BY <1>1, <2>1 DEF ParityInv, WalkInv, TakeWalk
  <2>4. IF now = {} THEN trade'.profile = Before'.profile
        ELSE \E n \in now : /\ \A m \in now : m <= n
                            /\ trade'.profile = Profile(config'.take[n].action)
    <3>1. config' = config
      BY <1>1 DEF inputs
    <3>2. CASE trade.phase >= r.at
      <4>1. k \in now /\ \A m \in now : m <= k
        BY <2>2, <3>2
      <4>2. trade'.profile = Profile(config.take[k].action)
        BY <1>2, <2>1, <3>2 DEF r
      <4> QED
        BY <3>1, <4>1, <4>2
    <3>3. CASE ~(trade.phase >= r.at)
      <4>1. now = was
        BY <2>2, <3>3
      <4> QED
        BY <1>2, <1>5, <2>3, <3>1, <3>3, <4>1
    <3> QED
      BY <3>2, <3>3
  <2>5. Active(config.take, 1..at - 1)' = now
    <3>1. config' = config /\ 1..at' - 1 = 1..at
      BY <1>1, <1>8 DEF inputs
    <3> QED
      BY <1>2, <2>1, <3>1 DEF Active
  <2> QED
    BY <2>4, <2>5 DEF TakeWalk
<1>10. at' <= NTake' + 1
  BY <1>1, <1>8
<1>11. Before'.phase \in Phases /\ Before'.stop \in Price
  BY <1>5, Bounds
<1>12. WalkInv'
  BY <1>1, <1>6, <1>7, <1>9, <1>10, <1>11 DEF WalkInv, Price, Phases
<1> QED
  BY <1>1, <1>3, <1>12, Onward DEF Next

LEMMA TakesDoneParity == ASSUME ParityInv, TakesDone PROVE ParityInv'
<1>1. /\ stage = "take" /\ stage' = "runtime" /\ at > NTake /\ at' = 1 /\ armed' = <<>>
      /\ UNCHANGED <<inputs, bars, trade, candidates, events, decisions>>
  BY DEF TakesDone, NTake
<1>2. SameBar /\ PhaseStays /\ ReplayInv /\ StoryInv
  BY <1>1 DEF SameBar, PhaseStays, ParityInv
<1>3. Before' = Before /\ \A ns : PhaseWalk(ns)' <=> PhaseWalk(ns)
  BY <1>2, PhaseWalkStays
<1>4. /\ NPhase' = NPhase /\ NTake' = NTake /\ NExit' = NExit /\ NTake \in Nat /\ NExit \in Nat
      /\ at \in Nat
  BY <1>2, SizesStay, WalkFacts
<1>5. PhaseWalk(1..NPhase)'
  <2>1. PhaseWalk(1..NPhase)
    BY <1>1 DEF ParityInv, WalkInv
  <2> QED
    BY <1>3, <1>4, <2>1
<1>6. StopChosen'
  BY <1>1, <1>2, <1>3, StopChosenStays DEF ParityInv, WalkInv
<1>7. TakeWalk(1..NTake)'
  <2>1. at <= NTake + 1 /\ TakeWalk(1..at - 1)
    BY <1>1 DEF ParityInv, WalkInv
  <2>2. at - 1 = NTake
    BY <1>1, <1>4, <2>1
  <2>3. TakeWalk(1..NTake)
    BY <2>1, <2>2
  <2> QED
    BY <1>1, <1>2, <1>3, <1>4, <2>3, TakeWalkStays
<1>8. ExitWalk(1..at - 1)'
  <2>1. 1..at' - 1 = {}
    BY <1>1
  <2>2. ExitWalk({})'
    BY <1>1 DEF ExitWalk, Active, ToSet
  <2> QED
    BY <2>1, <2>2
<1>9. at' <= NExit' + 1
  BY <1>1, <1>4
<1>10. Before'.phase \in Phases /\ Before'.stop \in Price
  BY <1>3, Bounds
<1>11. WalkInv'
  BY <1>1, <1>5, <1>6, <1>7, <1>8, <1>9, <1>10 DEF WalkInv, Price, Phases
<1> QED
  BY <1>1, <1>2, <1>11, Onward DEF Next

--------------------------------------------------------------------------------
(* The exits.                                                              *)

LEMMA RuntimeRuleParity == ASSUME ParityInv, RuntimeRule PROVE ParityInv'
<1> DEFINE r == config.runtime[at]
           exits(ns) == {n \in Active(config.runtime, ns) : RuntimeSignal(config.runtime[n])}
           arms == trade.phase >= r.at /\ RuntimeSignal(r)
<1>1. /\ stage = "runtime" /\ stage' = "runtime" /\ at <= NExit /\ at' = at + 1
      /\ UNCHANGED <<inputs, bars, trade, candidates, decisions>>
      /\ IF arms THEN /\ armed' = Append(armed, r.id)
                      /\ events' = Append(events, Event("runtime_exit_triggered", r.id, None))
         ELSE UNCHANGED <<armed, events>>
  BY DEF RuntimeRule, NExit
<1>2. SameBar /\ ReplayInv /\ StoryInv
  BY <1>1 DEF SameBar, ParityInv
<1>3. PhaseStays
  <2>1. \A rule, detail : /\ Event("runtime_exit_triggered", rule, detail).bar = Len(bars)
                          /\ Event("runtime_exit_triggered", rule, detail).type # "phase_changed"
    BY DEF Event
  <2> HIDE DEF arms, r
  <2> QED
    BY <1>1, <1>2, <2>1 DEF PhaseStays
<1>4. Before' = Before /\ \A ns : PhaseWalk(ns)' <=> PhaseWalk(ns)
  BY <1>2, <1>3, PhaseWalkStays
<1>5. /\ NPhase' = NPhase /\ NTake' = NTake /\ NExit' = NExit /\ NExit \in Nat
      /\ at \in Nat \ {0}
  BY <1>2, SizesStay, WalkFacts
<1>6. PhaseWalk(1..NPhase)'
  <2>1. PhaseWalk(1..NPhase)
    BY <1>1 DEF ParityInv, WalkInv
  <2> QED
    BY <1>4, <1>5, <2>1
<1>7. StopChosen'
  BY <1>1, <1>2, <1>4, StopChosenStays DEF ParityInv, WalkInv
<1>8. TakeWalk(1..NTake)'
  <2>1. TakeWalk(1..NTake)
    BY <1>1 DEF ParityInv, WalkInv
  <2> QED
    BY <1>1, <1>2, <1>4, <1>5, <2>1, TakeWalkStays
<1>9. PICK k, was, now : k = at /\ was = exits(1..at - 1) /\ now = exits(1..at)
  OBVIOUS
<1>10. now = was \cup (IF arms THEN {k} ELSE {})
  <2>1. \A n : n \in 1..at <=> n \in 1..at - 1 \/ n = at
    BY <1>5
  <2>2. \A n : n \in now <=> n \in was \/ (n = k /\ arms)
    BY <1>9, <2>1 DEF Active
  <2> HIDE DEF arms
  <2> QED
    BY <2>2
<1>11. ToSet(armed') = ToSet(armed) \cup (IF arms THEN {r.id} ELSE {})
  <2> HIDE DEF arms, r
  <2>1. CASE arms
    <3>1. PICK a, x : a = armed /\ x = r.id
      OBVIOUS
    <3>2. a \in Seq(STRING)
      BY <1>2, <3>1 DEF ReplayInv, TypeOK
    <3>3. a \in Seq(STRING \cup {x}) /\ x \in STRING \cup {x}
      BY <3>2
    <3>4. /\ DOMAIN Append(a, x) = DOMAIN a \cup {Len(a) + 1} /\ Append(a, x)[Len(a) + 1] = x
          /\ \A m \in DOMAIN a : Append(a, x)[m] = a[m]
      BY <3>3
    <3>5. PICK d : d = Append(a, x)
      OBVIOUS
    <3>6. {d[m] : m \in DOMAIN d} = {a[m] : m \in DOMAIN a} \cup {x}
      BY <3>4, <3>5
    <3>7. ToSet(d) = ToSet(a) \cup {x}
      BY <3>6 DEF ToSet
    <3>8. armed' = d
      BY <1>1, <2>1, <3>1, <3>5
    <3> QED
      BY <2>1, <3>1, <3>7, <3>8
  <2>2. CASE ~arms
    <3>1. armed' = armed
      BY <1>1, <2>2
    <3> QED
      BY <2>2, <3>1
  <2> QED
    BY <2>1, <2>2
<1>12. ExitWalk(1..at - 1)'
  <2>1. ToSet(armed) = {config.runtime[n].id : n \in was}
    BY <1>1, <1>9 DEF ParityInv, WalkInv, ExitWalk
  <2>2. r = config.runtime[k]
    BY <1>9
  <2> HIDE DEF arms, r
  <2>3. {config.runtime[n].id : n \in now}
          = {config.runtime[n].id : n \in was} \cup (IF arms THEN {r.id} ELSE {})
    BY <1>10, <2>2
  <2>4. ToSet(armed') = {config.runtime[n].id : n \in now}
    BY <1>11, <2>1, <2>3
  <2>5. config' = config /\ 1..at' - 1 = 1..at /\ trade' = trade
    BY <1>1, <1>5 DEF inputs
  <2>6. \A n : RuntimeSignal(config.runtime[n])' <=> RuntimeSignal(config.runtime[n])
    BY <1>2, <2>5, SignalStays
  <2>7. Active(config.runtime, 1..at - 1)' = Active(config.runtime, 1..at)
    BY <2>5 DEF Active
  <2>8. {n \in Active(config.runtime, 1..at - 1)' : RuntimeSignal(config.runtime[n])'} = now
    BY <1>9, <2>6, <2>7
  <2>9. ToSet(armed)' = ToSet(armed')
    BY DEF ToSet
  <2> QED
    BY <2>4, <2>5, <2>8, <2>9 DEF ExitWalk
<1>13. at' <= NExit' + 1
  BY <1>1, <1>5
<1>14. Before'.phase \in Phases /\ Before'.stop \in Price
  BY <1>4, Bounds
<1>15. WalkInv'
  BY <1>1, <1>6, <1>7, <1>8, <1>12, <1>13, <1>14 DEF WalkInv, Price, Phases
<1> QED
  BY <1>1, <1>2, <1>15, Onward DEF Next

\* Once its rules are walked, the bar gets the decision the trade has come to.
LEMMA FinishBarDecides ==
  ASSUME ParityInv, FinishBar
  PROVE  /\ Before' = [phase |-> trade.phase, fired |-> FiredOn(Len(bars)), stop |-> trade.stop,
                       profile |-> trade.profile, armed |-> ToSet(armed)]
         /\ SameBar /\ trade'.phase = trade.phase /\ trade'.stop = trade.stop
         /\ trade'.profile = trade.profile
<1>1. /\ stage = "runtime" /\ stage' = "bar"
      /\ trade' = [trade EXCEPT !.armed = armed] /\ trade \in Trades
      /\ decisions' = Append(decisions, [phase |-> trade.phase, stop |-> trade.stop,
                                         profile |-> trade.profile, armed |-> armed])
      /\ UNCHANGED <<inputs, bars, candidates, armed, events>>
  BY WalkFacts DEF FinishBar
<1>2. /\ trade'.phase = trade.phase /\ trade'.stop = trade.stop /\ trade'.profile = trade.profile
      /\ trade'.best = trade.best /\ trade'.barsInTrade = trade.barsInTrade
  BY <1>1 DEF Trades
<1>3. SameBar
  BY <1>1, <1>2 DEF SameBar
<1>4. PICK d, x : d = decisions /\ x = [phase |-> trade.phase, stop |-> trade.stop,
                                        profile |-> trade.profile, armed |-> armed]
  OBVIOUS
<1>5. d \in Seq(ToSet(d) \cup {x}) /\ x \in ToSet(d) \cup {x}
  <2>1. d \in Seq(ToSet(d))
    BY <1>4 DEF ParityInv, StoryInv
  <2> QED
    BY <2>1
<1>6. Len(d) \in Nat /\ Len(Append(d, x)) = Len(d) + 1 /\ Append(d, x)[Len(d) + 1] = x
  BY <1>5
<1>7. Len(d) + offset + 1 = Len(bars) /\ offset \in {0, 1}
  BY <1>1, <1>4 DEF ParityInv, StoryInv, Paced, ReplayInv, TypeOK
<1>8. decisions' = Append(d, x)
  BY <1>1, <1>4
<1>9. Before' = DecisionOn(Len(d) + 1)'
  BY <1>6, <1>8 DEF Before, DecisionAfter
<1>10. DecisionOn(Len(d) + 1)' =
         [phase |-> x.phase, fired |-> FiredOn(Len(d) + 1 + offset)', stop |-> x.stop,
          profile |-> x.profile, armed |-> ToSet(x.armed)]
  BY <1>6, <1>8 DEF DecisionOn
<1>11. FiredOn(Len(d) + 1 + offset)' = FiredOn(Len(bars))
  <2>1. offset' = offset /\ events' = events
    BY <1>1 DEF inputs
  <2>2. Len(d) + 1 + offset = Len(bars)
    BY <1>6, <1>7
  <2> QED
    BY <2>1, <2>2 DEF FiredOn
<1>12. /\ x.phase = trade.phase /\ x.stop = trade.stop /\ x.profile = trade.profile
       /\ x.armed = armed
  BY <1>4
<1> QED
  BY <1>2, <1>3, <1>9, <1>10, <1>11, <1>12

LEMMA FinishBarParity == ASSUME ParityInv, FinishBar PROVE ParityInv'
<1>1. stage = "runtime" /\ stage' = "bar"
  BY DEF FinishBar
<1>2. /\ Before' = [phase |-> trade.phase, fired |-> FiredOn(Len(bars)), stop |-> trade.stop,
                    profile |-> trade.profile, armed |-> ToSet(armed)]
      /\ SameBar /\ trade'.phase = trade.phase /\ trade'.stop = trade.stop
      /\ trade'.profile = trade.profile
  BY FinishBarDecides
<1>3. /\ trade'.phase = Before'.phase /\ trade'.stop = Before'.stop
      /\ trade'.profile = Before'.profile
  BY <1>2
<1>4. trade.phase \in Phases /\ trade.stop \in Int \cup {None}
  BY WalkFacts
<1>5. WalkInv'
  BY <1>1, <1>2, <1>3, <1>4 DEF WalkInv, Price, Phases
<1> QED
  BY <1>1, <1>2, <1>5, Onward DEF Next

LEMMA StutterParity == ASSUME ParityInv, UNCHANGED vars PROVE ParityInv'
<1>1. ReplayInv /\ StoryInv /\ ReplayInv' /\ StoryInv'
  BY StepReplayInv, StepStory DEF ParityInv
<1>2. UNCHANGED <<inputs, bars, stage, at, trade, candidates, armed, events, decisions>>
  BY DEF vars
<1>3. SameBar
  BY <1>2 DEF SameBar
<1>4. Before' = Before
  BY <1>1, <1>2, BeforeStays DEF Logs
<1>5. \A ns : PhaseWalk(ns)' <=> PhaseWalk(ns)
  <2>1. /\ \A ns : MetIn(ns)' = MetIn(ns)
        /\ \A n : Transition(n)' = Transition(n)
        /\ \A met : Leads(met)' = Leads(met)
    BY <1>3, <1>4, MetStays
  <2>2. \A ns : {Transition(n)' : n \in Leads(MetIn(ns))'} = {Transition(n) : n \in Leads(MetIn(ns))}
    BY <2>1
  <2>3. FiredOn(Len(bars))' = FiredOn(Len(bars))
    BY <1>2 DEF FiredOn
  <2>4. config' = config
    BY <1>2 DEF inputs
  <2> QED
    BY <1>2, <1>4, <2>1, <2>2, <2>3, <2>4 DEF PhaseWalk
<1>6. \A ns : OffersOf(ns)' = OffersOf(ns)
  BY <1>2, <1>3, ActiveStays
<1>7. \A ns : StopWalk(ns)' <=> StopWalk(ns)
  BY <1>2, <1>6 DEF StopWalk, Prices
<1>8. StopChosen' <=> StopChosen
  BY <1>2, <1>3, <1>4, StopChosenStays
<1>9. \A ns : TakeWalk(ns)' <=> TakeWalk(ns)
  BY <1>2, <1>3, <1>4, TakeWalkStays
<1>10. \A ns : ExitWalk(ns)' <=> ExitWalk(ns)
  BY <1>2 DEF ExitWalk, inputs, Active, RuntimeSignal, WindowStart, ToSet
<1>11. NPhase' = NPhase /\ NStop' = NStop /\ NTake' = NTake /\ NExit' = NExit
  BY <1>3, SizesStay
<1>12. WalkInv'
  BY <1>2, <1>4, <1>5, <1>7, <1>8, <1>9, <1>10, <1>11 DEF ParityInv, WalkInv, Price, Phases
<1>13. BestIs' /\ InProgress'
  BY <1>2, <1>3, BestStays DEF ParityInv, InProgress, inputs
<1> QED
  BY <1>1, <1>12, <1>13 DEF ParityInv

LEMMA StepParity == ParityInv /\ [Next]_vars => ParityInv'
<1> SUFFICES ASSUME ParityInv, [Next]_vars PROVE ParityInv'
  OBVIOUS
<1>1. ASSUME NEW bar \in Bars, SkipEntryBar(bar) \/ NextBar(bar) PROVE ParityInv'
  BY <1>1, SkipEntryBarParity, NextBarParity
<1> QED
  BY <1>1, PhaseRuleParity, PhasesDoneParity, StopRuleParity, ChooseStopParity, TakeRuleParity,
     TakesDoneParity, RuntimeRuleParity, FinishBarParity, StutterParity DEF Next

\* On every bar of every trade, of whatever strategy and market, the rules walked so far
\* have made of the trade what the decision on the bar before, the rules and the bar say.
THEOREM WalkInvariance == Spec => []ParityInv
  BY InitParity, StepParity, PTL DEF Spec

--------------------------------------------------------------------------------
(* A bar whose rules are all walked, and what the policy decides on it.    *)

Walked == ParityInv /\ ConfigOK /\ stage = "runtime" /\ at > NExit

LEMMA WalkedFacts ==
  ASSUME Walked
  PROVE  /\ InBar /\ ParityInv /\ ConfigOK /\ PhaseWalk(1..NPhase) /\ StopChosen /\ TakeWalk(1..NTake)
         /\ ExitWalk(1..NExit)
<1>1. /\ ParityInv /\ ConfigOK /\ stage = "runtime" /\ at > NExit
  BY DEF Walked
<1>2. InBar
  BY <1>1 DEF ParityInv, InProgress, InBar
<1>3. PhaseWalk(1..NPhase) /\ StopChosen /\ TakeWalk(1..NTake)
  BY <1>1 DEF ParityInv, WalkInv
<1>4. at <= NExit + 1 /\ ExitWalk(1..at - 1)
  BY <1>1 DEF ParityInv, WalkInv
<1>5. at - 1 = NExit
  BY <1>1, <1>4, WalkFacts
<1> QED
  BY <1>1, <1>2, <1>3, <1>4, <1>5

LEMMA MetIs == ASSUME Walked PROVE Policy!Met(Rs) = MetIn(1..NPhase)
<1>1. InBar /\ ConfigOK
  BY WalkedFacts
<1>2. Policy!OfKind("phase_transition") = 1..NPhase
  BY <1>1, OfKindIs
<1>3. \A n \in 1..NPhase : n \in DOMAIN config.phase
                           /\ ProjectedRules[n] = ProjectedPhase(config.phase[n])
  BY <1>1, RulesAre
<1>4. \A n \in 1..NPhase : Policy!RuleMet(ProjectedRules[n], Rs) <=> ConditionMet(config.phase[n].condition)
  <2> SUFFICES ASSUME NEW n \in 1..NPhase
               PROVE  Policy!RuleMet(ProjectedRules[n], Rs) <=> ConditionMet(config.phase[n].condition)
    OBVIOUS
  <2>1. Policy!RuleMet(ProjectedPhase(config.phase[n]), Rs) <=> ConditionMet(config.phase[n].condition)
    BY <1>1, <1>3, PhaseAgrees
  <2> QED
    BY <1>3, <2>1
<1> QED
  BY <1>2, <1>4 DEF Policy!Met, MetIn

LEMMA DecidesPhase == ASSUME Walked PROVE Policy!PhaseAfter(Before.phase, Rs) = trade.phase
<1>1. ParityInv /\ ConfigOK /\ PhaseWalk(1..NPhase)
  BY WalkedFacts
<1>2. Policy!Met(Rs) = MetIn(1..NPhase)
  BY MetIs
<1>3. \A n \in 1..NPhase : ProjectedRules[n] = ProjectedPhase(config.phase[n])
                           /\ config.phase[n].to \in Int
  BY <1>1, RulesAre, WalkFacts
<1>4. \A n \in MetIn(1..NPhase) : ProjectedRules[n].to = config.phase[n].to /\ config.phase[n].to \in Int
  <2>1. \A r : ProjectedPhase(r).to = r.to
    BY DEF ProjectedPhase
  <2> QED
    BY <1>3, <2>1 DEF MetIn
<1>5. PICK b, f, met, S : /\ b = Before.phase /\ f = trade.phase /\ met = MetIn(1..NPhase)
                          /\ S = {b} \cup {ProjectedRules[n].to : n \in met}
  OBVIOUS
<1>6. b \in Int /\ f \in Int
  BY <1>1, <1>5, WalkFacts
<1>7. f = b \/ \E n \in met : f = config.phase[n].to
  BY <1>1, <1>5 DEF PhaseWalk
<1>8. f >= b /\ \A n \in met : f >= config.phase[n].to
  BY <1>1, <1>5 DEF PhaseWalk
<1>9. S \subseteq Int /\ f \in S /\ \A x \in S : f >= x
  BY <1>4, <1>5, <1>6, <1>7, <1>8
<1>10. Max(S) = f
  BY <1>9, MaxIs
<1> QED
  BY <1>2, <1>5, <1>10, SameExtremes DEF Policy!PhaseAfter

LEMMA DecidesFired == ASSUME Walked PROVE Policy!Fired(Before.phase, Rs) = FiredOn(Len(bars))
<1>1. InBar /\ ConfigOK /\ PhaseWalk(1..NPhase)
  BY WalkedFacts
<1>2. PICK met, lead : met = MetIn(1..NPhase) /\ lead = Leads(met)
  OBVIOUS
<1>3. Policy!Met(Rs) = met
  BY <1>2, MetIs
<1>4. \A n \in met : /\ n \in DOMAIN config.phase /\ ProjectedRules[n] = ProjectedPhase(config.phase[n])
                     /\ ConditionMet(config.phase[n].condition)
  BY <1>1, <1>2, RulesAre DEF MetIn
<1>5. \A n \in met : ProjectedRules[n].to = config.phase[n].to /\ ProjectedRules[n].id = config.phase[n].id
  <2>1. \A r : ProjectedPhase(r).to = r.to /\ ProjectedPhase(r).id = r.id
    BY DEF ProjectedPhase
  <2> QED
    BY <1>4, <2>1
<1>6. {n \in met : /\ ProjectedRules[n].to > Before.phase
                   /\ \A m \in met : m < n => ProjectedRules[m].to < ProjectedRules[n].to} = lead
  BY <1>2, <1>5 DEF Leads
<1>7. \A n \in lead :
        [rule |-> ProjectedRules[n].id,
         path |-> IF ProjectedRules[n].term = None
                  THEN Policy!Min(Policy!Paths(ProjectedRules[n], Rs)) ELSE None] = Transition(n)
  <2> SUFFICES ASSUME NEW n \in lead
               PROVE  [rule |-> ProjectedRules[n].id,
                       path |-> IF ProjectedRules[n].term = None
                                THEN Policy!Min(Policy!Paths(ProjectedRules[n], Rs)) ELSE None]
                        = Transition(n)
    OBVIOUS
  <2>1. n \in met
    BY <1>2 DEF Leads
  <2>2. (IF ProjectedPhase(config.phase[n]).term = None
         THEN Policy!Min(Policy!Paths(ProjectedPhase(config.phase[n]), Rs)) ELSE None)
          = WinningPath(config.phase[n].condition)
    BY <1>1, <1>4, <2>1, PhaseAgrees
  <2>3. (IF ProjectedRules[n].term = None
         THEN Policy!Min(Policy!Paths(ProjectedRules[n], Rs)) ELSE None)
          = WinningPath(config.phase[n].condition)
    BY <1>4, <2>1, <2>2
  <2> QED
    BY <1>5, <2>1, <2>3 DEF Transition
<1>8. FiredOn(Len(bars)) = {Transition(n) : n \in lead}
  BY <1>1, <1>2 DEF PhaseWalk
<1>9. Policy!Fired(Before.phase, Rs) =
        {[rule |-> ProjectedRules[n].id,
          path |-> IF ProjectedRules[n].term = None
                   THEN Policy!Min(Policy!Paths(ProjectedRules[n], Rs)) ELSE None] : n \in lead}
  BY <1>3, <1>6 DEF Policy!Fired
<1> QED
  BY <1>7, <1>8, <1>9

\* The rules of a section that the phase has reached, where they stand.
LEMMA ActiveIs ==
  ASSUME Walked
  PROVE  /\ Policy!Active("stop_action", trade.phase)
              = {NPhase + n : n \in Active(config.stop, 1..NStop)}
         /\ Policy!Active("take_action", trade.phase)
              = {NPhase + NStop + n : n \in Active(config.take, 1..NTake)}
         /\ Policy!Active("runtime_exit", trade.phase)
              = {NPhase + NStop + NTake + n : n \in Active(config.runtime, 1..NExit)}
<1>1. ConfigOK
  BY WalkedFacts
<1>2. /\ Policy!OfKind("stop_action") = Behind(NPhase, NStop)
      /\ Policy!OfKind("take_action") = Behind(NPhase + NStop, NTake)
      /\ Policy!OfKind("runtime_exit") = Behind(NPhase + NStop + NTake, NExit)
  BY <1>1, OfKindIs
<1>3. /\ \A n \in 1..NStop : ProjectedRules[NPhase + n].at = config.stop[n].at
      /\ \A n \in 1..NTake : ProjectedRules[NPhase + NStop + n].at = config.take[n].at
      /\ \A n \in 1..NExit : ProjectedRules[NPhase + NStop + NTake + n].at = config.runtime[n].at
  <2>1. /\ \A r : ProjectedStop(r).at = r.at
        /\ \A r : ProjectedTake(r).at = r.at
        /\ \A r : ProjectedRuntime(r).at = r.at
    BY DEF ProjectedStop, ProjectedTake, ProjectedRuntime
  <2> QED
    BY <1>1, <2>1, RulesAre
<1>4. Policy!Active("stop_action", trade.phase) = {NPhase + n : n \in Active(config.stop, 1..NStop)}
  BY <1>2, <1>3 DEF Policy!Active, Behind, Active
<1>5. Policy!Active("take_action", trade.phase)
        = {NPhase + NStop + n : n \in Active(config.take, 1..NTake)}
  BY <1>2, <1>3 DEF Policy!Active, Behind, Active
<1>6. Policy!Active("runtime_exit", trade.phase)
        = {NPhase + NStop + NTake + n : n \in Active(config.runtime, 1..NExit)}
  BY <1>2, <1>3 DEF Policy!Active, Behind, Active
<1> QED
  BY <1>4, <1>5, <1>6

\* At most one price is the best.
LEMMA OneBest ==
  ASSUME side \in {"long", "short"}, NEW offers, offers \subseteq Int, NEW p \in offers,
         \A q \in offers : ~Better(q, p)
  PROVE  (CHOOSE x \in offers : \A q \in offers : ~Policy!Better(q, x)) = p
<1>1. \A a, b : Policy!Better(a, b) <=> Better(a, b)
  BY DEF Policy!Better, Better
<1>2. \A x \in offers : (\A q \in offers : ~Better(q, x)) => x = p
  BY DEF Better
<1>3. \A x \in offers : (\A q \in offers : ~Policy!Better(q, x)) <=> x = p
  BY <1>1, <1>2
<1> QED
  BY <1>3

LEMMA DecidesStop == ASSUME Walked PROVE Policy!StopAfter(Before.stop, trade.phase, Rs) = trade.stop
<1>1. InBar /\ ParityInv /\ ConfigOK /\ StopChosen
  BY WalkedFacts
<1>2. PICK stop, active, all : /\ stop = Before.stop /\ active = Active(config.stop, 1..NStop)
                               /\ all = (OffersOf(1..NStop) \cup {stop}) \ {None}
  OBVIOUS
<1>3. Policy!Active("stop_action", trade.phase) = {NPhase + n : n \in active}
  BY <1>2, ActiveIs
<1>4. \A n \in active : Policy!Offer(ProjectedRules[NPhase + n], Rs) = StopOffer(config.stop[n])
  <2> SUFFICES ASSUME NEW n \in active
               PROVE  Policy!Offer(ProjectedRules[NPhase + n], Rs) = StopOffer(config.stop[n])
    OBVIOUS
  <2>1. n \in DOMAIN config.stop /\ ProjectedRules[NPhase + n] = ProjectedStop(config.stop[n])
    BY <1>1, <1>2, RulesAre DEF Active
  <2>2. Policy!Offer(ProjectedStop(config.stop[n]), Rs) = StopOffer(config.stop[n])
    BY <1>1, <2>1, OfferAgrees
  <2> QED
    BY <2>1, <2>2
<1>5. {Policy!Offer(ProjectedRules[k], Rs) : k \in Policy!Active("stop_action", trade.phase)}
        = {StopOffer(config.stop[n]) : n \in active}
  BY <1>3, <1>4
<1>6. ({Policy!Offer(ProjectedRules[k], Rs) : k \in Policy!Active("stop_action", trade.phase)}
         \cup {stop}) \ {None} = all
  BY <1>2, <1>5 DEF OffersOf
<1>7. Policy!StopAfter(stop, trade.phase, Rs)
        = IF all = {} THEN None
          ELSE CHOOSE p \in all : \A q \in all : ~Policy!Better(q, p)
  <2> DEFINE best(S) == IF S = {} THEN None
                        ELSE CHOOSE p \in S : \A q \in S : ~Policy!Better(q, p)
  <2>1. Policy!StopAfter(stop, trade.phase, Rs)
          = best(({Policy!Offer(ProjectedRules[k], Rs) : k \in Policy!Active("stop_action", trade.phase)}
                    \cup {stop}) \ {None})
    BY DEF Policy!StopAfter
  <2> HIDE DEF best
  <2>2. Policy!StopAfter(stop, trade.phase, Rs) = best(all)
    BY <1>6, <2>1
  <2> QED
    BY <2>2 DEF best
<1>8. IsBestOf(trade.stop, all)
  BY <1>1, <1>2 DEF StopChosen
<1>9. all \subseteq Int
  <2>1. \A n \in active : StopOffer(config.stop[n]) # None => StopOffer(config.stop[n]) \in Int
    <3>1. ReplayInv /\ bars # <<>>
      BY <1>1, InBarFacts
    <3>2. \A n \in active : n \in DOMAIN config.stop
      BY <1>1, <1>2, WalkFacts DEF Active
    <3> QED
      BY <3>1, <3>2, OfferFacts
  <2>2. stop \in Int \cup {None}
    BY <1>1, <1>2, Bounds DEF Price
  <2> QED
    BY <1>2, <2>1, <2>2 DEF OffersOf
<1>10. CASE all = {}
  BY <1>2, <1>7, <1>8, <1>10 DEF IsBestOf
<1>11. CASE all # {}
  <2>1. PICK p : p = trade.stop
    OBVIOUS
  <2>2. p \in all /\ \A q \in all : ~Better(q, p)
    BY <1>8, <1>11, <2>1 DEF IsBestOf
  <2>3. side \in {"long", "short"}
    BY <1>1, WalkFacts
  <2>4. (CHOOSE x \in all : \A q \in all : ~Policy!Better(q, x)) = p
    BY <1>9, <2>2, <2>3, OneBest
  <2> QED
    BY <1>2, <1>7, <1>11, <2>1, <2>4
<1> QED
  BY <1>10, <1>11

LEMMA DecidesProfile ==
  ASSUME Walked PROVE Policy!ProfileAfter(Before.profile, trade.phase) = trade.profile
<1>1. ParityInv /\ ConfigOK /\ TakeWalk(1..NTake)
  BY WalkedFacts
<1>2. PICK d, active, all : /\ d = NPhase + NStop /\ active = Active(config.take, 1..NTake)
                            /\ all = Policy!Active("take_action", trade.phase)
  OBVIOUS
<1>3. all = {d + n : n \in active} /\ d \in Nat /\ active \subseteq 1..NTake /\ NTake \in Nat
  BY <1>1, <1>2, ActiveIs, WalkFacts, SMTT(30) DEF Active
<1>4. Policy!ProfileAfter(Before.profile, trade.phase)
        = IF all = {} THEN Before.profile ELSE ProjectedRules[Policy!Max(all)].profile
  BY <1>2 DEF Policy!ProfileAfter
<1>5. CASE active = {}
  <2>1. all = {}
    BY <1>3, <1>5
  <2>2. trade.profile = Before.profile
    BY <1>1, <1>2, <1>5 DEF TakeWalk
  <2> QED
    BY <1>4, <2>1, <2>2
<1>6. CASE active # {}
  <2>1. PICK n \in active : /\ \A m \in active : m <= n
                            /\ trade.profile = Profile(config.take[n].action)
    BY <1>1, <1>2, <1>6 DEF TakeWalk
  <2>2. d + n \in all /\ all \subseteq Int /\ \A x \in all : d + n >= x
    BY <1>3, <2>1
  <2>3. Policy!Max(all) = d + n
    BY <2>2, MaxIs, SameExtremes
  <2>4. ProjectedRules[d + n] = ProjectedTake(config.take[n])
    BY <1>1, <1>2, <1>3, RulesAre
  <2>5. ProjectedTake(config.take[n]).profile = Profile(config.take[n].action)
    BY DEF ProjectedTake
  <2>6. all # {}
    BY <2>2
  <2> QED
    BY <1>4, <2>1, <2>3, <2>4, <2>5, <2>6
<1> QED
  BY <1>5, <1>6

LEMMA DecidesArmed == ASSUME Walked PROVE Policy!Armed(trade.phase, Rs) = ToSet(armed)
<1>1. InBar /\ ParityInv /\ ConfigOK /\ ExitWalk(1..NExit)
  BY WalkedFacts
<1>2. PICK d, active : d = NPhase + NStop + NTake /\ active = Active(config.runtime, 1..NExit)
  OBVIOUS
<1>3. Policy!Active("runtime_exit", trade.phase) = {d + n : n \in active}
  BY <1>2, ActiveIs
<1>4. \A n \in active : /\ ProjectedRules[d + n].id = config.runtime[n].id
                        /\ Confirmed(ProjectedRules[d + n], Rs) <=> RuntimeSignal(config.runtime[n])
  <2> SUFFICES ASSUME NEW n \in active
               PROVE  /\ ProjectedRules[d + n].id = config.runtime[n].id
                      /\ Confirmed(ProjectedRules[d + n], Rs) <=> RuntimeSignal(config.runtime[n])
    OBVIOUS
  <2>1. n \in DOMAIN config.runtime /\ ProjectedRules[d + n] = ProjectedRuntime(config.runtime[n])
    BY <1>1, <1>2, RulesAre DEF Active
  <2>2. Confirmed(ProjectedRuntime(config.runtime[n]), Rs) <=> RuntimeSignal(config.runtime[n])
    BY <1>1, <2>1, ExitAgrees
  <2>3. ProjectedRuntime(config.runtime[n]).id = config.runtime[n].id
    BY DEF ProjectedRuntime
  <2> QED
    BY <2>1, <2>2, <2>3
<1>5. Policy!Armed(trade.phase, Rs) =
        {ProjectedRules[k].id : k \in {k \in Policy!Active("runtime_exit", trade.phase) :
                                         Confirmed(ProjectedRules[k], Rs)}}
  BY DEF Policy!Armed, Confirmed
<1>6. {ProjectedRules[k].id : k \in {k \in {d + n : n \in active} : Confirmed(ProjectedRules[k], Rs)}}
        = {config.runtime[n].id : n \in {n \in active : RuntimeSignal(config.runtime[n])}}
  <2>1. ASSUME NEW n \in active, Confirmed(ProjectedRules[d + n], Rs)
        PROVE  RuntimeSignal(config.runtime[n]) /\ ProjectedRules[d + n].id = config.runtime[n].id
    BY <1>4, <2>1
  <2>2. ASSUME NEW n \in active, RuntimeSignal(config.runtime[n])
        PROVE  Confirmed(ProjectedRules[d + n], Rs) /\ ProjectedRules[d + n].id = config.runtime[n].id
    BY <1>4, <2>2
  <2> QED
    BY <2>1, <2>2
<1>7. ToSet(armed) = {config.runtime[n].id : n \in {n \in active : RuntimeSignal(config.runtime[n])}}
  BY <1>1, <1>2 DEF ExitWalk
<1> QED
  BY <1>3, <1>5, <1>6, <1>7

\* What the policy decides on a bar from the decision on the bar before is what the
\* replay decides on it.
LEMMA Decides == ASSUME ParityInv, ConfigOK, FinishBar PROVE Policy!Decide(Before, Rs) = Before'
<1>1. Walked
  BY DEF Walked, FinishBar, NExit
<1>2. /\ Policy!PhaseAfter(Before.phase, Rs) = trade.phase
      /\ Policy!Fired(Before.phase, Rs) = FiredOn(Len(bars))
      /\ Policy!StopAfter(Before.stop, trade.phase, Rs) = trade.stop
      /\ Policy!ProfileAfter(Before.profile, trade.phase) = trade.profile
      /\ Policy!Armed(trade.phase, Rs) = ToSet(armed)
  BY <1>1, DecidesPhase, DecidesFired, DecidesStop, DecidesProfile, DecidesArmed
<1>3. Before' = [phase |-> trade.phase, fired |-> FiredOn(Len(bars)), stop |-> trade.stop,
                 profile |-> trade.profile, armed |-> ToSet(armed)]
  BY FinishBarDecides
<1> QED
  BY <1>2, <1>3 DEF Policy!Decide

--------------------------------------------------------------------------------
(* The refinement: what the policy reads, and its steps.                   *)

Read(s) == [n \in DOMAIN s |-> Reading(s[n])]

\* The projection of a strategy does not change while its trade is replayed.
LEMMA ReadingStays == ASSUME config' = config PROVE \A b : Reading(b)' = Reading(b)
<1> SUFFICES ASSUME NEW b PROVE Reading(b)' = Reading(b)
  OBVIOUS
<1>1. Gates' = Gates /\ InitialRs' = InitialRs /\ Composed' = Composed
  BY DEF Gates, InitialRs, Composed
<1>2. TradeAtoms' = TradeAtoms
  BY <1>1 DEF TradeAtoms
<1>3. \A x : WithChild(x)' = WithChild(x) /\ WithPath(x)' = WithPath(x)
  BY <1>1 DEF WithChild, WithPath
<1>4. ChildKeys' = ChildKeys /\ PathKeys' = PathKeys
  BY <1>1 DEF ChildKeys, PathKeys
<1>5. \A k : ChildOf(k)' = ChildOf(k)
  BY <1>3 DEF ChildOf
<1>6. \A k : IsMarketChild(k)' <=> IsMarketChild(k)
  BY <1>5 DEF IsMarketChild
<1>7. \A k : PathMask(k, b)' <=> PathMask(k, b)
  BY <1>3 DEF PathMask
<1>8. \A k : DistanceAt(k, b)' = DistanceAt(k, b)
  BY <1>1, <1>2, <1>5 DEF DistanceAt
<1>9. DistanceKeys' = DistanceKeys
  BY <1>1, <1>2, <1>4, <1>6 DEF DistanceKeys
<1>10. ConditionsAt(b)' = ConditionsAt(b)
  BY <1>1, <1>4, <1>5, <1>6, <1>7 DEF ConditionsAt
<1> QED
  BY <1>8, <1>9, <1>10 DEF Reading

LEMMA ReadStays == ASSUME config' = config PROVE \A s : Read(s)' = Read(s)
  BY ReadingStays DEF Read

LEMMA RulesStay == ASSUME config' = config PROVE ProjectedRules' = ProjectedRules
  BY DEF ProjectedRules

\* What is read of the bars before the last.
LEMMA ReadFront ==
  ASSUME NEW S, NEW s \in Seq(S), s # <<>>
  PROVE  /\ Len(Read(s)) = Len(Read(Front(s))) + 1
         /\ Read(Front(s)) = SubSeq(Read(s), 1, Len(Read(Front(s))))
         /\ Len(Read(s)) = Len(s)
<1>1. PICK n : n = Len(s)
  OBVIOUS
<1>2. n \in Nat \ {0} /\ DOMAIN s = 1..n
  BY <1>1
<1>3. Front(s) = [j \in 1..n - 1 |-> s[j]]
  BY <1>1, <1>2 DEF Front
<1>4. Read(s) = [j \in 1..n |-> Reading(s[j])]
  BY <1>2 DEF Read
<1>5. Read(Front(s)) = [j \in 1..n - 1 |-> Reading(s[j])]
  <2>1. PICK f : f = Front(s)
    OBVIOUS
  <2>2. DOMAIN f = 1..n - 1 /\ \A j \in 1..n - 1 : f[j] = s[j]
    BY <1>3, <2>1
  <2> QED
    BY <2>1, <2>2 DEF Read
<1>6. PICK a, b : a = Read(s) /\ b = Read(Front(s))
  OBVIOUS
<1>7. Len(a) = n /\ Len(b) = n - 1
  BY <1>2, <1>4, <1>5, <1>6
<1>8. b = SubSeq(a, 1, n - 1)
  <2>1. SubSeq(a, 1, n - 1) = [j \in 1..n - 1 |-> a[j]]
    BY <1>2, <1>7
  <2>2. \A j \in 1..n - 1 : a[j] = Reading(s[j])
    BY <1>2, <1>4, <1>6
  <2> QED
    BY <1>5, <1>6, <2>1, <2>2
<1> QED
  BY <1>1, <1>2, <1>6, <1>7, <1>8

LEMMA FrontOfAppended ==
  ASSUME NEW S, NEW s \in Seq(S), NEW x \in S PROVE Front(Append(s, x)) = s
  BY DEF Front

LEMMA InitImplements == Init => Policy!Init
<1> SUFFICES ASSUME Init PROVE Policy!Init
  OBVIOUS
<1>1. bars = <<>> /\ stage = "bar" /\ decisions = <<>>
  BY DEF Init
<1>2. Finished = <<>>
  BY <1>1 DEF Finished
<1>3. [n \in DOMAIN Finished |-> Reading(Finished[n])] = <<>>
  BY <1>2
<1>4. DecisionAfter(Len(decisions)) = Undecided
  BY <1>1 DEF DecisionAfter
<1> QED
  BY <1>3, <1>4 DEF Policy!Init, Policy!Opening, Undecided

\* A step of the policy, said of what is read and decided.
LEMMA PolicyBar ==
  ASSUME UNCHANGED inputs, Len(Read(Finished)') = Len(Read(Finished)) + 1,
         Read(Finished) = SubSeq(Read(Finished)', 1, Len(Read(Finished))),
         Before' = IF Len(Read(Finished)') <= offset THEN Before
                   ELSE Policy!Decide(Before, Read(Finished)')
  PROVE  Policy!Bar
<1>1. /\ side' = side /\ initialStop' = initialStop /\ offset' = offset
      /\ ProjectedRules' = ProjectedRules
  BY RulesStay DEF inputs
<1> QED
  BY <1>1 DEF Policy!Bar, Read, Before

LEMMA PolicyStutters ==
  ASSUME UNCHANGED inputs, Read(Finished)' = Read(Finished), Before' = Before
  PROVE  UNCHANGED Policy!vars
<1>1. /\ side' = side /\ initialStop' = initialStop /\ offset' = offset
      /\ ProjectedRules' = ProjectedRules
  BY RulesStay DEF inputs
<1> QED
  BY <1>1 DEF Policy!vars, Read, Before

LEMMA SkipEntryBarImplements ==
  ASSUME ParityInv, NEW bar \in Bars, SkipEntryBar(bar) PROVE Policy!Bar
<1>1. /\ UNCHANGED <<inputs, stage, trade, events, decisions>> /\ stage = "bar"
      /\ bars' = Append(bars, bar) /\ Len(bars) < offset /\ bars \in Seq(Bars) /\ offset \in {0, 1}
  BY DEF SkipEntryBar, ParityInv, ReplayInv, TypeOK
<1>2. PICK s, t : s = bars /\ t = Append(bars, bar)
  OBVIOUS
<1>3. /\ t \in Seq(Bars) /\ t # <<>> /\ Front(t) = s /\ Len(t) = Len(s) + 1 /\ Len(s) \in Nat
  <2>1. t \in Seq(Bars) /\ t # <<>> /\ Len(t) = Len(s) + 1 /\ Len(s) \in Nat
    BY <1>1, <1>2
  <2> QED
    BY <1>1, <1>2, <2>1, FrontOfAppended
<1>4. Read(Finished) = Read(s)
  BY <1>1, <1>2 DEF Finished
<1>5. Read(Finished)' = Read(t)
  <2>1. Finished' = t
    BY <1>1, <1>2 DEF Finished
  <2>2. Read(t)' = Read(t)
    BY <1>1, ReadStays DEF inputs
  <2> QED
    BY <2>1, <2>2
<1>6. Len(Read(t)) = Len(Read(s)) + 1 /\ Read(s) = SubSeq(Read(t), 1, Len(Read(s)))
      /\ Len(Read(t)) = Len(t)
  BY <1>3, ReadFront
<1>7. Before' = Before
  BY <1>1, BeforeStays DEF ParityInv, Logs
<1>8. Len(t) <= offset
  BY <1>1, <1>2, <1>3
<1> QED
  BY <1>1, <1>4, <1>5, <1>6, <1>7, <1>8, PolicyBar

LEMMA FinishBarImplements == ASSUME ParityInv, ConfigOK, FinishBar PROVE Policy!Bar
<1>1. /\ UNCHANGED <<inputs, bars>> /\ stage = "runtime" /\ stage' = "bar" /\ bars \in Seq(Bars)
      /\ bars # <<>> /\ Len(bars) >= 1 + offset /\ offset \in {0, 1} /\ Len(bars) \in Nat
  BY DEF FinishBar, ParityInv, ReplayInv, TypeOK, InProgress
<1>2. PICK s : s = bars
  OBVIOUS
<1>3. Read(Finished) = Read(Front(s))
  BY <1>1, <1>2 DEF Finished
<1>4. Read(Finished)' = Read(s)
  <2>1. Finished' = s
    BY <1>1, <1>2 DEF Finished
  <2>2. Read(s)' = Read(s)
    BY <1>1, ReadStays DEF inputs
  <2> QED
    BY <2>1, <2>2
<1>5. /\ Len(Read(s)) = Len(Read(Front(s))) + 1
      /\ Read(Front(s)) = SubSeq(Read(s), 1, Len(Read(Front(s)))) /\ Len(Read(s)) = Len(s)
  BY <1>1, <1>2, ReadFront
<1>6. ~(Len(Read(s)) <= offset)
  BY <1>1, <1>2, <1>5
<1>7. Read(s) = Rs
  BY <1>2 DEF Read, Rs
<1>8. Policy!Decide(Before, Read(s)) = Before'
  BY <1>7, Decides
<1> QED
  BY <1>1, <1>3, <1>4, <1>5, <1>6, <1>8, PolicyBar

LEMMA NextBarImplements ==
  ASSUME ParityInv, NEW bar \in Bars, NextBar(bar) PROVE UNCHANGED Policy!vars
<1>1. /\ UNCHANGED <<inputs, events, decisions>> /\ stage = "bar" /\ stage' = "phase"
      /\ bars' = Append(bars, bar) /\ bars \in Seq(Bars)
  BY DEF NextBar, ParityInv, ReplayInv, TypeOK
<1>2. Finished' = Finished
  <2>1. Front(Append(bars, bar)) = bars
    BY <1>1, FrontOfAppended
  <2>2. Front(bars') = Front(Append(bars, bar))
    BY <1>1
  <2>3. Finished' = Front(bars')
    BY <1>1 DEF Finished
  <2>4. Finished = bars
    BY <1>1 DEF Finished
  <2> QED
    BY <2>1, <2>2, <2>3, <2>4
<1>3. Read(Finished)' = Read(Finished)
  BY <1>1, <1>2, ReadStays DEF inputs
<1>4. Before' = Before
  BY <1>1, BeforeStays DEF ParityInv, Logs
<1> QED
  BY <1>1, <1>3, <1>4, PolicyStutters

\* The steps in the middle of a bar change nothing the policy sees.
LEMMA MidBarImplements ==
  ASSUME ParityInv, UNCHANGED <<inputs, bars, decisions>>, (stage' = "bar") <=> (stage = "bar"), Logs
  PROVE  UNCHANGED Policy!vars
<1>1. Finished' = Finished
  BY DEF Finished
<1>2. Read(Finished)' = Read(Finished)
  BY <1>1, ReadStays DEF inputs
<1>3. Before' = Before
  BY BeforeStays DEF ParityInv
<1> QED
  BY <1>2, <1>3, PolicyStutters

LEMMA StepImplements ==
  ASSUME Distinguishable, ParityInv, [Next]_vars PROVE [Policy!Bar]_(Policy!vars)
<1>1. ConfigOK
  BY DEF ConfigOK, ParityInv, ReplayInv, TypeOK
<1>2. ASSUME NEW bar \in Bars, SkipEntryBar(bar) \/ NextBar(bar) PROVE [Policy!Bar]_(Policy!vars)
  BY <1>2, SkipEntryBarImplements, NextBarImplements
<1>3. CASE FinishBar
  BY <1>1, <1>3, FinishBarImplements
<1>4. \A type, rule, detail : Event(type, rule, detail).bar = Len(bars)
  BY DEF Event
<1>5. CASE PhaseRule \/ PhasesDone \/ StopRule
  <2>1. Logs
    BY <1>4, <1>5 DEF PhaseRule, PhasesDone, StopRule, Logs
  <2>2. UNCHANGED <<inputs, bars, decisions>> /\ ((stage' = "bar") <=> (stage = "bar"))
    BY <1>5 DEF PhaseRule, PhasesDone, StopRule
  <2> QED
    BY <2>1, <2>2, MidBarImplements
<1>6. CASE ChooseStop \/ TakeRule \/ TakesDone
  <2>1. Logs
    BY <1>4, <1>6 DEF ChooseStop, TakeRule, TakesDone, Logs
  <2>2. UNCHANGED <<inputs, bars, decisions>> /\ ((stage' = "bar") <=> (stage = "bar"))
    BY <1>6 DEF ChooseStop, TakeRule, TakesDone
  <2> QED
    BY <2>1, <2>2, MidBarImplements
<1>7. CASE RuntimeRule \/ UNCHANGED vars
  <2>1. Logs
    BY <1>4, <1>7 DEF RuntimeRule, vars, Logs
  <2>2. UNCHANGED <<inputs, bars, decisions>> /\ ((stage' = "bar") <=> (stage = "bar"))
    BY <1>7 DEF RuntimeRule, vars
  <2> QED
    BY <2>1, <2>2, MidBarImplements
<1> QED
  BY <1>2, <1>3, <1>5, <1>6, <1>7 DEF Next

\* For every strategy whose rules can be told apart, every market and every length of a
\* trade, the replay implements the policy a consumer derives from the projection:
\* transitions with their path, stop, take profile and armed exits agree on every bar.
THEOREM ReplayFollowsProjection == ASSUME Distinguishable PROVE Spec => Parity
<1>1. Init => Policy!Init
  BY InitImplements
<1>2. ParityInv /\ [Next]_vars => [Policy!Bar]_(Policy!vars)
  BY StepImplements
<1> QED
  BY <1>1, <1>2, WalkInvariance, PTL DEF Spec, Parity, Policy!Spec
================================================================================
