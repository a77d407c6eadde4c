---------------------------- MODULE MCManagedReplay ----------------------------
(* Instances for TLC: a trade entered at 10, five bars that reach different *)
(* excursions with and without an ATR, and strategies that use every kind  *)
(* of rule.                                                                *)
EXTENDS ManagedProjection

MCBar(high, low, atr, value, market) ==
  [high |-> high, low |-> low, atr |-> atr, value |-> value, market |-> market]

MCBars ==
  {MCBar(12, 9, 1, 5, {"adx", "up"}), MCBar(11, 8, None, None, {"rsi"}),
   MCBar(14, 6, 2, 7, {"adx", "rsi", "up"}), MCBar(10, 10, 0, 3, {}),
   MCBar(12, 7, 1, 6, {"rsi", "cross"})}

Atom(kind, threshold) == [kind |-> kind, threshold |-> threshold]
OnMarket(kind, name) == [kind |-> kind, name |-> name]
Change(op, threshold) == [kind |-> "change_since_entry", op |-> op, threshold |-> threshold]

PhaseTo(id, to, condition) == [id |-> id, to |-> to, condition |-> condition]
BreakEven(id, phase, buffer, action) ==
  [id |-> id, at |-> phase, kind |-> "break_even_stop", buffer |-> buffer, action |-> action]
LockProfit(id, phase, action) ==
  [id |-> id, at |-> phase, kind |-> "lock_profit_stop", buffer |-> "atr", action |-> action]
InitialRStop(kind, id, phase, trigger, action) ==
  [id |-> id, at |-> phase, kind |-> kind, trigger |-> trigger, action |-> action]
Take(id, phase, action) == [id |-> id, at |-> phase, action |-> action]
SignalExit(id, phase, kind, signal, confirm) ==
  [id |-> id, at |-> phase, kind |-> kind, signal |-> signal, confirm |-> confirm]
PhaseExit(id, phase, close, confirm) ==
  [id |-> id, at |-> phase, kind |-> "phase_runtime_exit", close |-> close, confirm |-> confirm]

\* Every atom, a stop of each legacy kind, two signal exits.
Ladder ==
  [phase |-> <<PhaseTo("proven", 1, OnMarket("adx_di_threshold", "adx")),
               PhaseTo("protected", 2, Atom("mfe_atr", 2)),
               PhaseTo("runner", 3, Atom("mfe_pct", 3)),
               PhaseTo("exhausted", 4, Atom("bars_in_trade", 3))>>,
   stop |-> <<BreakEven("be", 2, "none", 0), LockProfit("lock", 3, 1)>>,
   take |-> <<Take("off", 3, "disable_fixed_tp")>>,
   runtime |-> <<PhaseExit("close", 4, TRUE, 1),
                 SignalExit("rsi", 1, "rsi_signal_exit", "rsi", 2)>>]

\* Initial-R conditions and stops, a rule behind a higher one, and two take rules
\* that disagree.
InitialRisks ==
  [phase |-> <<PhaseTo("two_r", 2, Atom("mfe_r", 2)), PhaseTo("one_r", 1, Atom("mfe_r", 1))>>,
   stop |-> <<BreakEven("be", 1, "atr", 1),
              InitialRStop("initial_r_lock_stop", "lock_r", 0, 1, 1),
              InitialRStop("initial_r_trailing_stop", "trail", 0, 2, 1)>>,
   take |-> <<Take("off", 1, "disable_fixed_tp"), Take("keep", 2, "keep_initial")>>,
   runtime |-> <<SignalExit("cross", 0, "ema_cross_loss_exit", "cross", 1)>>]

\* Composite conditions: market and trade children, votes of each kind.
Composites ==
  [phase |->
     <<PhaseTo("mixed", 2,
         [kind |-> "composite_phase_condition",
          children |-> [adx |-> OnMarket("adx_di_threshold", "adx"),
                        up |-> OnMarket("predicate", "up"), held |-> Atom("bars_in_trade", 2),
                        rise |-> Change(">=", 1), gain |-> Atom("mfe_pct", 4)],
          paths |-> <<[require |-> {"adx", "held"}, k |-> 0, of |-> {}],
                      [require |-> {}, k |-> 2, of |-> {"rise", "gain", "up"}]>>]),
       PhaseTo("market_vote", 1,
         [kind |-> "composite_phase_condition",
          children |-> [adx |-> OnMarket("adx_di_threshold", "adx"),
                        rsi |-> OnMarket("predicate", "rsi"), fall |-> Change("<", 0),
                        held |-> Atom("bars_in_trade", 3), gain |-> Atom("mfe_atr", 2)],
          paths |-> <<[require |-> {"fall"}, k |-> 1, of |-> {"adx", "rsi"}],
                      [require |-> {}, k |-> 2, of |-> {"held", "gain"}]>>])>>,
   stop |-> <<BreakEven("be", 1, "none", 1)>>,
   take |-> <<Take("own", 2, "trail_only")>>,
   runtime |-> <<SignalExit("rsi", 0, "rsi_signal_exit", "rsi", 3)>>]

MCConfigs == {Ladder, InitialRisks, Composites}

\* A phase exit with a confirmation, and two phase rules of one identity.
ConfirmedPhaseExit ==
  {[phase |-> <<>>, stop |-> <<>>, take |-> <<>>, runtime |-> <<PhaseExit("close", 0, TRUE, 2)>>]}
SharedIdentity ==
  {[phase |-> <<PhaseTo("up", 1, Atom("mfe_pct", 1)), PhaseTo("up", 2, Atom("mfe_pct", 4))>>,
    stop |-> <<>>, take |-> <<>>, runtime |-> <<>>]}

\* The rules of the three strategies can be told apart, those of the last two cannot.
ASSUME MCToldApart ==
  /\ \A c \in MCConfigs : ToldApart(c)
  /\ \A c \in ConfirmedPhaseExit \cup SharedIdentity : ~ToldApart(c)
================================================================================
