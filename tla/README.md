# Verification of the Strategy Engine

TLA+ models of the parts of `strategy_engine` whose correctness depends on an order
of steps: concurrent requests over a cache, a memo shared by a batch, incremental
machines that walk bars, and two evaluators of one policy. The models are written
from the code under `src/src/strategy_engine` (paths below are relative to it) and
checked with TLC on small instances; the central invariants are proved for every
value of the constants with TLAPS.

## 1. Inventory

The engine is a stateless HTTP service. It reads committed candles from the Market
Data Service (MDS), computes indicator columns, and evaluates a strategy
specification over them. It persists nothing; a restart loses only caches.

| component | state | operations | interacts with |
| --- | --- | --- | --- |
| episode history query (`strategies/application/query_episode_history.py`) | LRU of slots; per slot a lock and an entry (records, version, `loaded_at`) | `execute`: bounds, slot, revalidate or refresh, page, 409 on a changed version | MDS (concurrent commits, backfill, repair), every concurrent request |
| stack episode (`ema_pullback/stack_episode.py`) | the episode, zone, false break and wave in progress, the touch table | one pass over the bars; operands read the table | predicates, episode query |
| evaluation context (`indicators/evaluation_context.py`) | memo, predicted counts, stack of roots | `plan_roots`, `root`, `memoized`, `compute_through` | every batch variant |
| range batch (`strategies/application/evaluate_range_batch.py`) | the stream in progress | validate, plan, evaluate, stream outcomes, catch engine errors | evaluation context |
| managed replay (`ema_pullback/managed.py`, `managed_composite.py`) | trade state, events, decisions | per bar: extremes, phase, stop, take and runtime rules | open trade projection, projection parity |
| historical managed projection (`historical_managed_projection.py`) | none: rules and series | projected once per candidate | its consumer, the research service |
| open trade projection | none | replay after entry, desired protection, close signal | managed replay, live frame |
| live feature frame (`load_live_feature_frame.py`, `live_calculation/`, `live_calculation_requirements.py`) | none | bounds, plan window, load candles, evaluate, check identity | MDS, every live projection |
| local setups (`ema_pullback/setups.py`) | counters, touch window, rolling columns | one pass over the bars | evaluation |
| open leg and impulse columns (`candles.py`, `leg_*.py`, `pullback_depth.py`, ...) | running extremes, sorted windows, partial candles | one pass over the bars | predicates |
| predicates (`predicates.py`) | columns, memo nodes | parse, resolve, evaluate | episodes, memo, composites |
| contexts, direction, blockers, triggers, risk | masks, memo nodes | evaluated stage by stage | memo, exits |
| exits, historical execution projection, live entry | masks, the price ladder | per bar; plan of the last bar | research service, executor |
| composites and weighted votes | columns | pure | predicates |
| indicators (`indicators/`) | columns | recurrences, higher-timeframe alignment | everything |
| specification validation, identity, catalog, HTTP adapter, wiring | none | parse, reject, format | everything |

Hard behaviours, and what correctness means there:

- *Concurrency*. FastAPI runs the synchronous endpoints on a thread pool, so history
  requests interleave at every point outside a lock, while MDS commits, backfills and
  repairs. Correct: locks are released on every path, pages belong to the version the
  client pinned, a client never sees data go back.
- *Eviction under use*. A request holds a slot that the LRU has dropped.
- *Reference counting across failures*. The memo retains a result only while someone
  is predicted to consume it; predictions may be wrong and computations fail midway.
- *Causality*. What an operand reads on a past bar must not depend on later bars,
  though later bars rewrite the table it reads.
- *Two implementations of one policy*. The replay of a trade and the projection for
  all trades are separate code and must agree.
- *Order of rules inside a bar*, confirmation windows at the start of a trade.
- *Identity twins*. A memo serves a column by its node, and a pre-pass predicts who
  will ask for it; both are code of their own beside the evaluation. Correct: equal
  nodes have equal columns, and what is asked for is what was predicted.
- *Windows*. A live request evaluates a window that a planner derived from the
  specification. One bar short, and a live mask silently differs from the historical
  one.

`PROJECT.json` lists every hazard with its line and the properties that cover it, or says
why none does.

## 2. Plan

| | modules | status |
| --- | --- | --- |
| A | `EpisodeHistory`, proofs | done: safety and liveness checked, lock, page and LRU invariants proved |
| B | `StackEpisode`, proofs | done: every property checked and proved |
| C | `EvaluationMemo` implements `BatchOutcomes`, proofs | done: every invariant and the refinement's safety part proved |
| D | `ManagedReplay`, `ManagedProjection` implements `ManagedPolicy`, proofs | done: every invariant, action property and the refinement proved |
| E | `SetupColumns`, `Setups`, proofs | done, all invariants proved; composites and weighted votes are left |
| F | `WaveOperands`, `WaveSegments`, `Predicates`, `PredicateNodes`, `PredicateHistory` | checked |
| G | `EntryChain`, `ExitPolicy`, `EntryNodes`, `EntryHistory`, proofs | done: every property checked and proved |
| H | `Indicators`, `LiveRequirements`, `LiveWindow`, which composes E, F and G | checked |

Theorems still worth proving: of H, that the planned start leaves room for every requirement
(the sum of the largest spans bounds each pair of them); of F, that equal nodes have equal
columns. `Predicates`, `PredicateNodes`, `Indicators` and `LiveRequirements` declare RECURSIVE
operators, as operands, indicators and predicates nest, and F and H are built on them;
theorems about F and H need the parts without recursion (`WaveOperands`, `WaveSegments`, the
arithmetic of `PlannedStart`) in modules of their own.

## 3. Modules and how they correspond to the code

### A. EpisodeHistory

A request is a client with a program counter; each action is a stretch of `execute`
between two points where other threads can run: reading the bounds, looking up or
creating the slot (under the cache's lock), taking the slot's lock and either serving
the entry or loading, loading the range, storing, answering. `Commit`, `Backfill`,
`Repair` and `Tick` are the market and the clock. A *version* is the content of a
range, which stands for its bounds and `market_data_hash`. Slots are numbered and a
dropped slot is reused only when nobody refers to it.

Requests only ask what a client may ask: a first page, or the next page of a session
with the hash it was given. The bounds a client reads come first, as in the code.

### B. StackEpisode

`Step(bar)` is one iteration of `project_side`; the machine's variables are those of
the pass (`active`, `violation`, `touch_number`, the open zone, the forming wave). The
short side is the long side on mirrored bars. The properties define zones, false
breaks and waves over the *whole* history, and the incremental machine has to match
them on every bar: `RangesAsTraded` for the zones, false breaks and waves, `EpisodesAsDefined`
for the episodes, their touches and their end. Where the two origins a first wave may have
(`Origins`) are equally low, the specification and the code choose differently; the definition
accepts both. `FirstWaveTie` is the specification's choice, which `StackEpisodeTie.cfg` refutes
(section 6). `PastUnchanged` compares final records and
each operand before and after a bar.

### C. EvaluationMemo and BatchOutcomes

`EvaluationMemo` is `EvaluationContext`, with the call stack of nested `memoized` calls
made explicit: consume, hit or miss, compute, return or unwind, leave the root.
`BatchOutcomes` says what the client of a batch sees with no memo at all: each variant's
own outcome, in order, until one fails outside `StrategyEngineError`. `StreamsAsAlone`
is the refinement.

### D. ManagedReplay, ManagedProjection, ManagedPolicy

`ManagedReplay` walks the rules of one bar one action at a time (`NextBar`,
`PhaseRule`, `StopRule`, `ChooseStop`, `TakeRule`, `RuntimeRule`, `FinishBar`), as the
loop of `_evaluate_managed_replay_core` does, with the events and per-bar decisions it
appends. `offset` is `evaluation_start_offset`: 0 for `/managed-replay`, 1 for an open
trade, whose entry bar is in the frame but not evaluated (`SkipEntryBar`).
`fold_phase_paths` is kept: market children of a path become one mask and only trade
children are looked at per bar.

`ManagedProjection` builds what `build_historical_managed_projection` builds: rules,
condition series and distance series, in dictionaries whose keys are made of rule
identities, with the overwriting that follows from that.

`ManagedPolicy` is the consumer's side, one atomic step per bar and every part of the
decision in closed form (the highest target of the met rules, the best of all offers,
the last active take rule, unbroken confirmation windows). The consumer is another
service; the module follows the contract's docstrings (`strategies/contracts.py`) and
the reference consumer of `tests/test_ema_pullback_historical_managed_projection.py`.
`Parity` is the refinement: `readings` are the projected series of the finished bars,
`decision` is the last per-bar decision with its phase events. The contract anchors a
confirmation "no earlier than the trade's entry"; the module anchors it at the first
evaluated bar, which for a historical trade is the entry.

Abstractions: prices and ATRs are integers and percentages are the price distance they
stand for; an ADX/DI gate, a predicate, an RSI or EMA signal is a condition that holds
on a bar for the trade's side or does not (a missing indicator: it does not). The
tolerance of 1e-8 below which a stop is not moved is exact equality.

`ProjectionAssumption` is what the parsers guarantee of a strategy's conditions
(`composite_spec.py`, `static_semantics.py`): which kinds may stand where, and that a path
refers to the children. `ToldApart` is what they do not: that the rules of a section have
an identity each, and that a phase exit asks for no confirmation. The strategies of
`managed_replay` are told apart; those of `ManagedIdentity.cfg` and `managed_confirm`,
where the two sides disagree, are not (`MCToldApart`).

### E. Setups

`NextBar(bar)` is one iteration of `_ema_bounce_counter`; its loop body is three
operators composed in the code's order: `Expired` (a window that ran out counts),
`Trended` (hysteresis of the trend, which empties the count), `Opened` (a touch opens a
window). The columns of `_untouched_anchor` and of `_anchor_stack_width` (`SetupColumns`, which
`LiveWindow` shares) are functions of the history made of `Shifted` and `RollingAny`, as the code makes them of pandas'
`shift` and `rolling`; the properties define them bar by bar instead. A bar is where it
lies relative to the anchor seen from the trade's side, whether the EMAs are stacked,
and the stack's width: all the three setups tell apart. The parameters are positive, as
the parameter readers demand.

### F. Predicates

`WaveOperands` and `WaveSegments` are the columns over the legs of a touch: each is a
function of the frame, the side's episode and a bar, and where the code carries something
from bar to bar (the extreme of the pullback, a sorted window, the range of a forming
candle, the sparse table of a sliding extreme) so does the definition, as a recursive
function over the bars. `Predicates` is the grammar: what the parser accepts, the value of
an operand and the mask of a predicate on a side. `PredicateNodes` is the identity twin:
the node of each operand and predicate, the nodes the pre-pass predicts and the nodes the
evaluation asks for. `PredicateHistory` is the machine: a frame that grows bar by bar,
with an episode that begins, is touched and ends at any of them.

Values are integers; a quotient is taken in whole `Unit`s, as the only thing a predicate
does with it is to compare it. The touch table comes in as `StackEpisode` produces it:
origin at the lowest low since the last touch, peak at the highest high from there.

### G. EntryChain, ExitPolicy, EntryNodes, EntryHistory

`EntryChain` is the sequence of stages from contexts to entries: gates and profiles that
consume a context, direction, the four blockers, setups, the touch and the reclaims of the
anchor, risk. `ExitPolicy` is the exits: the rules, which of them a profile selects, when
an entry is executable, the attribution of its legs, the ladder of partial takes, and both
plans of the live projection. `EntryNodes` is the identity twin of all of them.
`EntryHistory` grows a history bar by bar and evaluates every specification on it; the
specification and the columns are inputs, so there is no state but the bars.

Ratios are whole `Unit`s. `EntryAssumption` says what bars and specifications are: a close is
positive, on which the policy insists (`_positive_close`); ids, lookbacks, confirmations and
percentages are of the kind the specification's validation lets through; triggers and signals are the
ones the evaluation knows; the node of a gate or a column is not what stands for its absence
(`NodesApart`); and a distance divided by the close is a whole number of `Unit`s (`Exact`). The last idealises the
code, whose ratios are rounded floats: where rounding makes one ratio of two distances, the
historical projection orders the two partial takes as declared and the live one by distance,
and nothing here speaks of that. `Among` and `Sorted` stand for filtering and Python's stable sort, written
as functions that the provers can unfold.

### H. Indicators, LiveRequirements, LiveWindow

`Indicators` resamples, evaluates and aligns as `range_evaluator.py` does, in exact
fractions: the candles of a higher timeframe hold the bars of their bucket, whole or not;
a base bar sees the last candle completed when it opens (`bar_open`) or closes.
`LiveRequirements` is the history policy of every kind and component and the planner:
the largest indicator span plus the largest component span before the anchor, back to a
boundary of all timeframes in use. `LiveWindow` is a request: `Request` reads the bounds and
plans, `Commit` is the market going on, `Load` loads the window's candles and evaluates the
columns and the masks (with the modules of E, F and G) on it. The answer keeps the same
evaluation of the whole history beside it, and `LiveAsFull` compares the two bar by bar.

A recursive kind is never exactly independent of where its history begins; its requirement
promises that what is left of the seed is within a tolerance. `LiveAsFull` asks exactly
that: the difference is at most the weight left of the seed times the range of the prices.
The specifications whose masks are compared use EMAs of period 1, which are exact.

## 4. Runs

| run | shows | bounds |
| --- | --- | --- |
| `history_eviction` | the LRU is sound, locks have their refresher, pages are of the request's own version, every request ends | 2 clients, 2 keys, 1 LRU entry, 3 slots: every second request evicts a slot somebody may hold; 2 requests each let a slot be created, lost and recreated, with failing loads |
| `history_paging` | a session pages one version exactly and, since one key is never evicted, a key refreshes once at a time, data never goes back, a 409 is true | 1 key, 4 candles with a repair and a backfill or commit between any two pages of size 1 |
| `history_lost_slot` | violation, see section 6 | 2 clients with 2 requests each, 2 keys, 1 LRU entry, one repair: just enough for one eviction, two slots of a key and a second request |
| `episode` | zones, false breaks, waves, episodes and touches match their definitions; finished records and operands never change | both sides, all histories of up to 8 bars of 6 shapes, `Window` and `BreakBars` 1: two touches, a false break with and without comeback and a break of the stack fit |
| `memo` | the memo retains nothing for nobody, serves what a node evaluates to, computes nothing foreseen twice, and the stream is that of variants alone | 5 nodes (a leaf, a failing leaf, a composition of both, one that uses a leaf twice and fails beyond the catch, one without identity), every pair of 7 variants, memo on and off, predictions right, too low and too high |
| `managed_replay` | the replay implements the policy of its projection, its events tell its decisions, protection only tightens and is attributed, initial-R stops start beyond entry | 3 strategies covering every rule kind, both sides, both offsets, initial risk none, 0 and 2 (2 only for a live trade), all markets of 3 evaluated bars out of 5, ATR missing, 0, 1 and 2: a confirmation window of 3 fits only just |
| `managed_confirm` | violation, see section 6 | |
| `setups` | the trend is on exactly after its confirmation, bounces are counted once and within the budget, rolled columns mean what they are named for | 6 shapes of bar, all histories of up to 7 bars, confirmations, windows and budget 2: a trend starts, fills its budget, breaks inside an open window and starts again; lookbacks are incomplete, complete and slide |
| `operands` | equal nodes have equal columns on either side, the evaluation asks for what was predicted, the sides mirror each other, incremental columns are what they are defined to be, no later bar changes a value (except of the candle that seeds an ATR, section 6) | some 60 operands and 80 predicates of every kind, both grid offsets of a higher timeframe of 2 bars, one fixed prefix with missing values and up to 4 more bars of 2 shapes, an episode that begins, is touched and ends anywhere in them: two touches, a candle before, inside and across each leg |
| `entries` | equal nodes have equal columns, the evaluation consumes the nodes the pre-pass predicts (a setup is one column here), what the projections assert holds, masks agree with a scan, the live plan of a bar is what the longer history finds there | 9 specifications with every component, gates on and off, aligned and contrary contexts; all histories of up to 4 bars of 5 shapes (either side, both, missing values): lookbacks and confirmations of 1 to 3 fit |
| `live` | on every bar an evaluation reads, the planned window gives what the whole history gives, a higher-timeframe RSI and weeks left out (section 6) | 10 specifications, timeframes of 1, 2 and 3 bars, anchors 0 and 1 bars before targets 0 and 1 bars before the latest, 7 or 8 bars of 2 shapes: long enough that each specification's window begins after the history does, short enough that it is clipped too |
| `live_higher` | violation, see section 6 | 1 specification |

Deadlock checking is off in every run because each model stops at its bound: requests
are used up, histories have their length, a batch ends.

**Fairness.** `history_eviction` assumes weak fairness of each client's `Handle`: its
thread keeps running, and MDS calls have timeouts, so a load ends or raises. Python's
locks are not fair, and a slot could in principle be taken by others forever; requests
are bounded per client, so that does not arise here. `memo` assumes weak fairness of
`Next`: the batch runs on one thread. No fairness is put on the market or on callers.

Every property has a mutant: a variant of one action, as a plausible bug would have it,
under which TLC finds the property violated (`PROJECT.json`, "mutants").

## 5. Proofs

Proved with TLAPS, for every value of the constants that meets the modules' `ASSUME`s.

- `EpisodeHistory_proofs`, four invariants, each over the one before. `IInv` is `TypeOK`,
  `LockedByRefresher`, `PagesOwnVersion` and the shape of a request at each program counter
  (a loading request holds its slot, a loaded range has the bounds of the request).
  `PagesOwnVersion` alone is not inductive: it needs that what a refresh stored or
  revalidated has the bounds of the request that did it. `LruSound` is carried by its own
  step lemma over `IInv`. `Sessions` says of the pages a client has collected that they are
  consecutive pieces of one version (`PagesOK`), and of a request in progress that it asks
  for the piece that follows (`Asks`); `SessionsAreExact` needs no more, and holds with any
  number of evictions. The other three do not: a request may hold a slot the LRU has
  dropped, and `EpisodeHistoryRunOnce.cfg` and the run `history_lost_slot` exhibit what
  follows. They are theorems under `KeysFit` (the keys in use fit in the LRU, so nothing is
  evicted). `InLru` then ties every waiting request to the one slot of its key, which gives
  `ComputedByOne`; `Fresh` orders versions (no entry, loaded range or response is newer than
  the market, and what a key's slot has or is about to have is newer than every response
  from it), which gives `ReadsAreMonotonic` and `ConflictsAreGenuine`.
- `StackEpisode_proofs`: `Core` is the types, what the counters and the phase say of each
  other (`Control`), the order of the touch table (`Table`: the rows of an episode stand
  together and count from 1) and that the forming wave has the extremes of its bars. `TypeOK`
  follows. `Past` adds that the last row is open exactly in the phase that says so, and
  that what operands read of past bars is in the table; `PastIsUnchanged` then goes through the
  rewrites a step can make: only the last row, and only what is not final in it.
  The second half first classifies each step by what it does to the last row (a zone goes on, is reached again, settles, is revealed to be broken, a false break lasts or ends, a
  new touch begins) and shows that each keeps `Ranges`: the extremes, spans and marks of a row
  are those of its bars, which `Traded` turns into the statement about raw prices of either side.
  The rest is about `EpisodesAsDefined`: `WavesInv` adds the bounds of the episodes as maximal stretches
  (`Bounds`), that a touch begins after the one before was closed (`Followed`), that every
  approach to the anchor is accounted for by a touch (`Counted`), how an episode's end
  closes its last row (`Ended`), and the origin and peak of the forming and the finished waves.
  The invariant knows which origin the machine has on a tie (`FromLeft`); `OriginIs` derives that
  it is one of the `Origins`.
- `EvaluationMemo_proofs`: `MInv` is `TypeOK`, the shape of the stack (a root at the
  bottom, strictly smaller nodes above, frames that will retain still have consumers)
  and `NoEntryWithoutConsumer`; `TInv` adds `MemoMeaning`, what each frame has consumed,
  and what the exception in flight means. `MemoIsTransparent` maps each step of the memo
  to a step of `BatchOutcomes` or a stutter. `CountsKept` is about a sum over all roots: `SumMoved`
  says what changing the counts of one root does to it, and `CInv` adds that a root that has
  ended expects nothing. `ComputedOnce` needs to know where a computed result is
  (`AtHand`): in the memo, being computed by a frame that will retain it, or expected by nobody.
- `Managed_proofs`, the trade: `ReplayInv` adds to `TypeOK` and `ProtectionAttributed` that the
  extreme is at or beyond the entry, that the stop is never behind the receipt's, that
  every candidate is an offer of a rule whose phase was reached, and that the candidates
  have a first best one. The last is what makes `max()` defined; it is carried from
  append to append (`BestOfMore`).
  `ProtectionAttributed` alone is not inductive: a stop that moves must not land on the
  receipt's stop again. From it follow `InitialRStopsBeyondEntry` (with
  `TrailWithinExcursion`: no rule acts further than the excursion that triggered it) and
  `PhaseAndStopNeverRegress`. `EventsTellTheWholeStory` needs `StoryInv`: what the log says on the
  current bar is what the trade has, what it says on a bar of the past is what that bar's
  decision has, and the exits armed so far are the end of the log. The lemmas `SaidStill`,
  `SaidLast` and `SaidNextBar` are what one more event, or bar, does to what a log says.
  Assumed of a strategy is what its parser guarantees (`ConfigAssumption`).
- `Managed_proofs`, the projection, proves `ReplayFollowsProjection`: `Distinguishable` implies
  `Spec => Parity`, the refinement. It is about two evaluators that share no state, so the
  inductive invariant `ParityInv` has to say what the replay's walk has computed so far in
  the closed form the policy uses. `BestIs`: the running extreme is the best price of the
  evaluated bars. `WalkInv`: the phase after the rules walked is the highest target of
  those that held and were ahead (`PhaseWalk`); the stop offers are those of the active rules walked
  (`StopWalk`); the take profile is that of the last active one (`TakeWalk`); the armed
  exits are the active ones that signalled (`ExitWalk`). `WalkInvariance` proves it with no
  hypothesis. The other half is the projection read back: a series looked up by its key is
  the series of its rule (here uniqueness of identities is needed), a path of a composite
  holds in the policy exactly if it does in the replay though one folds its market part
  into a mask and the other splits it into terms, a rule's stop from a projected distance
  is the rule's offer, and an unbroken run of `confirm` conditions is the replay's
  window. `FinishBarImplements` puts the two together, one part of the decision
  at a time; the bars in between stutter (`MidBarImplements`), and a bar in progress is not
  yet among the policy's readings (`NextBarImplements`, `SkipEntryBarImplements`).
- `Setups_proofs`: `CounterInv` is `TypeOK` and `RoomForPending` (an open window lies in a
  trend and its bounce still fits the budget), without which counting a window when it
  runs out could pass `MaxBounces`. Each of the three stretches of the loop body keeps
  it (`ExpiredKeeps`, `TrendedKeeps`, `OpenedKeeps`); `BudgetIsKept` follows.
  `SetupsAreAsDefined` needs `TraceInv`, which ties the counter to the history: the two runs of
  the trend are the lengths of the stretches that end on the last bar, and the count is the
  number of windows since the trend began that have run out. The rolled columns have no state;
  for them a window of `RollingAny` is related to a quantifier over the bars, by the greatest bar in it.
- `EntryHistory_proofs`: the only state is the history, so the inductive invariant is its type
  (`HistoryTyped`) and the work is in the operators. `ProjectionsAssert`: a direction is
  one-sided, and every mask and plan lies within it (`OneSide`); the least ratio of
  the selected rules is the ratio of one of them, so a leg finds its rule (`LeastOf`, `LegIs`);
  readiness gives every partial take a ratio (`LadderIs`). `MasksScan`: the running index of the last
  strong bar is the greatest strong bar so far (`PeakIs`), so there is none exactly if the window has no strong bar; a held crossing is an
  unbroken run of adverse bars after one that is not (`CrossScanned`). `LivePlansTheHistorical` is an action
  property and relates two evaluations, of the history and of one that is a bar longer. Frames
  that hold the same bars up to a bar (`Alike`) give every mask of the chain, and so the
  opportunity, the same value there (`EntryAlike`, `OpportunityAlike`): the historical projection
  does not look ahead. On one frame, the ratio times the close is the distance (`Divides`), which
  orders the same way (`SameOrder`), so the least of one is the least of the other
  (`LeastScaled`), and sorting puts the partial takes in one order (`PlacesAlike`).
- `EntryNodes_proofs` adds the identities of the columns. `PrepassPredicts` counts: `Times` is how often
  an element stands in a list, it adds up over joined and flattened lists (`TimesJoined`,
  `FlattenedSums`, by induction over the number of pieces), so the evaluation's order, stage
  by stage, and the pre-pass's, side by side, count each node alike (`StagesAdd`, `ExitsAdd`).
  `NodesTell` sorts whatever is asked for into classes by the kind of its node
  (`Classed`): direction, blocker, gated mask, conjunction, setup, trigger, signal, distance and the aggregates
  and selections of the policy. Kinds of different classes differ, so
  equal nodes are of one class, and within each a node determines what its column is computed from
  (`ContextSame`, `GatedSame`, `ProfileSame`, `IntrinsicSame`, `DistanceSame`, ...). The cases that
  are not immediate are those where a node says less than its inputs: an aggregate and a conjunction
  keep a *set* of nodes, so two lists of rules that differ in order, number or instance must give
  one minimum, one disjunction, one conjunction (`AggregateSame`, `ConjunctionsAre`); a gate
  is in the node by its regimes and context and not by its instance; a context is named by the columns it reads, not by its reference.
- `InductionLemmas`: the library's induction theorems take a predicate as a parameter, which
  these provers cannot instantiate; here induction is a fact about a *set* (of numbers,
  of subsets of a finite set), from which follow the least and greatest number of a set
  and the sums of `EvaluationMemo_proofs`.

The assumptions are on the constants and are checked by TLC for every run's values: `None`
is apart from everything it stands in for, bars have prices in the order low, close, high, ratios
are exact (`EntryAssumption`), and what the parsers of the repository guarantee. Two hypotheses come on top, each where it is
needed: `KeysFit`, for the three properties an eviction breaks, and `Distinguishable`,
which the strategies of the passing run meet and the code does not enforce. Section 6 shows
what happens without either.

Only model-checked: liveness, and the runs `operands` and `live`, whose modules recurse over operands,
predicates and indicators. Liveness, ENABLED, recursive operators and induction over data are
beyond this prover.

## 6. Disagreements between the code and its documents

Three are runs; the other configurations are kept beside the modules, and TLC refutes
each of them in the same way (`tlc -config <configuration> <MC module>`).

| run or configuration | code | document |
| --- | --- | --- |
| `history_lost_slot` | a request that still holds an evicted slot refreshes it after a repair and answers from the repaired data; the slot that replaced it in the LRU keeps what was loaded before, and the same client's next request, within the revalidation interval, is answered from that | "losing it only costs a recompute" |
| `managed_confirm` | the replay ignores `confirm_bars` of a `phase_runtime_exit`, the projection emits it | outputs identical, "runtime-exit trigger bar and rule identity" included |
| `live_higher` | an RSI of period p needs p + 1 candles, its requirement is p; on a higher timeframe, where the anchor's own candle is not complete, the column is missing at the start of a lookback | the planner "SHALL NOT produce a `from_ms` that leaves any part of the component's lookback window backed by not-yet-valid indicator values" |
| `EpisodeHistoryRunOnce.cfg` | an eviction during a refresh lets a second refresh of the key run | "Concurrent misses or revalidations for the same key run once." |
| `EpisodeHistoryRepair.cfg` | `loaded_at` is read after the load and the computation, so a repair in between is seen later than `revalidate_seconds` after it | "a repaired historical candle is picked up within `revalidate_seconds`" |
| `StackEpisodeTie.cfg` | on a tie with a later low the first wave keeps the contact left of the episode as its origin: `update_forming` moves the origin to a strictly lower low only | "a tie going to the running lowest low" |
| `ManagedIdentity.cfg` | projected series are keyed by `rule_id`, which nothing checks to be unique | outputs identical, "phase transition timestamps" included |
| `CandleSettled.cfg` | the candle that seeds the Wilder ATR has no ATR while it is the last of the series, and one when the next bar exists | "The pullback value on bar `t` SHALL depend only on bars up to `t`" |
| `LiveWindowWeek.cfg` | the planner aligns to multiples of a week from the epoch, a Thursday, the resample to Mondays, so a weekly window may begin inside its first candle | the range "SHALL back a complete leading higher-timeframe candle" |

## 7. Not modelled

- Composites and weighted votes: a conjunction, a disjunction or a weighted sum over the
  masks of `Predicates`, on one bar; their parsing and their node identities.
- ADX, DI and the recursive RSI (`rsi_ewm`): only their history requirement is there, and
  of `rsi_ewm` the convergence is given. The rounding of floating-point arithmetic, which
  makes the code's recurrences approximate the fractions of `Indicators`.
- Gaps in the candles of a window, and what the market data service answers wrongly: the
  client rejects both before the modelled code sees them.
- Specification parsing beyond predicates, the feature plan, the catalog, the HTTP adapter,
  wiring and scripts: no state, no order of steps; tests over literal documents reach them.
- Evidence and traces kept for display.

MDS is the environment of the modules that call it. `PROJECT.json` gives the reason for
each component.
