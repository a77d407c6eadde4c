--------------------------- MODULE EpisodeHistory ---------------------------
(***************************************************************************)
(* The episode history query (strategies/application/                      *)
(* query_episode_history.py): concurrent requests over one bounded LRU of  *)
(* per-key slots, each slot a lock and the history computed last.  A key   *)
(* is (ticker, base_timeframe, params_hash).  The committed candles belong *)
(* to the Market Data Service, which commits, backfills and repairs them   *)
(* at any moment.                                                          *)
(*                                                                         *)
(* A data version is the content of a candle range: the function from the  *)
(* open times of the range to the revision of each candle.  It stands for  *)
(* both the range's bounds and its market_data_hash.                       *)
(***************************************************************************)
EXTENDS Integers, SequencesExt

CONSTANTS
    Clients,       \* callers; each has at most one request in flight
    Keys,          \* history keys
    Slots,         \* slot objects, numbered
    None,          \* Python's None
    MaxEntries,    \* max_entries of the LRU
    Revalidate,    \* revalidate_seconds
    Limit,         \* page.limit
    Horizon,       \* candles a market may ever commit: open times 1..Horizon
    InitialTimes,  \* the open times committed at the start
    Finished(_),   \* start times of the finished episodes of a version
    MaxRepairs, MaxClock, MaxRequests  \* model bounds

VARIABLES
    candles,     \* the committed candles: open time -> revision
    clock,       \* the monotonic clock
    lru,         \* EpisodeHistoryCache._slots, the oldest first
    entry,       \* slot.entry
    lock,        \* slot.lock: its holder
    pc, req,     \* where each request is, and what it asks
    slotOf,      \* the slot a request holds a reference to
    loaded,      \* the candle range a refresh has loaded
    answered,    \* the entry a request pages from
    asked,       \* requests each client has issued
    session,     \* pages a client has collected, newest first
    seen,        \* history: the version each client was served last, per key
    repairedAt   \* history: when each candle was repaired last

env == <<candles, clock, repairedAt>>
requests == <<pc, req, slotOf, loaded, answered, asked, session, seen>>
vars == <<env, requests, lru, entry, lock>>

Times == 1..Horizon
Ranges == {S \in SUBSET Times : \E a, b \in Times : S = a..b}
Versions == UNION {[S -> 0..MaxRepairs] : S \in Ranges}
Entries == [version : Versions, loadedAt : 0..MaxClock]
Cells == [key : Keys, slot : Slots]
Requests == [key : Keys, before : Times \union {None},
             pin : Versions \union {None}, bounds : Ranges]
Answers == [version : Versions, page : SUBSET Times,
            next : Times \union {None}]
NoSession == [key |-> None, answers |-> <<>>]

ASSUME ConstantsAssumption ==
    /\ MaxEntries \in Nat \ {0}
    /\ Limit \in Nat \ {0}
    /\ Revalidate \in Nat
    /\ Horizon \in Nat /\ MaxRepairs \in Nat /\ MaxClock \in Nat /\ MaxRequests \in Nat
    /\ None \notin Clients \union Slots \union Keys \union Times
    /\ IsFiniteSet(Clients) /\ IsFiniteSet(Slots) /\ Slots \subseteq Nat
    /\ Cardinality(Slots) >= Cardinality(Clients) + MaxEntries
    /\ None \notin Versions /\ None \notin Entries
    /\ InitialTimes \in Ranges /\ InitialTimes # {}
    /\ \A v \in Versions : Finished(v) \subseteq DOMAIN v

Committed == DOMAIN candles

-----------------------------------------------------------------------------
(* The Market Data Service and the clock.                                  *)

Commit ==
    \E t \in Times \ Committed :
        /\ t - 1 \in Committed
        /\ candles' = [u \in Committed \union {t} |->
                          IF u = t THEN 0 ELSE candles[u]]
        /\ UNCHANGED <<clock, repairedAt, requests, lru, entry, lock>>

Backfill ==
    \E t \in Times \ Committed :
        /\ t + 1 \in Committed
        /\ candles' = [u \in Committed \union {t} |->
                          IF u = t THEN 0 ELSE candles[u]]
        /\ UNCHANGED <<clock, repairedAt, requests, lru, entry, lock>>

Repair ==
    \E t \in Committed :
        /\ candles[t] < MaxRepairs
        /\ candles' = [candles EXCEPT ![t] = @ + 1]
        /\ repairedAt' = [repairedAt EXCEPT ![t] = clock]
        /\ UNCHANGED <<clock, requests, lru, entry, lock>>

Tick ==
    /\ clock < MaxClock
    /\ clock' = clock + 1
    /\ UNCHANGED <<candles, repairedAt, requests, lru, entry, lock>>

-----------------------------------------------------------------------------
(* The caller: the first page of a key, or the next page of its session,   *)
(* pinned to the hash of the first page.  load_bounds comes before any     *)
(* lock: its answer is already old when it is used.                        *)

NextPage(c) ==
    LET last == session[c].answers[Len(session[c].answers)]
    IN  [key |-> session[c].key, before |-> last.next,
         pin |-> last.version, bounds |-> Committed]

Resting == {"idle", "served", "conflict", "failed"}

Open(c, r, s) ==
    /\ pc[c] \in Resting
    /\ asked[c] < MaxRequests
    /\ asked' = [asked EXCEPT ![c] = @ + 1]
    /\ req' = [req EXCEPT ![c] = r]
    /\ session' = [session EXCEPT ![c] = s]
    /\ pc' = [pc EXCEPT ![c] = "bounded"]
    /\ UNCHANGED <<env, lru, entry, lock, slotOf, loaded, answered, seen>>

AskFirstPage(c) ==
    \E k \in Keys :
        Open(c, [key |-> k, before |-> None, pin |-> None, bounds |-> Committed],
             [key |-> k, answers |-> <<>>])

AskNextPage(c) ==
    /\ session[c].answers # <<>>
    /\ session[c].answers[Len(session[c].answers)].next # None
    /\ Open(c, NextPage(c), session[c])

\* The slots nobody refers to: a new slot object is the first of them.
Free == {s \in Slots : /\ \A c \in Clients : slotOf[c] # s
                       /\ \A i \in DOMAIN lru : lru[i].slot # s}

\* Mutant: evicts only beyond one entry too many.
KeepOneTooMany(l) == IF Len(l) > MaxEntries + 1
                     THEN SubSeq(l, Len(l) - MaxEntries, Len(l)) ELSE l

\* while len(self._slots) > self._max_entries: popitem(last=False)
Keep(l) == IF Len(l) > MaxEntries
           THEN SubSeq(l, Len(l) - MaxEntries + 1, Len(l)) ELSE l

\* The key's slot becomes the newest, and the oldest ones are evicted.
Use(c, others, s) ==
    /\ lru' = Keep(Append(others, [key |-> req[c].key, slot |-> s]))
    /\ slotOf' = [slotOf EXCEPT ![c] = s]
    /\ pc' = [pc EXCEPT ![c] = "slotted"]
    /\ UNCHANGED <<env, lock, req, loaded, answered, asked, session, seen>>

\* EpisodeHistoryCache.slot, one critical section under the cache's lock.
FindSlot(c) ==
    /\ pc[c] = "bounded"
    /\ \E i \in DOMAIN lru :
           lru[i].key = req[c].key /\ Use(c, RemoveAt(lru, i), lru[i].slot)
    /\ UNCHANGED entry

NewSlot(c) ==
    /\ pc[c] = "bounded"
    /\ \A i \in DOMAIN lru : lru[i].key # req[c].key
    /\ \E s \in Free :
           /\ \A r \in Free : s <= r
           /\ entry' = [entry EXCEPT ![s] = None]
           /\ Use(c, lru, s)

\* Mutant: validity by age alone.
ValidByAge(e, r) == e # None /\ clock - e.loadedAt <= Revalidate

Valid(e, r) ==
    /\ e # None
    /\ DOMAIN e.version = r.bounds
    /\ clock - e.loadedAt <= Revalidate

Conflict(e, r) == r.pin # None /\ r.pin # e.version

\* The end of the locked section: the 409 of a pinned request whose version
\* is not the entry's (the caller must restart from the first page), or the
\* entry to page from.
Leave(c, e) ==
    /\ slotOf' = [slotOf EXCEPT ![c] = None]
    /\ loaded' = [loaded EXCEPT ![c] = None]
    /\ IF Conflict(e, req[c])
       THEN /\ pc' = [pc EXCEPT ![c] = "conflict"]
            /\ session' = [session EXCEPT ![c] = NoSession]
            /\ UNCHANGED <<answered, seen>>
       ELSE /\ pc' = [pc EXCEPT ![c] = "paging"]
            /\ answered' = [answered EXCEPT ![c] = e]
            /\ seen' = [seen EXCEPT ![c][req[c].key] = e.version]
            /\ UNCHANGED session

\* An exception of the Market Data Service or of the computation: the caller
\* gets an error and no page.
Fail(c) ==
    /\ slotOf' = [slotOf EXCEPT ![c] = None]
    /\ loaded' = [loaded EXCEPT ![c] = None]
    /\ pc' = [pc EXCEPT ![c] = "failed"]
    /\ session' = [session EXCEPT ![c] = NoSession]
    /\ UNCHANGED <<env, lru, entry, req, answered, asked, seen>>

\* load_bounds raises, or the stream is not ready.
BoundsFail(c) == pc[c] = "bounded" /\ Fail(c) /\ UNCHANGED lock

\* Mutant: the pin is compared before the entry is known to be valid.
ServeCachedPinFirst(c) ==
    /\ pc[c] = "slotted"
    /\ lock[slotOf[c]] = None
    /\ entry[slotOf[c]] # None
    /\ Valid(entry[slotOf[c]], req[c]) \/ Conflict(entry[slotOf[c]], req[c])
    /\ Leave(c, entry[slotOf[c]])
    /\ UNCHANGED <<env, lru, entry, lock, req, asked>>

ServeCached(c) ==
    /\ pc[c] = "slotted"
    /\ lock[slotOf[c]] = None
    /\ Valid(entry[slotOf[c]], req[c])
    /\ Leave(c, entry[slotOf[c]])
    /\ UNCHANGED <<env, lru, entry, lock, req, asked>>

\* Mutant: refreshes without waiting for the slot's lock.
StartRefreshUnlocked(c) ==
    /\ pc[c] = "slotted"
    /\ ~ Valid(entry[slotOf[c]], req[c])
    /\ lock' = [lock EXCEPT ![slotOf[c]] = c]
    /\ pc' = [pc EXCEPT ![c] = "loading"]
    /\ UNCHANGED <<env, lru, entry, req, slotOf, loaded, answered, asked, session, seen>>

StartRefresh(c) ==
    /\ pc[c] = "slotted"
    /\ lock[slotOf[c]] = None
    /\ ~ Valid(entry[slotOf[c]], req[c])
    /\ lock' = [lock EXCEPT ![slotOf[c]] = c]
    /\ pc' = [pc EXCEPT ![c] = "loading"]
    /\ UNCHANGED <<env, lru, entry, req, slotOf, loaded, answered, asked, session, seen>>

LoadRange(c) ==
    /\ pc[c] = "loading"
    /\ loaded' = [loaded EXCEPT ![c] = Restrict(candles, req[c].bounds)]
    /\ pc' = [pc EXCEPT ![c] = "loaded"]
    /\ UNCHANGED <<env, lru, entry, lock, req, slotOf, answered, asked, session, seen>>

\* Either branch of _refresh (recomputed, or kept because the hash is the
\* same) ends in an entry of the loaded version, stamped with the clock
\* after the load and the computation.
Store(c) ==
    LET e == [version |-> loaded[c], loadedAt |-> clock]
    IN  /\ pc[c] = "loaded"
        /\ entry' = [entry EXCEPT ![slotOf[c]] = e]
        /\ lock' = [lock EXCEPT ![slotOf[c]] = None]
        /\ Leave(c, e)
        /\ UNCHANGED <<env, lru, req, asked>>

\* Mutant: a failed refresh does not release the lock.
RefreshFailLocked(c) == pc[c] \in {"loading", "loaded"} /\ Fail(c) /\ UNCHANGED lock

\* Mutant: a failed refresh leaves a half-built entry behind.
RefreshFailStores(c) ==
    /\ pc[c] \in {"loading", "loaded"}
    /\ entry' = [entry EXCEPT ![slotOf[c]] = [version |-> None, loadedAt |-> clock]]
    /\ lock' = [lock EXCEPT ![slotOf[c]] = None]
    /\ slotOf' = [slotOf EXCEPT ![c] = None]
    /\ loaded' = [loaded EXCEPT ![c] = None]
    /\ pc' = [pc EXCEPT ![c] = "failed"]
    /\ session' = [session EXCEPT ![c] = NoSession]
    /\ UNCHANGED <<env, lru, req, answered, asked, seen>>

\* load_range or the computation raises: the lock is released and the slot's
\* entry is what it was.
RefreshFail(c) ==
    /\ pc[c] \in {"loading", "loaded"}
    /\ lock' = [lock EXCEPT ![slotOf[c]] = None]
    /\ Fail(c)

\* _page.  The rank of a start is its index in history.starts, so the number
\* of starts below the cursor is bisect_left(starts, before_start_ms).
Rank(S, t) == Cardinality({u \in S : u < t})

\* Mutant: bisect_right; the episode at the cursor is served again.
UpperRight(starts, before) ==
    IF before = None THEN Cardinality(starts) ELSE Rank(starts, before + 1)

Upper(starts, before) ==
    IF before = None THEN Cardinality(starts) ELSE Rank(starts, before)

Lower(starts, before) ==
    LET upper == Upper(starts, before) IN IF upper > Limit THEN upper - Limit ELSE 0

PageOf(starts, before) ==
    {t \in starts : Rank(starts, t) \in Lower(starts, before)..Upper(starts, before) - 1}

NextBefore(starts, before) ==
    IF Lower(starts, before) > 0
    THEN {t \in starts : Rank(starts, t) = Lower(starts, before)}
    ELSE {None}

Answer(c) ==
    LET v == answered[c].version
    IN  /\ pc[c] = "paging"
        /\ \E n \in NextBefore(Finished(v), req[c].before) :
               session' = [session EXCEPT ![c].answers =
                   Append(@, [version |-> v, next |-> n,
                              page |-> PageOf(Finished(v), req[c].before)])]
        /\ pc' = [pc EXCEPT ![c] = "served"]
        /\ answered' = [answered EXCEPT ![c] = None]
        /\ UNCHANGED <<env, lru, entry, lock, req, slotOf, loaded, asked, seen>>

-----------------------------------------------------------------------------
Init ==
    /\ candles = [t \in InitialTimes |-> 0]
    /\ clock = 0
    /\ lru = <<>>
    /\ entry = [s \in Slots |-> None]
    /\ lock = [s \in Slots |-> None]
    /\ pc = [c \in Clients |-> "idle"]
    /\ req = [c \in Clients |-> None]
    /\ slotOf = [c \in Clients |-> None]
    /\ loaded = [c \in Clients |-> None]
    /\ answered = [c \in Clients |-> None]
    /\ asked = [c \in Clients |-> 0]
    /\ session = [c \in Clients |-> NoSession]
    /\ seen = [c \in Clients |-> [k \in Keys |-> None]]
    /\ repairedAt = [t \in Times |-> 0]

\* What the engine does for a request; the rest is the caller's.
Handle(c) ==
    \/ BoundsFail(c) \/ FindSlot(c) \/ NewSlot(c)
    \/ ServeCached(c) \/ StartRefresh(c)
    \/ LoadRange(c) \/ Store(c) \/ RefreshFail(c)
    \/ Answer(c)

Ask(c) == AskFirstPage(c) \/ AskNextPage(c)

Market == Commit \/ Backfill \/ Repair \/ Tick

Next == Market \/ \E c \in Clients : Ask(c) \/ Handle(c)

Spec == Init /\ [][Next]_vars

\* Sync endpoints run on a thread pool: a request's thread keeps running, and
\* the market data client has timeouts, so a load ends or raises.
FairSpec == Spec /\ \A c \in Clients : WF_vars(Handle(c))

-----------------------------------------------------------------------------
TypeOK ==
    /\ candles \in Versions /\ clock \in 0..MaxClock
    /\ repairedAt \in [Times -> 0..MaxClock]
    /\ lru \in Seq(Cells)
    /\ entry \in [Slots -> Entries \union {None}]
    /\ lock \in [Slots -> Clients \union {None}]
    /\ pc \in [Clients -> Resting \union
                           {"bounded", "slotted", "loading", "loaded", "paging"}]
    /\ req \in [Clients -> Requests \union {None}]
    /\ slotOf \in [Clients -> Slots \union {None}]
    /\ loaded \in [Clients -> Versions \union {None}]
    /\ answered \in [Clients -> Entries \union {None}]
    /\ asked \in [Clients -> 0..MaxRequests]
    /\ session \in [Clients -> [key : Keys \union {None}, answers : Seq(Answers)]]
    /\ seen \in [Clients -> [Keys -> Versions \union {None}]]

Refreshing(c) == pc[c] \in {"loading", "loaded"}

\* The LRU never outgrows its limit and never holds a key or a slot twice,
\* whatever is evicted while other requests hold the slots
\* (EpisodeHistoryCache.slot).
LruSound ==
    /\ Len(lru) <= MaxEntries
    /\ \A i, j \in DOMAIN lru : i # j => lru[i].key # lru[j].key /\ lru[i].slot # lru[j].slot

\* Slot locks exclude and are never left behind: the holder of a slot's lock
\* is the one request refreshing it, on success, on a 409 and on a failed
\* load alike (`with slot.lock` in execute).
LockedByRefresher ==
    \A s \in Slots, c \in Clients : lock[s] = c <=> Refreshing(c) /\ slotOf[c] = s

\* A page comes from a history of exactly the bounds its own request read,
\* and of the pinned version when it has a pin, though other requests with
\* older or newer bounds replace the slot's entry meanwhile.
PagesOwnVersion ==
    \A c \in Clients : pc[c] = "paging" =>
        /\ DOMAIN answered[c].version = req[c].bounds
        /\ req[c].pin \in {None, answered[c].version}

\* Paging with the hash of the first page until next_before_start_ms is null
\* yields each finished episode of one data version exactly once, newest
\* first, whatever is committed, backfilled or repaired between the pages.
SessionExact ==
    \A c \in Clients :
        LET a == session[c].answers
        IN  a # <<>> =>
            /\ \A i \in DOMAIN a : a[i].version = a[1].version
            /\ \A i, j \in DOMAIN a : i < j =>
                   \A t \in a[i].page, u \in a[j].page : u < t
            /\ a[Len(a)].next = None =>
                   UNION {a[i].page : i \in DOMAIN a} = Finished(a[1].version)

\* Concurrent misses and revalidations of one key run once: no two requests
\* load and compute the history of one key at the same time.
SingleFlight ==
    \A c, d \in Clients :
        c # d /\ Refreshing(c) /\ Refreshing(d) => req[c].key # req[d].key

Covers(v, w) == DOMAIN w \subseteq DOMAIN v /\ \A t \in DOMAIN w : v[t] >= w[t]

\* A client never sees a key's market data go back: no later response has a
\* candle missing or in an older revision than an earlier one had.
MonotonicReads ==
    [][\A c \in Clients, k \in Keys :
           seen[c][k] # None => Covers(seen'[c][k], seen[c][k])]_seen

\* market_data_version_changed tells the truth: the candles of the pinned
\* range, or its bounds, really changed since the pinned page was served.
NoSpuriousConflict ==
    [][\A c \in Clients : pc[c] # "conflict" /\ pc'[c] = "conflict" =>
           req[c].pin # Restrict(candles, req[c].bounds)]_pc

\* A repaired candle is picked up within revalidate_seconds of the repair
\* (exact while a candle is repaired at most once).
RepairSeenInTime ==
    [][\A c \in Clients : pc[c] = "slotted" /\ pc'[c] = "paging" =>
           LET v == answered'[c].version
           IN  \A t \in DOMAIN v : v[t] # candles[t] => clock - repairedAt[t] <= Revalidate]_pc

\* Every request ends: with a page, a 409 or an error.
EveryRequestEnds ==
    \A c \in Clients : pc[c] = "bounded" ~> pc[c] \in Resting
=============================================================================
