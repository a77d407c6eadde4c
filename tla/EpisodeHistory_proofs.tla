------------------------ MODULE EpisodeHistory_proofs ------------------------
(* Proofs about EpisodeHistory, for every number of clients, keys, slots   *)
(* and candles and every LRU limit.  First the locks, the pages and the    *)
(* LRU; then what it keeps of a caller's session: its pages are exactly    *)
(* the episodes of one data version (SessionExact); and, while there are   *)
(* no more keys in use than the LRU has room for, one request at a time    *)
(* computes a key (SingleFlight), no response is older than the one before *)
(* (MonotonicReads), and a 409 is only given for data that did change      *)
(* (NoSpuriousConflict).                                                   *)
EXTENDS EpisodeHistory, SequenceTheorems, FiniteSetTheorems, TLAPS

Active == {"bounded", "slotted", "loading", "loaded", "paging"}

(* What each request holds at each point of its execution. *)
Held ==
    \A c \in Clients :
        /\ pc[c] \in {"slotted", "loading", "loaded"} => slotOf[c] \in Slots
        /\ pc[c] \in Active =>
              /\ req[c] \in Requests /\ req[c].bounds \subseteq Committed
              /\ session[c].key \in Keys
        /\ pc[c] = "loaded" => loaded[c] \in Versions /\ DOMAIN loaded[c] = req[c].bounds
        /\ pc[c] = "paging" => answered[c] \in Entries
        /\ session[c].answers # <<>> => session[c].key \in Keys

IInv == TypeOK /\ Held /\ LockedByRefresher /\ PagesOwnVersion

-----------------------------------------------------------------------------
LEMMA VersionsDef ==
    ASSUME NEW f
    PROVE  f \in Versions <=> DOMAIN f \in Ranges /\ f \in [DOMAIN f -> 0..MaxRepairs]
BY DEF Versions

\* The interval of committed candles grows only at its ends.
LEMMA CandlesGrow ==
    ASSUME candles \in Versions, NEW t \in Times \ Committed,
           t - 1 \in Committed \/ t + 1 \in Committed
    PROVE  [u \in Committed \union {t} |-> IF u = t THEN 0 ELSE candles[u]] \in Versions
<1> DEFINE f == [u \in Committed \union {t} |-> IF u = t THEN 0 ELSE candles[u]]
<1>1. PICK a \in Times, b \in Times : Committed = a..b
  BY VersionsDef DEF Committed, Ranges
<1>2. a \in Int /\ b \in Int /\ t \in Int
  BY ConstantsAssumption DEF Times
<1>3. ASSUME t - 1 \in Committed
      PROVE  \E p, q \in Times : Committed \union {t} = p..q
  <2>1. t = b + 1 /\ a <= t
    BY <1>1, <1>2, <1>3
  <2>2. Committed \union {t} = a..t
    BY <1>1, <1>2, <2>1
  <2> QED
    BY <2>2
<1>4. ASSUME t + 1 \in Committed
      PROVE  \E p, q \in Times : Committed \union {t} = p..q
  <2>1. t = a - 1 /\ t <= b
    BY <1>1, <1>2, <1>4
  <2>2. Committed \union {t} = t..b
    BY <1>1, <1>2, <2>1
  <2> QED
    BY <2>2
<1>5. DOMAIN f \in Ranges
  <2>1. \E p, q \in Times : Committed \union {t} = p..q
    BY <1>3, <1>4
  <2>2. Committed \subseteq Times
    BY VersionsDef DEF Committed, Ranges
  <2> QED
    BY <2>1, <2>2 DEF Ranges
<1>6. f \in [DOMAIN f -> 0..MaxRepairs]
  BY VersionsDef, ConstantsAssumption DEF Committed
<1> QED
  BY <1>5, <1>6, VersionsDef

LEMMA RestrictVersion ==
    ASSUME candles \in Versions, NEW S \in Ranges, S \subseteq Committed
    PROVE  Restrict(candles, S) \in Versions /\ DOMAIN Restrict(candles, S) = S
<1>1. Restrict(candles, S) \in [S -> 0..MaxRepairs]
  BY VersionsDef DEF Restrict, Committed
<1> QED
  BY <1>1, VersionsDef

LEMMA KeepType ==
    ASSUME NEW l \in Seq(Cells)
    PROVE  Keep(l) \in Seq(Cells)
BY ConstantsAssumption DEF Keep

LEMMA UseType ==
    ASSUME lru \in Seq(Cells), NEW others \in Seq(Cells), NEW k \in Keys, NEW s \in Slots
    PROVE  Keep(Append(others, [key |-> k, slot |-> s])) \in Seq(Cells)
<1>1. [key |-> k, slot |-> s] \in Cells
  BY DEF Cells
<1>2. Append(others, [key |-> k, slot |-> s]) \in Seq(Cells)
  BY <1>1
<1> QED
  BY <1>2, KeepType

LEMMA RemoveAtType ==
    ASSUME NEW l \in Seq(Cells), NEW i \in DOMAIN l
    PROVE  RemoveAt(l, i) \in Seq(Cells)
<1>1. SubSeq(l, 1, i - 1) \in Seq(Cells) /\ SubSeq(l, i + 1, Len(l)) \in Seq(Cells)
  OBVIOUS
<1> QED
  BY <1>1 DEF RemoveAt

-----------------------------------------------------------------------------
LEMMA InitInv == Init => IInv
<1> SUFFICES ASSUME Init PROVE IInv
  OBVIOUS
<1>1. candles \in Versions
  <2>1. \A t \in InitialTimes : 0 \in 0..MaxRepairs
    BY ConstantsAssumption
  <2> QED
    BY <2>1, VersionsDef, ConstantsAssumption DEF Init
<1>2. <<>> \in Seq(Cells) /\ <<>> \in Seq(Answers)
  OBVIOUS
<1>3. TypeOK
  BY <1>1, <1>2, ConstantsAssumption DEF Init, TypeOK, Resting, NoSession
<1>4. Held
  BY DEF Init, Held, Active, NoSession
<1>5. LockedByRefresher
  BY ConstantsAssumption DEF Init, LockedByRefresher, Refreshing
<1>6. PagesOwnVersion
  BY DEF Init, PagesOwnVersion
<1> QED
  BY <1>3, <1>4, <1>5, <1>6 DEF IInv

\* Steps of the market and of the clock leave every request alone.
LEMMA MarketInv == IInv /\ Market => IInv'
<1> SUFFICES ASSUME IInv, Market PROVE IInv'
  OBVIOUS
<1> USE DEF IInv
<1>1. UNCHANGED <<requests, lru, entry, lock>>
  BY DEF Market, Commit, Backfill, Repair, Tick
<1>2. Committed \subseteq Committed' /\ candles' \in Versions
      /\ clock' \in 0..MaxClock /\ repairedAt' \in [Times -> 0..MaxClock]
  <2>1. CASE Commit \/ Backfill
    <3>1. PICK t \in Times \ Committed :
             /\ t - 1 \in Committed \/ t + 1 \in Committed
             /\ candles' = [u \in Committed \union {t} |-> IF u = t THEN 0 ELSE candles[u]]
             /\ UNCHANGED <<clock, repairedAt>>
      BY <2>1 DEF Commit, Backfill
    <3> QED
      BY <3>1, CandlesGrow DEF TypeOK, Committed
  <2>2. CASE Repair
    <3>1. PICK t \in Committed :
             /\ candles[t] < MaxRepairs
             /\ candles' = [candles EXCEPT ![t] = @ + 1]
             /\ repairedAt' = [repairedAt EXCEPT ![t] = clock]
             /\ UNCHANGED clock
      BY <2>2 DEF Repair
    <3>2. candles \in [Committed -> 0..MaxRepairs] /\ Committed \in Ranges
      BY VersionsDef DEF TypeOK, Committed
    <3>3. candles[t] + 1 \in 0..MaxRepairs
      BY <3>1, <3>2, ConstantsAssumption
    <3>4. candles' \in [Committed -> 0..MaxRepairs]
      BY <3>1, <3>2, <3>3
    <3> QED
      BY <3>1, <3>2, <3>4, VersionsDef DEF TypeOK, Committed
  <2>3. CASE Tick
    BY <2>3, ConstantsAssumption DEF Tick, TypeOK, Committed
  <2> QED
    BY <2>1, <2>2, <2>3 DEF Market
<1>3. TypeOK'
  BY <1>1, <1>2 DEF TypeOK, requests
<1>4. Held'
  BY <1>1, <1>2 DEF Held, requests
<1>5. LockedByRefresher' /\ PagesOwnVersion'
  BY <1>1 DEF LockedByRefresher, Refreshing, PagesOwnVersion, requests
<1> QED
  BY <1>3, <1>4, <1>5

\* A caller's new request, whichever page it asks for.
LEMMA OpenInv ==
    ASSUME IInv, NEW c \in Clients, NEW r \in Requests, r.bounds \subseteq Committed,
           NEW s, Open(c, r, s),
           s \in [key : Keys \union {None}, answers : Seq(Answers)],
           s.key \in Keys
    PROVE  IInv'
<1> USE DEF IInv
<1>1. asked' \in [Clients -> 0..MaxRequests]
  BY ConstantsAssumption DEF TypeOK, Open
<1>2. TypeOK'
  BY <1>1 DEF TypeOK, Open, env, Resting
<1>3. Held'
  BY DEF TypeOK, Held, Open, env, Committed, Active, Resting
<1>4. LockedByRefresher' /\ PagesOwnVersion'
  BY DEF TypeOK, Open, env, LockedByRefresher, Refreshing, PagesOwnVersion, Resting
<1> QED
  BY <1>2, <1>3, <1>4

LEMMA AskInv == ASSUME IInv, NEW c \in Clients, Ask(c) PROVE IInv'
<1> USE DEF IInv
<1>1. Committed \in Ranges
  BY VersionsDef DEF TypeOK, Committed
<1>2. CASE AskFirstPage(c)
  <2>1. PICK k \in Keys :
           Open(c, [key |-> k, before |-> None, pin |-> None, bounds |-> Committed],
                [key |-> k, answers |-> <<>>])
    BY <1>2 DEF AskFirstPage
  <2>2. [key |-> k, before |-> None, pin |-> None, bounds |-> Committed] \in Requests
    BY <1>1 DEF Requests
  <2>3. [key |-> k, answers |-> <<>>] \in [key : Keys \union {None}, answers : Seq(Answers)]
    OBVIOUS
  <2> QED
    BY <2>1, <2>2, <2>3, OpenInv
<1>3. CASE AskNextPage(c)
  <2> DEFINE a == session[c].answers
  <2>1. a \in Seq(Answers) /\ a # <<>> /\ session[c].key \in Keys
    BY <1>3 DEF AskNextPage, TypeOK, Held
  <2>2. a[Len(a)] \in Answers
    BY <2>1
  <2>3. NextPage(c) \in Requests /\ NextPage(c).bounds = Committed
    BY <1>1, <2>1, <2>2 DEF NextPage, Requests, Answers
  <2>4. session[c] \in [key : Keys \union {None}, answers : Seq(Answers)]
    BY DEF TypeOK
  <2> QED
    BY <1>3, <2>1, <2>3, <2>4, OpenInv DEF AskNextPage
<1> QED
  BY <1>2, <1>3 DEF Ask

\* EpisodeHistoryCache.slot
LEMMA SlotInv == ASSUME IInv, NEW c \in Clients, FindSlot(c) \/ NewSlot(c) PROVE IInv'
<1> USE DEF IInv
<1>1. req[c] \in Requests /\ req[c].key \in Keys /\ pc[c] = "bounded"
  BY DEF FindSlot, NewSlot, Held, Active, Requests
<1>2. PICK others \in Seq(Cells), s \in Slots :
         /\ Use(c, others, s)
         /\ entry' = entry \/ entry' = [entry EXCEPT ![s] = None]
  <2>1. CASE FindSlot(c)
    <3>1. PICK i \in DOMAIN lru : Use(c, RemoveAt(lru, i), lru[i].slot)
      BY <2>1 DEF FindSlot
    <3>2. lru[i] \in Cells /\ RemoveAt(lru, i) \in Seq(Cells)
      BY RemoveAtType DEF TypeOK
    <3>3. lru[i].slot \in Slots /\ entry' = entry
      BY <2>1, <3>2 DEF FindSlot, Cells
    <3> QED
      BY <3>1, <3>2, <3>3
  <2>2. CASE NewSlot(c)
    BY <2>2 DEF NewSlot, Free, TypeOK
  <2> QED
    BY <2>1, <2>2
<1>3. lru' \in Seq(Cells)
  BY <1>1, <1>2, UseType DEF TypeOK, Use
<1>4. TypeOK'
  BY <1>2, <1>3 DEF TypeOK, Use, env, Resting
<1>5. Held'
  BY <1>1, <1>2 DEF TypeOK, Held, Use, env, Committed, Active
<1>6. LockedByRefresher' /\ PagesOwnVersion'
  BY <1>1, <1>2 DEF TypeOK, Use, LockedByRefresher, Refreshing, PagesOwnVersion
<1> QED
  BY <1>4, <1>5, <1>6

\* The end of the locked section, with an entry of the request's own bounds.
LEMMA LeaveInv ==
    ASSUME IInv, NEW c \in Clients, NEW e \in Entries, Leave(c, e),
           pc[c] \in Active, DOMAIN e.version = req[c].bounds,
           UNCHANGED <<env, lru, req, asked>>,
           entry' \in [Slots -> Entries \union {None}],
           lock' \in [Slots -> Clients \union {None}],
           LockedByRefresher'
    PROVE  IInv'
<1> USE DEF IInv
<1>1. req[c] \in Requests /\ e.version \in Versions
  BY DEF Held, Entries
<1>2. NoSession \in [key : Keys \union {None}, answers : Seq(Answers)]
  BY DEF NoSession
<1>3. session' \in [Clients -> [key : Keys \union {None}, answers : Seq(Answers)]]
  BY <1>2 DEF Leave, TypeOK
<1>4. seen' \in [Clients -> [Keys -> Versions \union {None}]]
  <2> DEFINE row == [seen[c] EXCEPT ![req[c].key] = e.version]
  <2>1. seen \in [Clients -> [Keys -> Versions \union {None}]]
    BY DEF TypeOK
  <2>2. row \in [Keys -> Versions \union {None}]
    BY <1>1, <2>1
  <2>3. [seen EXCEPT ![c] = row] \in [Clients -> [Keys -> Versions \union {None}]]
    BY <2>1, <2>2
  <2> QED
    BY <2>1, <2>3 DEF Leave
<1>5. TypeOK'
  <2>1. /\ slotOf' \in [Clients -> Slots \union {None}]
        /\ loaded' \in [Clients -> Versions \union {None}]
        /\ answered' \in [Clients -> Entries \union {None}]
    BY DEF Leave, TypeOK
  <2>2. pc' \in [Clients -> Resting \union
                     {"bounded", "slotted", "loading", "loaded", "paging"}]
    BY DEF Leave, TypeOK, Resting
  <2> QED
    BY <1>3, <1>4, <2>1, <2>2 DEF TypeOK, env
<1>6. Held'
  BY DEF Leave, TypeOK, Held, env, Committed, Active, Resting, NoSession
<1>7. PagesOwnVersion'
  <2> SUFFICES ASSUME NEW d \in Clients, pc'[d] = "paging"
               PROVE  /\ DOMAIN answered'[d].version = req'[d].bounds
                      /\ req'[d].pin \in {None, answered'[d].version}
    BY DEF PagesOwnVersion
  <2>1. CASE d = c
    BY <2>1 DEF Leave, TypeOK, Conflict
  <2>2. CASE d # c
    <3>1. pc'[d] = pc[d] /\ answered'[d] = answered[d]
      BY <2>2 DEF Leave, TypeOK
    <3> QED
      BY <3>1 DEF PagesOwnVersion
  <2> QED
    BY <2>1, <2>2
<1> QED
  BY <1>5, <1>6, <1>7

\* An exception that ends a request whose slot is released by nobody else.
LEMMA FailInv ==
    ASSUME IInv, NEW c \in Clients, Fail(c),
           lock' \in [Slots -> Clients \union {None}], LockedByRefresher'
    PROVE  IInv'
<1> USE DEF IInv
<1>1. NoSession \in [key : Keys \union {None}, answers : Seq(Answers)]
  BY DEF NoSession
<1>2. TypeOK'
  BY <1>1 DEF Fail, TypeOK, env, Resting
<1>3. Held'
  BY DEF Fail, TypeOK, Held, env, Committed, Active, Resting, NoSession
<1>4. PagesOwnVersion'
  BY DEF Fail, TypeOK, PagesOwnVersion
<1> QED
  BY <1>2, <1>3, <1>4

LEMMA HandleInv == ASSUME IInv, NEW c \in Clients, Handle(c) PROVE IInv'
<1> USE DEF IInv
<1>1. CASE BoundsFail(c)
  <2>1. Fail(c)
    BY <1>1 DEF BoundsFail
  <2>2. lock' = lock
    BY <1>1 DEF BoundsFail
  <2>3. lock' \in [Slots -> Clients \union {None}]
    BY <2>2 DEF TypeOK
  <2>4. LockedByRefresher'
    BY <1>1, <2>2 DEF BoundsFail, Fail, TypeOK, LockedByRefresher, Refreshing
  <2> QED
    BY <2>1, <2>3, <2>4, FailInv
<1>2. CASE FindSlot(c) \/ NewSlot(c)
  BY <1>2, SlotInv
<1>3. CASE ServeCached(c)
  <2>1. slotOf[c] \in Slots /\ pc[c] \in Active
    BY <1>3 DEF ServeCached, Held, Active
  <2>2. entry[slotOf[c]] \in Entries /\ DOMAIN entry[slotOf[c]].version = req[c].bounds
    BY <1>3, <2>1 DEF ServeCached, Valid, TypeOK
  <2>3. LockedByRefresher'
    BY <1>3, <2>1, ConstantsAssumption
       DEF ServeCached, Leave, TypeOK, LockedByRefresher, Refreshing
  <2> QED
    BY <1>3, <2>1, <2>2, <2>3, LeaveInv DEF ServeCached, TypeOK
<1>4. CASE StartRefresh(c)
  <2>1. slotOf[c] \in Slots /\ pc[c] = "slotted" /\ lock[slotOf[c]] = None
    BY <1>4 DEF StartRefresh, Held
  <2>2. TypeOK'
    BY <1>4 DEF StartRefresh, TypeOK, env
  <2>3. Held'
    BY <1>4 DEF StartRefresh, TypeOK, Held, env, Committed, Active
  <2>4. \A d \in Clients : ~ (Refreshing(d) /\ slotOf[d] = slotOf[c])
    <3> SUFFICES ASSUME NEW d \in Clients, Refreshing(d), slotOf[d] = slotOf[c]
                 PROVE  FALSE
      OBVIOUS
    <3>1. LockedByRefresher
      OBVIOUS
    <3>2. lock[slotOf[c]] = d
      BY <2>1, <3>1, Zenon DEF LockedByRefresher
    <3>3. d # None
      BY ConstantsAssumption
    <3> QED
      BY <2>1, <3>2, <3>3
  <2>5. LockedByRefresher'
    BY <1>4, <2>1, <2>4 DEF StartRefresh, TypeOK, LockedByRefresher, Refreshing
  <2>6. PagesOwnVersion'
    BY <1>4 DEF StartRefresh, TypeOK, PagesOwnVersion
  <2> QED
    BY <2>2, <2>3, <2>5, <2>6
<1>5. CASE LoadRange(c)
  <2>1. pc[c] = "loading" /\ slotOf[c] \in Slots /\ req[c] \in Requests
    BY <1>5 DEF LoadRange, Held, Active
  <2>2. /\ Restrict(candles, req[c].bounds) \in Versions
        /\ DOMAIN Restrict(candles, req[c].bounds) = req[c].bounds
    BY <2>1, RestrictVersion DEF TypeOK, Held, Active, Requests
  <2>3. TypeOK'
    BY <1>5, <2>2 DEF LoadRange, TypeOK, env
  <2>4. Held'
    BY <1>5, <2>1, <2>2 DEF LoadRange, TypeOK, Held, env, Committed, Active
  <2>5. LockedByRefresher' /\ PagesOwnVersion'
    BY <1>5 DEF LoadRange, TypeOK, LockedByRefresher, Refreshing, PagesOwnVersion
  <2> QED
    BY <2>3, <2>4, <2>5
<1>6. CASE Store(c)
  <2> DEFINE e == [version |-> loaded[c], loadedAt |-> clock]
  <2>1. pc[c] = "loaded" /\ slotOf[c] \in Slots
    BY <1>6 DEF Store, Held
  <2>2. e \in Entries /\ DOMAIN e.version = req[c].bounds
    BY <2>1 DEF Held, Entries, TypeOK
  <2>3. lock[slotOf[c]] = c
    BY <2>1 DEF LockedByRefresher, Refreshing
  <2>4. LockedByRefresher'
    <3>1. \A d \in Clients : d # c /\ Refreshing(d) => slotOf[d] # slotOf[c]
      BY <2>1, <2>3 DEF LockedByRefresher
    <3>2. lock' = [lock EXCEPT ![slotOf[c]] = None] /\ slotOf' = [slotOf EXCEPT ![c] = None]
      BY <1>6 DEF Store, Leave
    <3>3. ~ Refreshing(c)'
      BY <1>6 DEF Store, Leave, TypeOK, Refreshing
    <3>4. \A d \in Clients \ {c} : pc'[d] = pc[d] /\ slotOf'[d] = slotOf[d]
      BY <1>6, <3>2 DEF Store, Leave, TypeOK
    <3> QED
      BY <2>1, <2>3, <3>1, <3>2, <3>3, <3>4, ConstantsAssumption
         DEF LockedByRefresher, Refreshing, TypeOK
  <2>5. entry' \in [Slots -> Entries \union {None}] /\ lock' \in [Slots -> Clients \union {None}]
    BY <1>6, <2>2 DEF Store, TypeOK
  <2> QED
    BY <1>6, <2>1, <2>2, <2>4, <2>5, LeaveInv DEF Store, Active
<1>7. CASE RefreshFail(c)
  <2>1. Refreshing(c) /\ slotOf[c] \in Slots
    BY <1>7 DEF RefreshFail, Held, Refreshing
  <2>2. lock[slotOf[c]] = c
    BY <2>1 DEF LockedByRefresher
  <2>3. LockedByRefresher'
    <3>1. \A d \in Clients : d # c /\ Refreshing(d) => slotOf[d] # slotOf[c]
      BY <2>1, <2>2 DEF LockedByRefresher
    <3>2. /\ lock' = [lock EXCEPT ![slotOf[c]] = None]
          /\ slotOf' = [slotOf EXCEPT ![c] = None]
          /\ pc' = [pc EXCEPT ![c] = "failed"]
      BY <1>7 DEF RefreshFail, Fail
    <3> QED
      BY <2>1, <2>2, <3>1, <3>2, ConstantsAssumption DEF LockedByRefresher, Refreshing, TypeOK
  <2>4. lock' \in [Slots -> Clients \union {None}]
    BY <1>7 DEF RefreshFail, TypeOK
  <2> QED
    BY <1>7, <2>3, <2>4, FailInv DEF RefreshFail
<1>8. CASE Answer(c)
  <2> DEFINE v == answered[c].version
  <2>1. pc[c] = "paging" /\ v \in Versions /\ req[c] \in Requests
    BY <1>8 DEF Answer, Held, Active, Entries
  <2>2. Finished(v) \subseteq Times
    BY <2>1, VersionsDef, ConstantsAssumption DEF Ranges
  <2>3. PICK n \in NextBefore(Finished(v), req[c].before) :
           session' = [session EXCEPT ![c].answers =
               Append(@, [version |-> v, next |-> n,
                          page |-> PageOf(Finished(v), req[c].before)])]
    BY <1>8 DEF Answer
  <2>4. [version |-> v, next |-> n, page |-> PageOf(Finished(v), req[c].before)] \in Answers
    BY <2>1, <2>2, <2>3 DEF Answers, NextBefore, PageOf
  <2>5. /\ session[c].answers \in Seq(Answers) /\ session[c].key \in Keys
        /\ session[c] \in [key : Keys \union {None}, answers : Seq(Answers)]
    BY <2>1 DEF TypeOK, Held, Active
  <2>6. /\ session' \in [Clients -> [key : Keys \union {None}, answers : Seq(Answers)]]
        /\ session'[c].key \in Keys
        /\ \A d \in Clients \ {c} : session'[d] = session[d]
    <3> DEFINE a == Append(session[c].answers,
                           [version |-> v, next |-> n,
                            page |-> PageOf(Finished(v), req[c].before)])
               SessionType == [key : Keys \union {None}, answers : Seq(Answers)]
    <3>1. a \in Seq(Answers)
      BY <2>4, <2>5
    <3>2. [session[c] EXCEPT !.answers = a] \in SessionType
          /\ [session[c] EXCEPT !.answers = a].key = session[c].key
      BY <2>5, <3>1
    <3>3. session' = [session EXCEPT ![c] = [session[c] EXCEPT !.answers = a]]
      BY <2>3
    <3>4. session \in [Clients -> SessionType]
      BY DEF TypeOK
    <3> HIDE DEF a, SessionType
    <3>5. /\ session' \in [Clients -> SessionType]
          /\ session'[c].key = session[c].key
          /\ \A d \in Clients \ {c} : session'[d] = session[d]
      BY <3>2, <3>3, <3>4
    <3> QED
      BY <2>5, <3>5 DEF SessionType
  <2>7. TypeOK'
    BY <1>8, <2>6 DEF Answer, TypeOK, env, Resting
  <2>8. Held'
    BY <1>8, <2>6 DEF Answer, TypeOK, Held, env, Committed, Active
  <2>9. LockedByRefresher' /\ PagesOwnVersion'
    BY <1>8 DEF Answer, TypeOK, LockedByRefresher, Refreshing, PagesOwnVersion
  <2> QED
    BY <2>7, <2>8, <2>9
<1> QED
  BY <1>1, <1>2, <1>3, <1>4, <1>5, <1>6, <1>7, <1>8 DEF Handle

-----------------------------------------------------------------------------
LEMMA NextInv == IInv /\ [Next]_vars => IInv'
<1> SUFFICES ASSUME IInv, [Next]_vars PROVE IInv'
  OBVIOUS
<1>1. CASE Market
  BY <1>1, MarketInv
<1>2. ASSUME NEW c \in Clients, Ask(c) \/ Handle(c) PROVE IInv'
  BY <1>2, AskInv, HandleInv
<1>3. CASE UNCHANGED vars
  BY <1>3 DEF vars, env, requests, IInv, TypeOK, Held, Committed,
              LockedByRefresher, Refreshing, PagesOwnVersion
<1> QED
  BY <1>1, <1>2, <1>3 DEF Next

\* The types of the state, and what each request holds, in every reachable
\* state.
THEOREM Invariance == Spec => []IInv
BY InitInv, NextInv, PTL DEF Spec

\* The variables keep their types: the cache's slots, the requests' threads
\* and the callers' sessions of query_episode_history.py.
THEOREM TypeCorrect == Spec => []TypeOK
BY Invariance, PTL DEF IInv

\* A slot's lock is held by exactly the request refreshing that slot, and is
\* released on every way out of execute's locked section.
THEOREM LocksHeldByRefreshers == Spec => []LockedByRefresher
BY Invariance, PTL DEF IInv

\* Every page is cut from a history of the bounds its own request read and of
\* its pinned version, whatever other requests do to the slot.
THEOREM PagesOfOwnVersion == Spec => []PagesOwnVersion
BY Invariance, PTL DEF IInv

-----------------------------------------------------------------------------
(* The LRU: its limit, and no key or slot in it twice.                     *)

Distinct(l) ==
    \A i, j \in DOMAIN l : i # j => l[i].key # l[j].key /\ l[i].slot # l[j].slot

\* The list without one of its cells.
LEMMA RemoveAtElement ==
    ASSUME NEW l \in Seq(Cells), NEW i \in DOMAIN l, NEW j \in DOMAIN RemoveAt(l, i)
    PROVE  /\ Len(RemoveAt(l, i)) = Len(l) - 1
           /\ (IF j < i THEN j ELSE j + 1) \in DOMAIN l
           /\ RemoveAt(l, i)[j] = l[IF j < i THEN j ELSE j + 1]
<1> DEFINE a == SubSeq(l, 1, i - 1)
           b == SubSeq(l, i + 1, Len(l))
<1>1. i \in 1..Len(l) /\ Len(l) \in Nat
  OBVIOUS
<1>2. a \in Seq(Cells) /\ Len(a) = i - 1 /\ \A k \in 1..i-1 : a[k] = l[k]
  BY <1>1, SubSeqProperties
<1>3. b \in Seq(Cells) /\ Len(b) = Len(l) - i /\ \A k \in 1..Len(l)-i : b[k] = l[i + k]
  BY <1>1, SubSeqProperties
<1>4. RemoveAt(l, i) = a \o b
  BY DEF RemoveAt
<1> HIDE DEF a, b
<1>5. /\ a \o b \in Seq(Cells) /\ Len(a \o b) = Len(l) - 1
      /\ \A k \in 1..Len(l)-1 : (a \o b)[k] = IF k <= i - 1 THEN a[k] ELSE b[k - (i - 1)]
  <2>1. Len(a) + Len(b) = Len(l) - 1
    BY <1>1, <1>2, <1>3
  <2>2. /\ a \o b \in Seq(Cells) /\ Len(a \o b) = Len(a) + Len(b)
        /\ \A k \in 1..Len(a) + Len(b) :
              (a \o b)[k] = IF k <= Len(a) THEN a[k] ELSE b[k - Len(a)]
    BY <1>2, <1>3, ConcatProperties, Zenon
  <2> QED
    BY <1>2, <2>1, <2>2
<1>6. j \in 1..Len(l)-1
  BY <1>4, <1>5, LenProperties
<1>7. CASE j < i
  BY <1>1, <1>2, <1>4, <1>5, <1>6, <1>7
<1>8. CASE ~ (j < i)
  <2>1. j - (i - 1) \in 1..Len(l)-i /\ i + (j - (i - 1)) = j + 1
    BY <1>1, <1>6, <1>8
  <2>2. (a \o b)[j] = b[j - (i - 1)]
    BY <1>1, <1>5, <1>6, <1>8, SMTT(30)
  <2>3. (a \o b)[j] = l[j + 1]
    BY <1>3, <2>1, <2>2
  <2> QED
    BY <1>1, <1>4, <1>5, <1>6, <1>8, <2>3
<1> QED
  BY <1>7, <1>8

LEMMA RemoveAtDistinct ==
    ASSUME NEW l \in Seq(Cells), Distinct(l), NEW i \in DOMAIN l
    PROVE  /\ Distinct(RemoveAt(l, i))
           /\ \A j \in DOMAIN RemoveAt(l, i) :
                 RemoveAt(l, i)[j].key # l[i].key /\ RemoveAt(l, i)[j].slot # l[i].slot
<1> DEFINE at(j) == IF j < i THEN j ELSE j + 1
<1>1. RemoveAt(l, i) \in Seq(Cells)
  BY RemoveAtType
<1>2. \A j \in DOMAIN RemoveAt(l, i) :
         j \in Nat /\ at(j) \in DOMAIN l /\ at(j) # i /\ RemoveAt(l, i)[j] = l[at(j)]
  BY <1>1, RemoveAtElement
<1>3. \A j, k \in DOMAIN RemoveAt(l, i) : j # k => at(j) # at(k)
  BY <1>2
<1> QED
  BY <1>2, <1>3 DEF Distinct

\* The newest cell appended, the oldest ones dropped.
LEMMA KeepAppendDistinct ==
    ASSUME NEW l \in Seq(Cells), Distinct(l), NEW x \in Cells,
           \A j \in DOMAIN l : l[j].key # x.key /\ l[j].slot # x.slot
    PROVE  Distinct(Keep(Append(l, x))) /\ Len(Keep(Append(l, x))) <= MaxEntries
<1> DEFINE m == Append(l, x)
           from == Len(m) - MaxEntries + 1
<1>1. m \in Seq(Cells) /\ Len(m) = Len(l) + 1 /\ m[Len(l) + 1] = x
      /\ \A k \in 1..Len(l) : m[k] = l[k]
  BY AppendProperties
<1>2. Distinct(m)
  BY <1>1 DEF Distinct
<1> HIDE DEF m
<1>3. CASE Len(m) <= MaxEntries
  BY <1>1, <1>2, <1>3, ConstantsAssumption DEF Keep, m
<1>4. CASE Len(m) > MaxEntries
  <2>1. Len(m) \in Nat /\ MaxEntries \in Nat \ {0} /\ from \in 1..Len(m)+1
    BY <1>1, <1>4, ConstantsAssumption
  <2>2. Keep(m) = SubSeq(m, from, Len(m))
    BY <1>4, <2>1 DEF Keep
  <2>3. /\ Len(Keep(m)) = MaxEntries /\ DOMAIN Keep(m) = 1..MaxEntries
        /\ \A k \in 1..MaxEntries : Keep(m)[k] = m[from + k - 1]
    BY <1>1, <2>1, <2>2, SubSeqProperties
  <2>4. \A k \in 1..MaxEntries : from + k - 1 \in DOMAIN m
    BY <1>1, <2>1
  <2>5. Distinct(Keep(m))
    BY <1>2, <2>1, <2>3, <2>4, SMTT(30) DEF Distinct
  <2> QED
    BY <2>1, <2>3, <2>5 DEF m
<1> QED
  BY <1>1, <1>3, <1>4, ConstantsAssumption DEF m

LEMMA LruStep == IInv /\ LruSound /\ [Next]_vars => LruSound'
<1> SUFFICES ASSUME IInv, LruSound, [Next]_vars PROVE LruSound'
  OBVIOUS
<1>1. lru \in Seq(Cells) /\ Distinct(lru)
  BY DEF IInv, TypeOK, LruSound, Distinct
<1>2. ASSUME NEW c \in Clients, FindSlot(c) PROVE LruSound'
  <2>1. PICK i \in DOMAIN lru :
           lru[i].key = req[c].key /\ Use(c, RemoveAt(lru, i), lru[i].slot)
    BY <1>2 DEF FindSlot
  <2>0. lru[i] \in Cells
    BY <1>1
  <2>2. lru[i] \in Cells /\ lru[i] = [key |-> req[c].key, slot |-> lru[i].slot]
    BY <2>0, <2>1 DEF Cells
  <2>3. lru' = Keep(Append(RemoveAt(lru, i), lru[i]))
    BY <2>1, <2>2 DEF Use
  <2>4. Distinct(lru') /\ Len(lru') <= MaxEntries
    BY <1>1, <2>2, <2>3, RemoveAtType, RemoveAtDistinct, KeepAppendDistinct
  <2> QED
    BY <2>4 DEF LruSound, Distinct
<1>3. ASSUME NEW c \in Clients, NewSlot(c) PROVE LruSound'
  <2>1. PICK s \in Free : Use(c, lru, s)
    BY <1>3 DEF NewSlot
  <2>2. req[c].key \in Keys
    BY <1>3 DEF NewSlot, IInv, Held, Active, Requests
  <2>3. [key |-> req[c].key, slot |-> s] \in Cells
    BY <2>1, <2>2 DEF Free, Cells
  <2>4. \A j \in DOMAIN lru : lru[j].key # req[c].key /\ lru[j].slot # s
    BY <1>3, <2>1 DEF NewSlot, Free
  <2>5. lru' = Keep(Append(lru, [key |-> req[c].key, slot |-> s]))
    BY <2>1 DEF Use
  <2>6. Distinct(lru') /\ Len(lru') <= MaxEntries
    BY <1>1, <2>3, <2>4, <2>5, KeepAppendDistinct
  <2> QED
    BY <2>6 DEF LruSound, Distinct
<1>4. CASE UNCHANGED lru
  BY <1>4 DEF LruSound
<1>5. CASE Market
  BY <1>4, <1>5 DEF Market, Commit, Backfill, Repair, Tick
<1>6. ASSUME NEW c \in Clients, Ask(c) PROVE LruSound'
  BY <1>4, <1>6 DEF Ask, AskFirstPage, AskNextPage, Open
<1>7. ASSUME NEW c \in Clients, Handle(c) PROVE LruSound'
  BY <1>2, <1>3, <1>4, <1>7
     DEF Handle, BoundsFail, ServeCached, StartRefresh, LoadRange, Store, RefreshFail,
         Fail, Answer
<1> QED
  BY <1>4, <1>5, <1>6, <1>7 DEF Next, vars

\* However many keys are asked for at once, the LRU keeps at most max_entries
\* cells and never holds a key or a slot twice.
THEOREM LruIsSound == Spec => []LruSound
<1>1. Init => LruSound
  BY ConstantsAssumption DEF Init, LruSound
<1> QED
  BY <1>1, Invariance, LruStep, PTL DEF Spec

-----------------------------------------------------------------------------
(* A session: its pages so far, and the next request of it.                *)

\* The pages down to the cursor `next` are collected; None is below them all.
Reached(next, t) == next = None \/ t >= next

PagesOK(a) ==
    LET F == Finished(a[1].version)
        next == a[Len(a)].next
    IN  /\ next # None => next \in F
        /\ \A i \in 1..Len(a) : /\ a[i].version = a[1].version /\ a[i].page \subseteq F
                                /\ \A t \in a[i].page : Reached(next, t)
        /\ \A i, j \in 1..Len(a) : i < j => \A t \in a[i].page, u \in a[j].page : u < t
        /\ \A t \in F : Reached(next, t) => \E i \in 1..Len(a) : t \in a[i].page

\* A request asks for the first page, or for the next one of its session with
\* the version of its pages; a client's latest response of a key is the last
\* page of its session.
Asks(c) ==
    LET a == session[c].answers
    IN  /\ session[c].key = req[c].key
        /\ a = <<>> => req[c].pin = None /\ req[c].before = None
        /\ a # <<>> => /\ req[c].pin = a[Len(a)].version
                       /\ req[c].before = a[Len(a)].next /\ req[c].before # None

SessionOK(c) ==
    LET a == session[c].answers
    IN  /\ pc[c] \in Active => Asks(c)
        /\ pc[c] = "paging" => seen[c][req[c].key] = answered[c].version
        /\ a # <<>> => PagesOK(a) /\ seen[c][session[c].key] = a[Len(a)].version

Sessions == \A c \in Clients : SessionOK(c)

SessionInv == IInv /\ LruSound /\ Sessions

-----------------------------------------------------------------------------
(* The versions of a key, while its slot is the only one.                  *)

KeysFit == IsFiniteSet(Keys) /\ Cardinality(Keys) <= MaxEntries

Waiting == {"slotted", "loading", "loaded"}

\* The slot of a request is the one the LRU has for its key.
InLru ==
    \A c \in Clients : pc[c] \in Waiting =>
        [key |-> req[c].key, slot |-> slotOf[c]] \in Range(lru)

\* Of the candles both versions have, none is older in v.
Newer(v, w) == \A t \in DOMAIN v \cap DOMAIN w : v[t] >= w[t]

\* Nothing is newer than the candles, and what a key's slot has or is about to
\* have is newer than every response from it; a request's bounds hold what its
\* client saw before.
NothingNewer ==
    /\ \A s \in Slots : entry[s] # None => Covers(candles, entry[s].version)
    /\ \A c \in Clients : pc[c] = "loaded" => Covers(candles, loaded[c])
    /\ \A c \in Clients, k \in Keys : seen[c][k] # None => Covers(candles, seen[c][k])

BoundsHoldSeen ==
    \A c \in Clients : pc[c] \in Waiting \union {"bounded"} /\ seen[c][req[c].key] # None =>
        DOMAIN seen[c][req[c].key] \subseteq req[c].bounds

NewerThanSeen ==
    \A c \in Clients, k \in Keys : seen[c][k] # None =>
        /\ \A x \in Range(lru) : x.key = k /\ entry[x.slot] # None =>
              Newer(entry[x.slot].version, seen[c][k])
        /\ \A d \in Clients : pc[d] = "loaded" /\ req[d].key = k =>
              Newer(loaded[d], seen[c][k])

Fresh == NothingNewer /\ BoundsHoldSeen /\ NewerThanSeen

VersionInv == SessionInv /\ InLru /\ Fresh
-----------------------------------------------------------------------------
(* A page of the finished episodes, by their ranks.                        *)

LEMMA TimesFinite ==
    ASSUME NEW F \in SUBSET Times
    PROVE  IsFiniteSet(F) /\ Cardinality(F) \in Nat
<1>1. IsFiniteSet(1..Horizon)
  BY ConstantsAssumption, FS_Interval
<1> QED
  BY <1>1, FS_Subset, FS_CardinalityType DEF Times

LEMMA RankType ==
    ASSUME NEW F \in SUBSET Times, NEW t
    PROVE  Rank(F, t) \in Nat
<1>1. {u \in F : u < t} \in SUBSET Times
  OBVIOUS
<1> QED
  BY <1>1, TimesFinite DEF Rank

\* The rank of a member of S is less than that of any larger bound.
LEMMA SubsetWithout ==
    ASSUME NEW S \in SUBSET Times, NEW R \in SUBSET S, NEW t \in S \ R
    PROVE  Cardinality(R) < Cardinality(S)
<1>1. IsFiniteSet(S) /\ IsFiniteSet(R) /\ Cardinality(R) \in Nat
  <2>1. R \in SUBSET Times
    OBVIOUS
  <2> QED
    BY <2>1, TimesFinite
<1>2. Cardinality(R \union {t}) = Cardinality(R) + 1
  BY <1>1, FS_AddElement
<1>3. R \union {t} \subseteq S
  OBVIOUS
<1>4. Cardinality(R \union {t}) <= Cardinality(S)
  BY <1>1, <1>3, FS_Subset
<1>5. Cardinality(S) \in Nat
  BY TimesFinite
<1> QED
  BY <1>1, <1>2, <1>4, <1>5

LEMMA RankMonotone ==
    ASSUME NEW F \in SUBSET Times, NEW t \in F, NEW u \in Int, t < u
    PROVE  Rank(F, t) < Rank(F, u)
<1> DEFINE below == {x \in F : x < t}
           upto == {x \in F : x < u}
<1>1. \A x \in F : x \in Int
  BY DEF Times
<1>2. upto \in SUBSET Times /\ below \in SUBSET upto /\ t \in upto \ below
  BY <1>1
<1> HIDE DEF below, upto
<1>3. Cardinality(below) < Cardinality(upto)
  BY <1>2, SubsetWithout
<1> QED
  BY <1>3 DEF Rank, below, upto

LEMMA RankBelowAll ==
    ASSUME NEW F \in SUBSET Times, NEW t \in F
    PROVE  Rank(F, t) < Cardinality(F)
<1> DEFINE below == {x \in F : x < t}
<1>1. t \in Int
  BY DEF Times
<1>2. below \in SUBSET F /\ t \in F \ below
  BY <1>1
<1> HIDE DEF below
<1>3. Cardinality(below) < Cardinality(F)
  BY <1>2, SubsetWithout
<1> QED
  BY <1>3 DEF Rank, below

Before(before, t) == before = None \/ t < before

\* The ranks below Upper are those of the members before the cursor.
LEMMA UpperRank ==
    ASSUME NEW F \in SUBSET Times, NEW before \in F \union {None}, NEW t \in F
    PROVE  /\ Upper(F, before) \in Nat
           /\ Rank(F, t) < Upper(F, before) <=> Before(before, t)
<1>1. t \in Int /\ Rank(F, t) \in Nat
  BY RankType DEF Times
<1>2. CASE before = None
  BY <1>2, <1>1, RankBelowAll, TimesFinite DEF Upper, Before
<1>3. CASE before # None
  <2>1. before \in F /\ before \in Int
    BY <1>3 DEF Times
  <2>2. Rank(F, before) \in Nat /\ Upper(F, before) = Rank(F, before)
    BY <1>3, RankType DEF Upper
  <2>3. t < before => Rank(F, t) < Rank(F, before)
    BY <2>1, RankMonotone
  <2>4. before < t => Rank(F, before) < Rank(F, t)
    BY <1>1, <2>1, RankMonotone
  <2>5. t = before => Rank(F, t) = Rank(F, before)
    OBVIOUS
  <2> QED
    BY <1>1, <1>3, <2>1, <2>2, <2>3, <2>4, <2>5 DEF Before
<1> QED
  BY <1>2, <1>3

\* The page before a cursor: what is served, and where the next one starts.
LEMMA PageStep ==
    ASSUME NEW F \in SUBSET Times, NEW before \in F \union {None},
           NEW n \in NextBefore(F, before)
    PROVE  /\ n # None => n \in F /\ Before(before, n)
           /\ \A t \in F :
                 t \in PageOf(F, before) <=> Reached(n, t) /\ Before(before, t)
<1>1. None \notin F
  BY ConstantsAssumption
<1>2. CASE Lower(F, before) > 0
  <2> DEFINE up == Upper(F, before)
             low == Lower(F, before)
  <2>1. n \in F /\ Rank(F, n) = low
    BY <1>2 DEF NextBefore
  <2>2. up \in Nat /\ Limit \in Nat \ {0} /\ low = up - Limit
    BY <1>2, <2>1, UpperRank, ConstantsAssumption DEF Lower
  <2>3. low < up
    BY <2>2
  <2>4. Before(before, n)
    BY <2>1, <2>3, UpperRank
  <2>5. ASSUME NEW t \in F
        PROVE  t \in PageOf(F, before) <=> Reached(n, t) /\ Before(before, t)
    <3>1. t \in Int /\ n \in Int /\ Rank(F, t) \in Nat /\ Rank(F, n) \in Nat
      BY <2>1, RankType DEF Times
    <3>2. t < n => Rank(F, t) < Rank(F, n)
      BY <3>1, RankMonotone
    <3>3. n < t => Rank(F, n) < Rank(F, t)
      BY <2>1, <3>1, RankMonotone
    <3>4. Reached(n, t) <=> low <= Rank(F, t)
      <4>1. n # None
        BY <1>1, <2>1
      <4>2. n = t => Rank(F, n) = Rank(F, t)
        OBVIOUS
      <4> QED
        BY <2>1, <3>1, <3>2, <3>3, <4>1, <4>2 DEF Reached
    <3>5. Before(before, t) <=> Rank(F, t) < up
      BY UpperRank
    <3>6. t \in PageOf(F, before) <=> low <= Rank(F, t) /\ Rank(F, t) <= up - 1
      BY <3>1, <2>1, <2>2 DEF PageOf
    <3> QED
      BY <2>2, <3>1, <3>4, <3>5, <3>6
  <2> QED
    BY <2>1, <2>4, <2>5
<1>3. CASE ~ (Lower(F, before) > 0)
  <2>1. n = None
    BY <1>3 DEF NextBefore
  <2>2. ASSUME NEW t \in F
        PROVE  t \in PageOf(F, before) <=> Before(before, t)
    <3>1. Upper(F, before) \in Nat
          /\ (Rank(F, t) < Upper(F, before) <=> Before(before, t))
      BY UpperRank
    <3>2. Lower(F, before) = 0
      BY <1>3, <3>1, ConstantsAssumption DEF Lower
    <3>3. Rank(F, t) \in Nat
      BY RankType
    <3>4. t \in PageOf(F, before) <=> Rank(F, t) \in 0..Upper(F, before) - 1
      BY <3>2 DEF PageOf
    <3> QED
      BY <3>1, <3>3, <3>4
  <2> QED
    BY <2>1, <2>2 DEF Reached
<1> QED
  BY <1>2, <1>3
-----------------------------------------------------------------------------
(* The next page of a session.                                             *)

LEMMA FirstPage ==
    ASSUME NEW v \in Versions, NEW n \in NextBefore(Finished(v), None)
    PROVE  PagesOK(<<[version |-> v, next |-> n, page |-> PageOf(Finished(v), None)]>>)
<1> DEFINE F == Finished(v)
           x == [version |-> v, next |-> n, page |-> PageOf(F, None)]
           a == <<x>>
<1>1. F \in SUBSET Times
  BY VersionsDef, ConstantsAssumption DEF Ranges
<1>2. /\ n # None => n \in F
      /\ \A t \in F : t \in PageOf(F, None) <=> Reached(n, t)
  BY <1>1, PageStep DEF Before
<1>3. PageOf(F, None) \subseteq F
  BY DEF PageOf
<1>4. Len(a) = 1 /\ a[1] = x /\ x.version = v /\ x.next = n /\ x.page = PageOf(F, None)
  OBVIOUS
<1> HIDE DEF a, x
<1>5. \A i \in 1..Len(a) : i = 1
  BY <1>4
<1>6. PagesOK(a)
  <2>1. \A i, j \in 1..Len(a) : ~ (i < j)
    BY <1>5
  <2>2. \A t \in F : Reached(n, t) => \E i \in 1..Len(a) : t \in a[i].page
    BY <1>2, <1>4
  <2> QED
    BY <1>2, <1>3, <1>4, <1>5, <2>1, <2>2 DEF PagesOK
<1> QED
  BY <1>6 DEF a, x

LEMMA AppendPage ==
    ASSUME NEW a \in Seq(Answers), a # <<>>, PagesOK(a), a[Len(a)].next # None,
           NEW v \in Versions, v = a[Len(a)].version,
           NEW n \in NextBefore(Finished(v), a[Len(a)].next)
    PROVE  PagesOK(Append(a, [version |-> v, next |-> n,
                              page |-> PageOf(Finished(v), a[Len(a)].next)]))
<1> DEFINE F == Finished(v)
           m == a[Len(a)].next
           x == [version |-> v, next |-> n, page |-> PageOf(F, m)]
           b == Append(a, x)
<1>1. Len(a) \in Nat /\ Len(a) >= 1
  OBVIOUS
<1>2. v = a[1].version
  BY <1>1 DEF PagesOK
<1>3. F \in SUBSET Times /\ m \in F
  BY <1>2, VersionsDef, ConstantsAssumption DEF Ranges, PagesOK
<1>4. /\ n # None => n \in F /\ Before(m, n)
      /\ \A t \in F : t \in PageOf(F, m) <=> Reached(n, t) /\ Before(m, t)
  BY <1>3, PageStep
<1>5. PageOf(F, m) \subseteq F
  BY DEF PageOf
<1>6. Len(b) = Len(a) + 1 /\ b[Len(a) + 1] = x /\ \A i \in 1..Len(a) : b[i] = a[i]
  <2>1. a \in Seq(Answers \union {x})
    BY SeqDef
  <2> QED
    BY <2>1, AppendProperties
<1>7. x.version = v /\ x.next = n /\ x.page = PageOf(F, m)
  OBVIOUS
<1>8. \A t \in F : t \in Int
  BY <1>3 DEF Times
<1>9. /\ \A i \in 1..Len(a) : /\ a[i].version = v /\ a[i].page \subseteq F
                              /\ \A t \in a[i].page : m <= t
      /\ \A i, j \in 1..Len(a) : i < j => \A t \in a[i].page, u \in a[j].page : u < t
      /\ \A t \in F : m <= t => \E i \in 1..Len(a) : t \in a[i].page
  <2>1. \A t \in F : Reached(m, t) <=> m <= t
    BY <1>3, <1>8 DEF Reached
  <2>2. /\ \A i \in 1..Len(a) : /\ a[i].version = a[1].version /\ a[i].page \subseteq F
                                /\ \A t \in a[i].page : Reached(m, t)
        /\ \A i, j \in 1..Len(a) : i < j => \A t \in a[i].page, u \in a[j].page : u < t
        /\ \A t \in F : Reached(m, t) => \E i \in 1..Len(a) : t \in a[i].page
    BY <1>2 DEF PagesOK
  <2> QED
    BY <1>2, <2>1, <2>2
<1>10. \A t \in PageOf(F, m) : t < m
  BY <1>3, <1>4, <1>5, <1>8, ConstantsAssumption DEF Before
<1>11. \A t \in F : m <= t => Reached(n, t)
  <2> SUFFICES ASSUME NEW t \in F, m <= t, n # None
               PROVE  t >= n
    BY DEF Reached
  <2>1. n < m
    BY <1>3, <1>4, ConstantsAssumption DEF Before
  <2> QED
    BY <1>3, <1>4, <1>8, <2>1
<1> HIDE DEF b, x, F, m
<1>12. \A i \in 1..Len(b) : i \in 1..Len(a) \/ i = Len(a) + 1
  BY <1>1, <1>6
<1>13. /\ b[1].version = v /\ b[Len(b)].next = n
  <2>1. 1 \in 1..Len(a)
    BY <1>1
  <2> QED
    BY <1>6, <1>7, <1>9, <2>1
<1>14. \A i \in 1..Len(b) : /\ b[i].version = v /\ b[i].page \subseteq F
                            /\ \A t \in b[i].page : Reached(n, t)
  <2> SUFFICES ASSUME NEW i \in 1..Len(b)
               PROVE  /\ b[i].version = v /\ b[i].page \subseteq F
                      /\ \A t \in b[i].page : Reached(n, t)
    OBVIOUS
  <2>1. CASE i \in 1..Len(a)
    BY <1>6, <1>9, <1>11, <2>1
  <2>2. CASE i = Len(a) + 1
    BY <1>4, <1>5, <1>6, <1>7, <2>2
  <2> QED
    BY <1>12, <2>1, <2>2
<1>15. ASSUME NEW i \in 1..Len(b), NEW j \in 1..Len(b), i < j,
              NEW t \in b[i].page, NEW u \in b[j].page
       PROVE  u < t
  <2>1. i \in 1..Len(a)
    BY <1>1, <1>6, <1>15
  <2>2. CASE j \in 1..Len(a)
    BY <1>6, <1>9, <1>15, <2>1, <2>2
  <2>3. CASE j = Len(a) + 1
    <3>1. u \in PageOf(F, m) /\ u \in F
      BY <1>5, <1>6, <1>7, <2>3
    <3>2. t \in F /\ m <= t
      BY <1>6, <1>9, <2>1
    <3> QED
      BY <1>3, <1>8, <1>10, <3>1, <3>2
  <2> QED
    BY <1>12, <2>2, <2>3
<1>16. ASSUME NEW t \in F, Reached(n, t)
       PROVE  \E i \in 1..Len(b) : t \in b[i].page
  <2>1. CASE m <= t
    <3>1. PICK i \in 1..Len(a) : t \in a[i].page
      BY <1>9, <2>1
    <3>2. i \in 1..Len(b)
      BY <1>1, <1>6
    <3> QED
      BY <1>6, <3>1, <3>2
  <2>2. CASE t < m
    <3>1. t \in PageOf(F, m)
      BY <1>4, <1>16, <2>2 DEF Before
    <3>2. Len(a) + 1 \in 1..Len(b)
      BY <1>1, <1>6
    <3> QED
      BY <1>6, <1>7, <3>1, <3>2
  <2> QED
    BY <1>3, <1>8, <2>1, <2>2
<1>17. n # None => n \in F
  BY <1>4
<1>18. PagesOK(b)
  BY <1>13, <1>14, <1>15, <1>16, <1>17 DEF PagesOK, F
<1> QED
  BY <1>18 DEF b, x, F, m
-----------------------------------------------------------------------------
(* Every step keeps the sessions.                                          *)

LEMMA SessionUnchanged ==
    ASSUME NEW d \in Clients, SessionOK(d),
           session'[d] = session[d], req'[d] = req[d], seen'[d] = seen[d],
           answered'[d] = answered[d],
           pc'[d] = pc[d] \/ (pc[d] \in Active \ {"paging"} /\ pc'[d] # "paging")
    PROVE  SessionOK(d)'
BY DEF SessionOK, Asks, Active

LEMMA SessionReset ==
    ASSUME NEW d \in Clients, session'[d] = NoSession, pc'[d] \notin Active
    PROVE  SessionOK(d)'
BY DEF SessionOK, NoSession, Active

LEMMA LastAnswer ==
    ASSUME IInv, NEW c \in Clients, session[c].answers # <<>>
    PROVE  LET a == session[c].answers
           IN  a \in Seq(Answers) /\ a[Len(a)] \in Answers
               /\ a[Len(a)].version \in Versions /\ a[Len(a)].version # None
<1> DEFINE a == session[c].answers
<1>1. a \in Seq(Answers) /\ a # <<>>
  BY DEF IInv, TypeOK
<1>2. a[Len(a)] \in Answers
  BY <1>1
<1> HIDE DEF a
<1>3. a[Len(a)].version \in Versions
  BY <1>2 DEF Answers
<1> QED
  BY <1>1, <1>2, <1>3, ConstantsAssumption DEF a

LEMMA InitSessions == Init => Sessions
BY DEF Init, Sessions, SessionOK, Active, NoSession

LEMMA AskSessions ==
    ASSUME IInv, Sessions, NEW c \in Clients, Ask(c)
    PROVE  Sessions'
<1>1. PICK r, s :
         /\ Open(c, r, s)
         /\ s.key = r.key
         /\ \/ s.answers = <<>> /\ r.pin = None /\ r.before = None
            \/ /\ s = session[c] /\ s.answers # <<>>
               /\ r.pin = s.answers[Len(s.answers)].version
               /\ r.before = s.answers[Len(s.answers)].next /\ r.before # None
  <2>1. CASE AskFirstPage(c)
    <3>1. PICK k \in Keys :
             Open(c, [key |-> k, before |-> None, pin |-> None, bounds |-> Committed],
                  [key |-> k, answers |-> <<>>])
      BY <2>1 DEF AskFirstPage
    <3> DEFINE r == [key |-> k, before |-> None, pin |-> None, bounds |-> Committed]
               s == [key |-> k, answers |-> <<>>]
    <3>2. s.key = r.key /\ s.answers = <<>> /\ r.pin = None /\ r.before = None
      OBVIOUS
    <3>3. Open(c, r, s)
      BY <3>1
    <3> HIDE DEF r, s
    <3> QED
      BY <3>2, <3>3
  <2>2. CASE AskNextPage(c)
    <3> DEFINE r == NextPage(c)
               s == session[c]
    <3>1. Open(c, r, s) /\ s.answers # <<>> /\ s.answers[Len(s.answers)].next # None
      BY <2>2 DEF AskNextPage
    <3>2. /\ r.key = s.key /\ r.pin = s.answers[Len(s.answers)].version
          /\ r.before = s.answers[Len(s.answers)].next
      BY DEF NextPage
    <3> QED
      BY <3>1, <3>2, Zenon
  <2> QED
    BY <2>1, <2>2 DEF Ask
<1>2. /\ pc' = [pc EXCEPT ![c] = "bounded"] /\ req' = [req EXCEPT ![c] = r]
      /\ session' = [session EXCEPT ![c] = s]
      /\ UNCHANGED <<seen, answered>>
  BY <1>1 DEF Open
<1>3. pc'[c] = "bounded" /\ req'[c] = r /\ session'[c] = s
  BY <1>2 DEF IInv, TypeOK
<1>4. Asks(c)'
  BY <1>1, <1>3 DEF Asks
<1>5. s.answers # <<>> => PagesOK(s.answers)
                          /\ seen'[c][s.key] = s.answers[Len(s.answers)].version
  BY <1>1, <1>2 DEF Sessions, SessionOK
<1>6. SessionOK(c)'
  BY <1>3, <1>4, <1>5 DEF SessionOK, Active
<1>7. ASSUME NEW d \in Clients, d # c PROVE SessionOK(d)'
  <2>1. pc'[d] = pc[d] /\ req'[d] = req[d] /\ session'[d] = session[d]
    BY <1>2, <1>7 DEF IInv, TypeOK
  <2> QED
    BY <1>2, <2>1, SessionUnchanged DEF Sessions
<1> QED
  BY <1>6, <1>7 DEF Sessions

LEMMA LeaveSessions ==
    ASSUME IInv, Sessions, NEW c \in Clients, NEW e \in Entries, Leave(c, e),
           pc[c] \in Active, UNCHANGED req
    PROVE  Sessions'
<1> DEFINE a == session[c].answers
           k == req[c].key
<1>1. k \in Keys /\ e.version \in Versions /\ e.version # None
  BY ConstantsAssumption DEF IInv, Held, Requests, Entries
<1>2. Asks(c) /\ session[c].key = k
  BY DEF Sessions, SessionOK, Asks
<1>3. ASSUME NEW d \in Clients, d # c PROVE SessionOK(d)'
  <2>1. /\ pc'[d] = pc[d] /\ session'[d] = session[d]
        /\ answered'[d] = answered[d] /\ seen'[d] = seen[d]
    BY <1>3 DEF Leave, IInv, TypeOK
  <2> QED
    BY <2>1, SessionUnchanged DEF Sessions
<1>4. CASE Conflict(e, req[c])
  <2>1. session'[c] = NoSession /\ pc'[c] = "conflict"
    BY <1>4 DEF Leave, IInv, TypeOK
  <2>2. SessionOK(c)'
    BY <2>1, SessionReset DEF Active
  <2> QED
    BY <1>3, <2>2 DEF Sessions
<1>5. CASE ~ Conflict(e, req[c])
  <2>1. /\ pc'[c] = "paging" /\ answered'[c] = e /\ session' = session
        /\ seen'[c][k] = e.version
    BY <1>1, <1>5 DEF Leave, IInv, TypeOK
  <2>2. a # <<>> => PagesOK(a) /\ e.version = a[Len(a)].version
    <3>1. a # <<>> => PagesOK(a)
      BY DEF Sessions, SessionOK
    <3>2. a # <<>> => req[c].pin = a[Len(a)].version
      BY <1>2 DEF Asks
    <3>3. a # <<>> => a[Len(a)].version # None
      BY LastAnswer
    <3> QED
      BY <1>5, <3>1, <3>2, <3>3 DEF Conflict
  <2>3. Asks(c)'
    BY <1>2, <2>1 DEF Asks
  <2>4. SessionOK(c)'
    BY <1>2, <2>1, <2>2, <2>3 DEF SessionOK
  <2> QED
    BY <1>3, <2>4 DEF Sessions
<1> QED
  BY <1>4, <1>5

LEMMA FailSessions ==
    ASSUME IInv, Sessions, NEW c \in Clients, Fail(c)
    PROVE  Sessions'
<1>1. session'[c] = NoSession /\ pc'[c] = "failed"
  BY DEF Fail, IInv, TypeOK
<1>2. SessionOK(c)'
  BY <1>1, SessionReset DEF Active
<1>3. ASSUME NEW d \in Clients, d # c PROVE SessionOK(d)'
  <2>1. /\ pc'[d] = pc[d] /\ session'[d] = session[d] /\ req' = req
        /\ answered' = answered /\ seen' = seen
    BY <1>3 DEF Fail, IInv, TypeOK
  <2> QED
    BY <2>1, SessionUnchanged DEF Sessions
<1> QED
  BY <1>2, <1>3 DEF Sessions

LEMMA AnswerSessions ==
    ASSUME IInv, Sessions, NEW c \in Clients, Answer(c)
    PROVE  Sessions'
<1> DEFINE v == answered[c].version
           F == Finished(v)
           a == session[c].answers
           page(n) == [version |-> v, next |-> n, page |-> PageOf(F, req[c].before)]
<1>1. pc[c] = "paging" /\ v \in Versions /\ v # None
  BY ConstantsAssumption DEF Answer, IInv, Held, Entries
<1>2. Asks(c) /\ seen[c][req[c].key] = v /\ session[c].key = req[c].key
  BY <1>1 DEF Sessions, SessionOK, Asks, Active
<1>3. PICK n \in NextBefore(F, req[c].before) :
         session' = [session EXCEPT ![c].answers = Append(@, page(n))]
  BY DEF Answer
<1>4. a \in Seq(Answers) /\ session \in [Clients -> [key : Keys \union {None}, answers : Seq(Answers)]]
  BY DEF IInv, TypeOK
<1>5. session'[c].key = session[c].key /\ session'[c].answers = Append(a, page(n))
  BY <1>3, <1>4
<1>6. PagesOK(Append(a, page(n)))
  <2>1. CASE a = <<>>
    <3>1. req[c].before = None
      BY <1>2, <2>1 DEF Asks
    <3>2. Append(a, page(n)) = <<page(n)>>
      BY <2>1
    <3> QED
      BY <1>1, <1>3, <3>1, <3>2, FirstPage
  <2>2. CASE a # <<>>
    <3>1. /\ req[c].before = a[Len(a)].next /\ a[Len(a)].next # None
          /\ req[c].pin = a[Len(a)].version
      BY <1>2, <2>2 DEF Asks
    <3>2. a[Len(a)].version # None
      BY <2>2, LastAnswer
    <3>3. v = a[Len(a)].version
      BY <1>1, <3>1, <3>2 DEF IInv, PagesOwnVersion
    <3>4. PagesOK(a)
      BY <2>2 DEF Sessions, SessionOK
    <3> HIDE DEF a, v
    <3> QED
      BY <1>1, <1>3, <1>4, <2>2, <3>1, <3>3, <3>4, AppendPage
  <2> QED
    BY <2>1, <2>2
<1>7. /\ Append(a, page(n)) # <<>>
      /\ Append(a, page(n))[Len(Append(a, page(n)))] = page(n)
  <2>1. a \in Seq(Answers \union {page(n)})
    BY <1>4, SeqDef
  <2> HIDE DEF a
  <2> QED
    BY <2>1, AppendProperties
<1>8. pc'[c] = "served" /\ seen' = seen /\ req' = req
  BY DEF Answer, IInv, TypeOK
<1>9. SessionOK(c)'
  <2>1. page(n).version = v
    OBVIOUS
  <2> HIDE DEF v, a, page, F
  <2> QED
    BY <1>2, <1>5, <1>6, <1>7, <1>8, <2>1 DEF SessionOK, Active
<1>10. ASSUME NEW d \in Clients, d # c PROVE SessionOK(d)'
  <2>1. /\ pc'[d] = pc[d] /\ session'[d] = session[d] /\ answered'[d] = answered[d]
    BY <1>3, <1>4, <1>10 DEF Answer, IInv, TypeOK
  <2> QED
    BY <1>8, <2>1, SessionUnchanged DEF Sessions
<1> QED
  BY <1>9, <1>10 DEF Sessions

LEMMA SessionsStep == IInv /\ Sessions /\ [Next]_vars => Sessions'
<1> SUFFICES ASSUME IInv, Sessions, [Next]_vars PROVE Sessions'
  OBVIOUS
<1>1. ASSUME UNCHANGED <<req, answered, session, seen>>,
             NEW c \in Clients, pc[c] \in Active \ {"paging"}, NEW p,
             p # "paging", pc' = [pc EXCEPT ![c] = p]
      PROVE  Sessions'
  <2> SUFFICES ASSUME NEW d \in Clients PROVE SessionOK(d)'
    BY DEF Sessions
  <2>1. pc'[d] = IF d = c THEN p ELSE pc[d]
    BY <1>1 DEF IInv, TypeOK
  <2> QED
    BY <1>1, <2>1, SessionUnchanged DEF Sessions
<1>2. ASSUME UNCHANGED requests PROVE Sessions'
  BY <1>2, SessionUnchanged DEF requests, Sessions
<1>3. CASE Market \/ UNCHANGED vars
  BY <1>2, <1>3 DEF Market, Commit, Backfill, Repair, Tick, vars
<1>4. ASSUME NEW c \in Clients, Ask(c) PROVE Sessions'
  BY <1>4, AskSessions
<1>5. ASSUME NEW c \in Clients, Handle(c) PROVE Sessions'
  <2>1. CASE BoundsFail(c) \/ RefreshFail(c)
    BY <2>1, FailSessions DEF BoundsFail, RefreshFail
  <2>2. CASE FindSlot(c) \/ NewSlot(c)
    <3>1. /\ pc[c] = "bounded" /\ pc' = [pc EXCEPT ![c] = "slotted"]
          /\ UNCHANGED <<req, answered, session, seen>>
      BY <2>2 DEF FindSlot, NewSlot, Use
    <3> QED
      BY <1>1, <3>1 DEF Active
  <2>3. CASE ServeCached(c)
    <3>1. entry[slotOf[c]] \in Entries
      BY <2>3 DEF ServeCached, Valid, IInv, TypeOK, Held
    <3> QED
      BY <2>3, <3>1, LeaveSessions DEF ServeCached, Active
  <2>4. CASE StartRefresh(c)
    <3>1. /\ pc[c] = "slotted" /\ pc' = [pc EXCEPT ![c] = "loading"]
          /\ UNCHANGED <<req, answered, session, seen>>
      BY <2>4 DEF StartRefresh
    <3> QED
      BY <1>1, <3>1 DEF Active
  <2>5. CASE LoadRange(c)
    <3>1. /\ pc[c] = "loading" /\ pc' = [pc EXCEPT ![c] = "loaded"]
          /\ UNCHANGED <<req, answered, session, seen>>
      BY <2>5 DEF LoadRange
    <3> QED
      BY <1>1, <3>1 DEF Active
  <2>6. CASE Store(c)
    <3> DEFINE e == [version |-> loaded[c], loadedAt |-> clock]
    <3>1. e \in Entries
      BY <2>6 DEF Store, IInv, TypeOK, Held, Entries
    <3> QED
      BY <2>6, <3>1, LeaveSessions DEF Store, Active
  <2>7. CASE Answer(c)
    BY <2>7, AnswerSessions
  <2> QED
    BY <1>5, <2>1, <2>2, <2>3, <2>4, <2>5, <2>6, <2>7 DEF Handle
<1> QED
  BY <1>3, <1>4, <1>5 DEF Next

LEMMA SessionsGiveExact == Sessions => SessionExact
<1> SUFFICES ASSUME Sessions, NEW c \in Clients, session[c].answers # <<>>
             PROVE  LET a == session[c].answers
                    IN  /\ \A i \in DOMAIN a : a[i].version = a[1].version
                        /\ \A i, j \in DOMAIN a : i < j =>
                               \A t \in a[i].page, u \in a[j].page : u < t
                        /\ a[Len(a)].next = None =>
                               UNION {a[i].page : i \in DOMAIN a} = Finished(a[1].version)
  BY DEF SessionExact
<1>1. PagesOK(session[c].answers)
  BY DEF Sessions, SessionOK
<1> QED
  BY <1>1 DEF PagesOK, Reached

LEMMA SessionsInvariant == Spec => [](IInv /\ Sessions)
BY InitInv, InitSessions, NextInv, SessionsStep, PTL DEF Spec

\* Whatever is committed, backfilled or repaired between the pages, and
\* whatever other requests do to the slot: the pages a caller collects with
\* the hash of the first one are of one data version, newest first, and once
\* next_before_start_ms is null they are all its finished episodes.
THEOREM SessionsAreExact == Spec => []SessionExact
BY SessionsInvariant, SessionsGiveExact, PTL
-----------------------------------------------------------------------------
(* The LRU as a set of cells, while it never evicts.                       *)

\* A new key leaves room for its own cell.
LEMMA RoomForKey ==
    ASSUME KeysFit, NEW l \in Seq(Cells), Distinct(l), NEW k \in Keys,
           \A i \in DOMAIN l : l[i].key # k
    PROVE  Len(l) + 1 <= MaxEntries
<1> DEFINE keyOf == [i \in 1..Len(l) |-> l[i].key]
           others == Keys \ {k}
<1>1. Len(l) \in Nat /\ \A i \in 1..Len(l) : l[i] \in Cells
  OBVIOUS
<1>2. keyOf \in [1..Len(l) -> others]
  BY <1>1 DEF Cells
<1>3. \A i, j \in 1..Len(l) : keyOf[i] = keyOf[j] => i = j
  BY <1>1 DEF Distinct
<1>4. keyOf \in Injection(1..Len(l), others)
  BY <1>2, <1>3 DEF Injection, IsInjective
<1>5. IsFiniteSet(others) /\ Cardinality(others) = Cardinality(Keys) - 1
        /\ Cardinality(Keys) \in Nat
  BY FS_RemoveElement, FS_CardinalityType DEF KeysFit
<1> HIDE DEF keyOf, others
<1>6. Cardinality(1..Len(l)) <= Cardinality(others)
  BY <1>4, <1>5, FS_Injection
<1>7. Cardinality(1..Len(l)) = Len(l)
  <2>1. \A n \in Nat : Cardinality(1..n) = IF 1 > n THEN 0 ELSE n - 1 + 1
    BY FS_Interval
  <2> QED
    BY <1>1, <2>1
<1> QED
  BY <1>1, <1>5, <1>6, <1>7, ConstantsAssumption DEF KeysFit

LEMMA KeepAll ==
    ASSUME NEW l \in Seq(Cells), NEW x \in Cells, Len(l) + 1 <= MaxEntries
    PROVE  Range(Keep(Append(l, x))) = Range(l) \union {x}
<1>1. /\ Append(l, x) \in Seq(Cells) /\ Len(Append(l, x)) = Len(l) + 1
      /\ Append(l, x)[Len(l) + 1] = x /\ \A i \in 1..Len(l) : Append(l, x)[i] = l[i]
  BY AppendProperties
<1>2. Keep(Append(l, x)) = Append(l, x)
  BY <1>1, ConstantsAssumption DEF Keep
<1>3. DOMAIN Append(l, x) = 1..Len(l) + 1 /\ DOMAIN l = 1..Len(l) /\ Len(l) \in Nat
  BY <1>1
<1>4. DOMAIN Append(l, x) = DOMAIN l \union {Len(l) + 1}
  BY <1>3
<1> QED
  BY <1>1, <1>2, <1>3, <1>4 DEF Range

\* The cells but one.
LEMMA RemoveAtRange ==
    ASSUME NEW l \in Seq(Cells), Distinct(l), NEW i \in DOMAIN l
    PROVE  Range(RemoveAt(l, i)) = {x \in Range(l) : x.key # l[i].key}
<1> DEFINE r == RemoveAt(l, i)
<1>1. r \in Seq(Cells) /\ Len(l) \in Nat /\ i \in 1..Len(l)
  BY RemoveAtType
<1>2. \A j \in DOMAIN r : \E m \in DOMAIN l : r[j] = l[m]
  BY RemoveAtElement
<1>3. \A j \in DOMAIN r : r[j].key # l[i].key
  BY RemoveAtDistinct
<1>4. ASSUME NEW m \in DOMAIN l, m # i
      PROVE  \E j \in DOMAIN r : r[j] = l[m]
  <2> DEFINE j == IF m < i THEN m ELSE m - 1
  <2>1. m \in Nat /\ m \in 1..Len(l)
    BY <1>1
  <2>2. j \in 1..Len(l) - 1 /\ m = IF j < i THEN j ELSE j + 1
    BY <1>1, <1>4, <2>1
  <2>3. Len(r) = Len(l) - 1
    <3>1. r = SubSeq(l, 1, i - 1) \o SubSeq(l, i + 1, Len(l))
      BY DEF RemoveAt
    <3>2. SubSeq(l, 1, i - 1) \in Seq(Cells) /\ Len(SubSeq(l, 1, i - 1)) = i - 1
      BY <1>1, SubSeqProperties
    <3>3. SubSeq(l, i + 1, Len(l)) \in Seq(Cells) /\ Len(SubSeq(l, i + 1, Len(l))) = Len(l) - i
      BY <1>1, SubSeqProperties
    <3>4. Len(r) = (i - 1) + (Len(l) - i)
      BY <3>1, <3>2, <3>3, ConcatProperties
    <3> QED
      BY <1>1, <3>4
  <2>4. j \in DOMAIN r
    BY <1>1, <2>2, <2>3, LenProperties
  <2> HIDE DEF r, j
  <2>5. r[j] = l[IF j < i THEN j ELSE j + 1]
    BY <2>4, RemoveAtElement DEF r
  <2> QED
    BY <2>2, <2>4, <2>5
<1>5. \A m \in DOMAIN l : l[m].key # l[i].key => m # i
  OBVIOUS
<1> HIDE DEF r
<1>6. Range(r) = {x \in Range(l) : x.key # l[i].key}
  <2>1. ASSUME NEW x \in Range(r) PROVE x \in Range(l) /\ x.key # l[i].key
    BY <1>2, <1>3 DEF Range
  <2>2. ASSUME NEW x \in Range(l), x.key # l[i].key PROVE x \in Range(r)
    <3>1. PICK m \in DOMAIN l : x = l[m]
      BY DEF Range
    <3>2. PICK j \in DOMAIN r : r[j] = x
      BY <1>4, <2>2, <3>1
    <3> QED
      BY <3>2 DEF Range
  <2> QED
    BY <2>1, <2>2
<1> QED
  BY <1>6 DEF r

LEMMA DistinctCells ==
    ASSUME IInv, LruSound, NEW x \in Range(lru), NEW y \in Range(lru)
    PROVE  /\ x \in Cells
           /\ x.key = y.key => x = y
           /\ x.slot = y.slot => x = y
<1>1. lru \in Seq(Cells)
  BY DEF IInv, TypeOK
<1>2. PICK i \in DOMAIN lru : x = lru[i]
  BY DEF Range
<1>3. PICK j \in DOMAIN lru : y = lru[j]
  BY DEF Range
<1>4. lru[i] \in Cells
  BY <1>1
<1>5. i # j => lru[i].key # lru[j].key /\ lru[i].slot # lru[j].slot
  BY DEF LruSound
<1> QED
  BY <1>2, <1>3, <1>4, <1>5

CellOf(c) == [key |-> req[c].key, slot |-> slotOf[c]]

\* EpisodeHistoryCache.slot: the key's cell is added or moved to the end, and
\* no other cell is lost.
LEMMA SlotCells ==
    ASSUME KeysFit, IInv, LruSound, NEW c \in Clients, FindSlot(c) \/ NewSlot(c)
    PROVE  /\ CellOf(c)' \in Cells
           /\ Range(lru') = Range(lru) \union {CellOf(c)'}
           /\ \/ CellOf(c)' \in Range(lru) /\ entry' = entry
              \/ /\ \A x \in Range(lru) : x.key # req[c].key /\ x.slot # slotOf'[c]
                 /\ slotOf'[c] \in Slots /\ entry' = [entry EXCEPT ![slotOf'[c]] = None]
<1>1. lru \in Seq(Cells) /\ Distinct(lru)
  BY DEF IInv, TypeOK, LruSound, Distinct
<1>2. req[c].key \in Keys /\ slotOf \in [Clients -> Slots \union {None}]
  BY DEF FindSlot, NewSlot, IInv, TypeOK, Held, Active, Requests
<1>3. CASE FindSlot(c)
  <2>1. PICK i \in DOMAIN lru :
           lru[i].key = req[c].key /\ Use(c, RemoveAt(lru, i), lru[i].slot)
    BY <1>3 DEF FindSlot
  <2>2. lru[i] \in Cells
    BY <1>1
  <2>3. lru[i] = [key |-> req[c].key, slot |-> lru[i].slot]
    BY <2>1, <2>2 DEF Cells
  <2>4. slotOf'[c] = lru[i].slot /\ req' = req
    BY <1>2, <2>1 DEF Use
  <2>5. CellOf(c)' = lru[i]
    BY <2>3, <2>4 DEF CellOf
  <2>6. lru' = Keep(Append(RemoveAt(lru, i), lru[i]))
    BY <2>1, <2>3 DEF Use
  <2>7. RemoveAt(lru, i) \in Seq(Cells) /\ Len(RemoveAt(lru, i)) + 1 <= MaxEntries
    <3> DEFINE r == RemoveAt(lru, i)
    <3>1. r \in Seq(Cells) /\ Distinct(r) /\ \A j \in DOMAIN r : r[j].key # req[c].key
      BY <1>1, <2>1, RemoveAtType, RemoveAtDistinct
    <3> HIDE DEF r
    <3>2. Len(r) + 1 <= MaxEntries
      BY <1>2, <3>1, RoomForKey
    <3> QED
      BY <3>1, <3>2 DEF r
  <2>8. Range(lru') = Range(RemoveAt(lru, i)) \union {lru[i]}
    BY <2>2, <2>6, <2>7, KeepAll
  <2>9. Range(RemoveAt(lru, i)) = {x \in Range(lru) : x.key # lru[i].key}
    BY <1>1, RemoveAtRange
  <2>10. lru[i] \in Range(lru) /\ \A x \in Range(lru) : x.key = lru[i].key => x = lru[i]
    <3>1. lru[i] \in Range(lru)
      BY DEF Range
    <3> QED
      BY <3>1, DistinctCells
  <2>11. Range(lru') = Range(lru) \union {lru[i]}
    BY <2>8, <2>9, <2>10
  <2> QED
    BY <1>3, <2>2, <2>5, <2>10, <2>11 DEF FindSlot
<1>4. CASE NewSlot(c)
  <2>1. PICK s \in Free : entry' = [entry EXCEPT ![s] = None] /\ Use(c, lru, s)
    BY <1>4 DEF NewSlot
  <2>2. s \in Slots /\ \A x \in Range(lru) : x.slot # s
    BY <2>1 DEF Free, Range
  <2>3. slotOf'[c] = s /\ req' = req
    BY <1>2, <2>1 DEF Use
  <2>4. CellOf(c)' = [key |-> req[c].key, slot |-> s] /\ CellOf(c)' \in Cells
    BY <1>2, <2>2, <2>3 DEF CellOf, Cells
  <2>5. lru' = Keep(Append(lru, CellOf(c)'))
    BY <2>1, <2>4 DEF Use
  <2>6. \A i \in DOMAIN lru : lru[i].key # req[c].key
    BY <1>4 DEF NewSlot
  <2>7. Len(lru) + 1 <= MaxEntries
    BY <1>1, <1>2, <2>6, RoomForKey
  <2>8. Range(lru') = Range(lru) \union {CellOf(c)'}
    <3> DEFINE x == CellOf(c)'
    <3>1. x \in Cells /\ lru' = Keep(Append(lru, x))
      BY <2>4, <2>5
    <3> HIDE DEF x
    <3>2. Range(lru') = Range(lru) \union {x}
      BY <1>1, <2>7, <3>1, KeepAll
    <3> QED
      BY <3>2 DEF x
  <2>9. \A x \in Range(lru) : x.key # req[c].key
    BY <2>6 DEF Range
  <2> QED
    BY <2>1, <2>2, <2>3, <2>4, <2>8, <2>9
<1> QED
  BY <1>3, <1>4
-----------------------------------------------------------------------------
(* One request at a time computes a key.                                   *)

\* A step that does not ask for a slot leaves the LRU alone, and a request
\* waiting after it was waiting before, with the same slot.
LEMMA OtherSteps ==
    ASSUME IInv, [Next]_vars, \A c \in Clients : ~ (FindSlot(c) \/ NewSlot(c))
    PROVE  /\ lru' = lru
           /\ \A d \in Clients : pc'[d] \in Waiting =>
                  pc[d] \in Waiting /\ req'[d] = req[d] /\ slotOf'[d] = slotOf[d]
<1> DEFINE Kept(d) == pc'[d] \in Waiting =>
                         pc[d] \in Waiting /\ req'[d] = req[d] /\ slotOf'[d] = slotOf[d]
<1>1. CASE Market \/ UNCHANGED vars
  BY <1>1 DEF Market, Commit, Backfill, Repair, Tick, vars, requests
<1>2. ASSUME NEW c \in Clients, Ask(c) PROVE lru' = lru /\ \A d \in Clients : Kept(d)
  <2>1. lru' = lru /\ slotOf' = slotOf /\ pc'[c] = "bounded"
        /\ \A d \in Clients \ {c} : pc'[d] = pc[d] /\ req'[d] = req[d]
    BY <1>2 DEF Ask, AskFirstPage, AskNextPage, Open, IInv, TypeOK
  <2> QED
    BY <2>1 DEF Waiting
<1>3. ASSUME NEW c \in Clients, Handle(c) PROVE lru' = lru /\ \A d \in Clients : Kept(d)
  <2>1. lru' = lru /\ req' = req
    BY <1>3 DEF Handle, BoundsFail, RefreshFail, ServeCached, StartRefresh, LoadRange, Store,
                Fail, Answer
  <2>2. CASE BoundsFail(c) \/ RefreshFail(c) \/ ServeCached(c) \/ Store(c) \/ Answer(c)
    <3>1. /\ pc'[c] \notin Waiting
          /\ \A d \in Clients \ {c} : pc'[d] = pc[d] /\ slotOf'[d] = slotOf[d]
      BY <2>2 DEF BoundsFail, RefreshFail, ServeCached, Store, Fail, Leave, Answer,
                  IInv, TypeOK, Waiting
    <3> QED
      BY <2>1, <3>1
  <2>3. CASE StartRefresh(c) \/ LoadRange(c)
    <3>1. slotOf' = slotOf /\ \A d \in Clients : pc'[d] \in Waiting => pc[d] \in Waiting
      BY <2>3 DEF StartRefresh, LoadRange, IInv, TypeOK, Waiting
    <3> QED
      BY <2>1, <3>1
  <2> QED
    BY <1>3, <2>1, <2>2, <2>3 DEF Handle
<1> QED
  BY <1>1, <1>2, <1>3 DEF Next

LEMMA InLruStep ==
    ASSUME KeysFit, IInv, LruSound, InLru, [Next]_vars
    PROVE  InLru'
<1>1. CASE \A c \in Clients : ~ (FindSlot(c) \/ NewSlot(c))
  BY <1>1, OtherSteps DEF InLru
<1>2. ASSUME NEW c \in Clients, FindSlot(c) \/ NewSlot(c) PROVE InLru'
  <2>1. /\ CellOf(c)' \in Range(lru')
        /\ Range(lru) \subseteq Range(lru')
    BY <1>2, SlotCells
  <2>2. /\ req' = req
        /\ \A d \in Clients \ {c} : pc'[d] = pc[d] /\ slotOf'[d] = slotOf[d]
    BY <1>2 DEF FindSlot, NewSlot, Use, IInv, TypeOK
  <2>3. ASSUME NEW d \in Clients, pc'[d] \in Waiting
        PROVE  [key |-> req[d].key, slot |-> slotOf[d]]' \in Range(lru')
    <3>1. CASE d = c
      BY <2>1, <3>1 DEF CellOf
    <3>2. CASE d # c
      BY <2>1, <2>2, <2>3, <3>2 DEF InLru
    <3> QED
      BY <3>1, <3>2
  <2> QED
    BY <2>3 DEF InLru
<1> QED
  BY <1>1, <1>2

\* Two requests with a slot of the same key have the same slot.
LEMMA OneSlotPerKey ==
    ASSUME IInv, LruSound, InLru,
           NEW c \in Clients, NEW d \in Clients, pc[c] \in Waiting, pc[d] \in Waiting,
           req[c].key = req[d].key
    PROVE  slotOf[c] = slotOf[d]
<1> DEFINE x == [key |-> req[c].key, slot |-> slotOf[c]]
           y == [key |-> req[d].key, slot |-> slotOf[d]]
<1>1. x \in Range(lru) /\ y \in Range(lru)
  BY DEF InLru
<1>2. x.key = y.key => x = y
  <2> HIDE DEF x, y
  <2> QED
    BY <1>1, DistinctCells
<1>3. x = y
  BY <1>2
<1> QED
  BY <1>3

\* The holder of a slot's lock is the one request refreshing it.
LEMMA OneRefresher ==
    ASSUME IInv, NEW c \in Clients, NEW d \in Clients, Refreshing(c), Refreshing(d),
           slotOf[c] = slotOf[d]
    PROVE  c = d
<1>1. slotOf[c] \in Slots
  BY DEF IInv, Held, Refreshing
<1>2. LockedByRefresher
  BY DEF IInv
<1>3. lock[slotOf[c]] = c
  BY <1>1, <1>2, Zenon DEF LockedByRefresher
<1>4. lock[slotOf[c]] = d
  BY <1>1, <1>2, Zenon DEF LockedByRefresher
<1> QED
  BY <1>3, <1>4

LEMMA InLruGivesSingleFlight == IInv /\ LruSound /\ InLru => SingleFlight
<1> SUFFICES ASSUME IInv, LruSound, InLru, NEW c \in Clients, NEW d \in Clients, c # d,
                    Refreshing(c), Refreshing(d), req[c].key = req[d].key
             PROVE  FALSE
  BY DEF SingleFlight
<1>1. pc[c] \in Waiting /\ pc[d] \in Waiting
  BY DEF Refreshing, Waiting
<1>2. slotOf[c] = slotOf[d]
  BY <1>1, OneSlotPerKey
<1> QED
  BY <1>2, OneRefresher

LEMMA InLruInvariant ==
    ASSUME KeysFit
    PROVE  Spec => [](IInv /\ LruSound /\ InLru)
<1>1. Init => LruSound /\ InLru
  BY ConstantsAssumption DEF Init, LruSound, InLru, Waiting
<1>2. IInv /\ LruSound /\ InLru /\ [Next]_vars => InLru'
  BY InLruStep
<1> QED
  BY <1>1, <1>2, InitInv, NextInv, LruStep, PTL DEF Spec

\* While the keys in use fit in the LRU (max_entries), concurrent misses and
\* revalidations of one key run once: no two requests ever load and compute
\* its history at the same time.  Once a key's slot can be evicted while it is
\* in use, it fails.
THEOREM ComputedByOne ==
    ASSUME KeysFit
    PROVE  Spec => []SingleFlight
BY InLruInvariant, InLruGivesSingleFlight, PTL
-----------------------------------------------------------------------------
(* The versions of a key only grow.                                        *)

LEMMA VersionValues ==
    ASSUME NEW v \in Versions, NEW t \in DOMAIN v
    PROVE  v[t] \in Nat
BY VersionsDef, ConstantsAssumption

LEMMA CoversTransitive ==
    ASSUME NEW u \in Versions, NEW v \in Versions, NEW w \in Versions,
           Covers(u, v), Covers(v, w)
    PROVE  Covers(u, w)
<1> SUFFICES ASSUME NEW t \in DOMAIN w PROVE t \in DOMAIN u /\ u[t] >= w[t]
  BY DEF Covers
<1>1. t \in DOMAIN v /\ v[t] >= w[t] /\ t \in DOMAIN u /\ u[t] >= v[t]
  BY DEF Covers
<1>2. u[t] \in Nat /\ v[t] \in Nat /\ w[t] \in Nat
  BY <1>1, VersionValues
<1> QED
  BY <1>1, <1>2

LEMMA NewerSelf == ASSUME NEW v \in Versions PROVE Newer(v, v)
BY VersionValues DEF Newer

\* Nothing of the market is ever taken back.
LEMMA MarketCovers ==
    ASSUME IInv, Market
    PROVE  candles' \in Versions /\ Covers(candles', candles)
<1>1. candles \in Versions /\ candles' \in Versions
  BY MarketInv DEF IInv, TypeOK
<1>2. \A t \in Committed : candles[t] \in Nat
  BY <1>1, VersionValues DEF Committed
<1>3. CASE Commit \/ Backfill
  <2>1. PICK t \in Times \ Committed :
           candles' = [u \in Committed \union {t} |-> IF u = t THEN 0 ELSE candles[u]]
    BY <1>3 DEF Commit, Backfill
  <2> QED
    BY <1>1, <1>2, <2>1 DEF Covers, Committed
<1>4. CASE Repair
  <2>1. PICK t \in Committed : candles' = [candles EXCEPT ![t] = @ + 1]
    BY <1>4 DEF Repair
  <2> QED
    BY <1>1, <1>2, <2>1 DEF Covers, Committed
<1>5. CASE Tick
  BY <1>1, <1>2, <1>5 DEF Tick, Covers, Committed
<1> QED
  BY <1>1, <1>3, <1>4, <1>5 DEF Market

\* What is loaded now covers whatever the candles cover in its range.
LEMMA LoadedIsNewest ==
    ASSUME candles \in Versions, NEW S \in SUBSET Committed
    PROVE  /\ Covers(candles, Restrict(candles, S))
           /\ \A v \in Versions : Covers(candles, v) => Newer(Restrict(candles, S), v)
<1>1. /\ DOMAIN Restrict(candles, S) = S
      /\ \A t \in S : Restrict(candles, S)[t] = candles[t] /\ candles[t] \in Nat
  BY VersionValues DEF Restrict, Committed
<1>2. Covers(candles, Restrict(candles, S))
  BY <1>1 DEF Covers, Committed
<1>3. ASSUME NEW v \in Versions, Covers(candles, v) PROVE Newer(Restrict(candles, S), v)
  BY <1>1, <1>3 DEF Covers, Newer
<1> QED
  BY <1>2, <1>3

\* A version of the same candles that is newer, and that the candles cover,
\* is what the candles are, if they are the older one.
LEMMA SameVersion ==
    ASSUME NEW v \in Versions, NEW w \in Versions, Newer(v, w), Covers(candles, v),
           candles \in Versions, w = Restrict(candles, DOMAIN v)
    PROVE  v = w
<1>1. DOMAIN w = DOMAIN v
  BY DEF Restrict
<1>2. ASSUME NEW t \in DOMAIN v PROVE v[t] = w[t]
  <2>1. w[t] = candles[t] /\ t \in DOMAIN candles
    BY DEF Restrict, Covers
  <2>2. v[t] >= w[t] /\ candles[t] >= v[t]
    BY <1>1 DEF Newer, Covers
  <2>3. v[t] \in Nat /\ w[t] \in Nat
    BY <1>1, VersionValues
  <2> QED
    BY <2>1, <2>2, <2>3
<1>3. v = [t \in DOMAIN v |-> v[t]] /\ w = [t \in DOMAIN w |-> w[t]]
  BY VersionsDef
<1> QED
  BY <1>1, <1>2, <1>3
LEMMA Contents ==
    ASSUME IInv
    PROVE  /\ candles \in Versions
           /\ \A s \in Slots : entry[s] # None => entry[s] \in Entries /\ entry[s].version \in Versions
           /\ \A c \in Clients, k \in Keys : seen[c][k] # None => seen[c][k] \in Versions
           /\ \A c \in Clients : pc[c] = "loaded" =>
                  loaded[c] \in Versions /\ DOMAIN loaded[c] = req[c].bounds
           /\ \A c \in Clients : pc[c] \in Waiting \union {"bounded"} =>
                  req[c].key \in Keys /\ req[c].bounds \in Ranges /\ req[c].bounds \subseteq Committed
           /\ \A c \in Clients : pc[c] \in Waiting => slotOf[c] \in Slots
<1>1. candles \in Versions
      /\ (\A s \in Slots : entry[s] # None => entry[s] \in Entries)
      /\ \A c \in Clients, k \in Keys : seen[c][k] # None => seen[c][k] \in Versions
  BY DEF IInv, TypeOK
<1>2. \A e \in Entries : e.version \in Versions
  BY DEF Entries
<1>3. \A c \in Clients : /\ pc[c] = "loaded" =>
                              loaded[c] \in Versions /\ DOMAIN loaded[c] = req[c].bounds
                         /\ pc[c] \in Waiting => slotOf[c] \in Slots
  BY DEF IInv, Held, Waiting
<1>4. \A c \in Clients : pc[c] \in Waiting \union {"bounded"} =>
         req[c].key \in Keys /\ req[c].bounds \in Ranges /\ req[c].bounds \subseteq Committed
  BY DEF IInv, Held, Waiting, Active, Requests
<1> QED
  BY <1>1, <1>2, <1>3, <1>4

LEMMA MarketFresh ==
    ASSUME IInv, Fresh, Market
    PROVE  Fresh'
<1>1. UNCHANGED <<requests, lru, entry, lock>>
  BY DEF Market, Commit, Backfill, Repair, Tick
<1>2. candles \in Versions /\ candles' \in Versions /\ Covers(candles', candles)
  BY MarketCovers, Contents
<1>3. \A v \in Versions : Covers(candles, v) => Covers(candles', v)
  BY <1>2, CoversTransitive
<1>4. NothingNewer'
  BY <1>1, <1>3, Contents DEF Fresh, NothingNewer, requests
<1>5. BoundsHoldSeen' /\ NewerThanSeen'
  BY <1>1 DEF Fresh, BoundsHoldSeen, NewerThanSeen, requests
<1> QED
  BY <1>4, <1>5 DEF Fresh

LEMMA AskFresh ==
    ASSUME IInv, Fresh, NEW c \in Clients, Ask(c)
    PROVE  Fresh'
<1>1. PICK r, s : Open(c, r, s) /\ r.bounds = Committed
                  /\ r.key \in Keys
  <2>1. CASE AskFirstPage(c)
    <3>1. PICK k \in Keys :
             Open(c, [key |-> k, before |-> None, pin |-> None, bounds |-> Committed],
                  [key |-> k, answers |-> <<>>])
      BY <2>1 DEF AskFirstPage
    <3> DEFINE r == [key |-> k, before |-> None, pin |-> None, bounds |-> Committed]
               s == [key |-> k, answers |-> <<>>]
    <3>2. r.bounds = Committed /\ r.key \in Keys
      OBVIOUS
    <3>3. Open(c, r, s)
      BY <3>1
    <3> HIDE DEF r, s
    <3> QED
      BY <3>2, <3>3
  <2>2. CASE AskNextPage(c)
    <3>1. Open(c, NextPage(c), session[c]) /\ session[c].key \in Keys
      BY <2>2 DEF AskNextPage, IInv, Held
    <3>2. NextPage(c).bounds = Committed /\ NextPage(c).key = session[c].key
      BY DEF NextPage
    <3> QED
      BY <3>1, <3>2
  <2> QED
    BY <2>1, <2>2 DEF Ask
<1>2. /\ UNCHANGED <<candles, lru, entry, loaded, seen>>
      /\ pc'[c] = "bounded" /\ req'[c] = r
      /\ \A d \in Clients \ {c} : pc'[d] = pc[d] /\ req'[d] = req[d]
  BY <1>1 DEF Open, env, IInv, TypeOK
<1>3. \A d \in Clients : pc'[d] = "loaded" => d # c /\ pc[d] = "loaded"
  BY <1>2
<1>4. NothingNewer'
  BY <1>2, <1>3 DEF Fresh, NothingNewer
<1>5. NewerThanSeen'
  BY <1>2, <1>3 DEF Fresh, NewerThanSeen
<1>6. BoundsHoldSeen'
  <2>1. seen[c][r.key] # None => DOMAIN seen[c][r.key] \subseteq Committed
    BY <1>1 DEF Fresh, NothingNewer, Covers, Committed
  <2> QED
    BY <1>1, <1>2, <2>1 DEF Fresh, BoundsHoldSeen
<1> QED
  BY <1>4, <1>5, <1>6 DEF Fresh

LEMMA SlotFresh ==
    ASSUME KeysFit, IInv, LruSound, Fresh, NEW c \in Clients, FindSlot(c) \/ NewSlot(c)
    PROVE  Fresh'
<1>1. /\ UNCHANGED <<candles, loaded, seen, req>> /\ pc[c] = "bounded" /\ pc'[c] = "slotted"
      /\ \A d \in Clients \ {c} : pc'[d] = pc[d]
  BY DEF FindSlot, NewSlot, Use, env, IInv, TypeOK
<1>2. \A d \in Clients : pc'[d] = "loaded" => pc[d] = "loaded"
  BY <1>1
<1>3. /\ \A s \in Slots : entry'[s] # None => entry'[s] = entry[s]
      /\ \A x \in Range(lru') : entry'[x.slot] # None =>
             x \in Range(lru) /\ entry'[x.slot] = entry[x.slot]
  <2> DEFINE x0 == CellOf(c)'
  <2>1. Range(lru') = Range(lru) \union {x0} /\ x0.slot = slotOf'[c]
    BY SlotCells DEF CellOf
  <2>2. \A x \in Range(lru) : x.slot \in Slots
    BY DistinctCells DEF Cells
  <2>3. entry \in [Slots -> Entries \union {None}]
    BY DEF IInv, TypeOK
  <2>4. CASE x0 \in Range(lru) /\ entry' = entry
    BY <2>1, <2>4
  <2>5. CASE /\ \A x \in Range(lru) : x.key # req[c].key /\ x.slot # slotOf'[c]
             /\ slotOf'[c] \in Slots /\ entry' = [entry EXCEPT ![slotOf'[c]] = None]
    <3> HIDE DEF x0
    <3> QED
      BY <2>1, <2>2, <2>3, <2>5
  <2> QED
    BY <2>4, <2>5, SlotCells
<1>4. NothingNewer'
  BY <1>1, <1>2, <1>3 DEF Fresh, NothingNewer
<1>5. NewerThanSeen'
  BY <1>1, <1>2, <1>3 DEF Fresh, NewerThanSeen
<1>6. BoundsHoldSeen'
  BY <1>1 DEF Fresh, BoundsHoldSeen
<1> QED
  BY <1>4, <1>5, <1>6 DEF Fresh

LEMMA LoadFresh ==
    ASSUME IInv, Fresh, NEW c \in Clients, StartRefresh(c) \/ LoadRange(c)
    PROVE  Fresh'
<1>1. /\ UNCHANGED <<candles, lru, entry, seen, req>>
      /\ pc[c] \in Waiting
      /\ \A d \in Clients \ {c} : pc'[d] = pc[d] /\ loaded'[d] = loaded[d]
      /\ pc'[c] = "loaded" => loaded'[c] = Restrict(candles, req[c].bounds)
  BY DEF StartRefresh, LoadRange, env, IInv, TypeOK, Waiting
<1>2. candles \in Versions /\ req[c].bounds \subseteq Committed
  BY <1>1, Contents
<1>3. pc'[c] = "loaded" =>
        /\ Covers(candles, loaded'[c])
        /\ \A v \in Versions : Covers(candles, v) => Newer(loaded'[c], v)
  BY <1>1, <1>2, LoadedIsNewest
<1>4. NothingNewer'
  BY <1>1, <1>3 DEF Fresh, NothingNewer
<1>5. BoundsHoldSeen'
  BY <1>1 DEF Fresh, BoundsHoldSeen
<1>6. NewerThanSeen'
  <2>1. ASSUME NEW b \in Clients, NEW k \in Keys, seen[b][k] # None
        PROVE  \A d \in Clients : pc'[d] = "loaded" /\ req[d].key = k =>
                  Newer(loaded'[d], seen[b][k])
    <3>1. seen[b][k] \in Versions /\ Covers(candles, seen[b][k])
      BY <2>1, Contents DEF Fresh, NothingNewer
    <3> QED
      BY <1>1, <1>3, <2>1, <3>1 DEF Fresh, NewerThanSeen
  <2> QED
    BY <1>1, <2>1 DEF Fresh, NewerThanSeen
<1> QED
  BY <1>4, <1>5, <1>6 DEF Fresh

LEMMA FailFresh ==
    ASSUME IInv, Fresh, NEW c \in Clients, Fail(c) \/ Answer(c)
    PROVE  Fresh'
<1>1. /\ UNCHANGED <<candles, lru, entry, seen, req>>
      /\ pc'[c] \in Resting
      /\ \A d \in Clients \ {c} : pc'[d] = pc[d] /\ loaded'[d] = loaded[d]
  BY DEF Fail, Answer, env, IInv, TypeOK, Resting
<1>2. \A d \in Clients : /\ pc'[d] = "loaded" => pc[d] = "loaded" /\ loaded'[d] = loaded[d]
                         /\ pc'[d] \in Waiting \union {"bounded"} => pc'[d] = pc[d]
  BY <1>1 DEF Resting, Waiting
<1>3. NothingNewer'
  BY <1>1, <1>2 DEF Fresh, NothingNewer
<1>4. BoundsHoldSeen'
  BY <1>1, <1>2 DEF Fresh, BoundsHoldSeen
<1>5. NewerThanSeen'
  BY <1>1, <1>2 DEF Fresh, NewerThanSeen
<1> QED
  BY <1>3, <1>4, <1>5 DEF Fresh
\* What holds when a request leaves the locked section with entry e: e is the
\* newest version of its key that anybody has seen, and nobody else loads it.
Newest(c, e) ==
    /\ e \in Entries /\ DOMAIN e.version = req[c].bounds
    /\ Covers(candles, e.version)
    /\ \A b \in Clients : seen[b][req[c].key] # None => Newer(e.version, seen[b][req[c].key])
    /\ \A d \in Clients \ {c} : pc[d] = "loaded" => req[d].key # req[c].key

LEMMA OwnCell ==
    ASSUME IInv, LruSound, InLru, NEW c \in Clients, pc[c] \in Waiting
    PROVE  \E x \in Range(lru) :
              /\ x.key = req[c].key /\ x.slot = slotOf[c]
              /\ \A y \in Range(lru) : y.key = req[c].key \/ y.slot = slotOf[c] => y = x
<1> DEFINE x == [key |-> req[c].key, slot |-> slotOf[c]]
<1>1. x \in Range(lru) /\ x.key = req[c].key /\ x.slot = slotOf[c]
  BY DEF InLru
<1> HIDE DEF x
<1>2. \A y \in Range(lru) : y.key = x.key \/ y.slot = x.slot => y = x
  BY <1>1, DistinctCells
<1> QED
  BY <1>1, <1>2

LEMMA ServeNewest ==
    ASSUME IInv, LruSound, InLru, Fresh, NEW c \in Clients, ServeCached(c)
    PROVE  Newest(c, entry[slotOf[c]])
<1> DEFINE e == entry[slotOf[c]]
<1>1. pc[c] \in Waiting /\ lock[slotOf[c]] = None /\ e # None /\ DOMAIN e.version = req[c].bounds
  BY DEF ServeCached, Valid, Waiting
<1>2. slotOf[c] \in Slots /\ req[c].key \in Keys /\ e \in Entries
  BY <1>1, Contents
<1>3. Covers(candles, e.version)
  BY <1>1, <1>2 DEF Fresh, NothingNewer
<1>4. PICK x \in Range(lru) : x.key = req[c].key /\ x.slot = slotOf[c]
  BY <1>1, OwnCell
<1>5. \A b \in Clients : seen[b][req[c].key] # None => Newer(e.version, seen[b][req[c].key])
  BY <1>1, <1>2, <1>4 DEF Fresh, NewerThanSeen
<1>6. ASSUME NEW d \in Clients \ {c}, pc[d] = "loaded", req[d].key = req[c].key
      PROVE  FALSE
  <2>1. pc[d] \in Waiting /\ Refreshing(d)
    BY <1>6 DEF Waiting, Refreshing
  <2>2. slotOf[d] = slotOf[c]
    BY <1>1, <1>6, <2>1, OneSlotPerKey
  <2>3. LockedByRefresher
    BY DEF IInv
  <2>4. lock[slotOf[c]] = d
    BY <1>2, <2>1, <2>2, <2>3, Zenon DEF LockedByRefresher
  <2> QED
    BY <1>1, <2>4, ConstantsAssumption
<1> QED
  BY <1>1, <1>2, <1>3, <1>5, <1>6 DEF Newest

LEMMA StoreNewest ==
    ASSUME IInv, LruSound, InLru, Fresh, NEW c \in Clients, Store(c)
    PROVE  Newest(c, [version |-> loaded[c], loadedAt |-> clock])
<1> DEFINE e == [version |-> loaded[c], loadedAt |-> clock]
<1>1. pc[c] = "loaded" /\ pc[c] \in Waiting /\ Refreshing(c)
  BY DEF Store, Waiting, Refreshing
<1>2. loaded[c] \in Versions /\ DOMAIN loaded[c] = req[c].bounds /\ req[c].key \in Keys
  BY <1>1, Contents
<1>3. e \in Entries
  BY <1>2 DEF Entries, IInv, TypeOK
<1>4. Covers(candles, loaded[c])
  BY <1>1 DEF Fresh, NothingNewer
<1>5. \A b \in Clients : seen[b][req[c].key] # None => Newer(loaded[c], seen[b][req[c].key])
  BY <1>1, <1>2 DEF Fresh, NewerThanSeen
<1>6. ASSUME NEW d \in Clients \ {c}, pc[d] = "loaded" PROVE req[d].key # req[c].key
  <2>1. Refreshing(d)
    BY <1>6 DEF Refreshing
  <2> QED
    BY <1>1, <2>1, InLruGivesSingleFlight DEF SingleFlight
<1>7. e.version = loaded[c]
  OBVIOUS
<1> HIDE DEF e
<1>8. Newest(c, e)
  BY <1>2, <1>3, <1>4, <1>5, <1>6, <1>7 DEF Newest
<1> QED
  BY <1>8 DEF e

LEMMA LeaveFresh ==
    ASSUME IInv, LruSound, InLru, Fresh, NEW c \in Clients, pc[c] \in Waiting,
           NEW e, Newest(c, e), Leave(c, e), UNCHANGED <<env, lru, req>>,
           entry' = [entry EXCEPT ![slotOf[c]] = e]
    PROVE  Fresh'
<1> DEFINE key == req[c].key
<1>1. slotOf[c] \in Slots /\ key \in Keys /\ e.version \in Versions
  BY Contents DEF Newest, Entries
<1>2. /\ pc'[c] \in Resting \union {"paging"}
      /\ \A d \in Clients \ {c} : pc'[d] = pc[d] /\ loaded'[d] = loaded[d]
  BY DEF Leave, IInv, TypeOK, Resting
<1>3. \A d \in Clients : pc'[d] \in Waiting \union {"bounded"} => d # c
  BY <1>2 DEF Waiting, Resting
<1>4. /\ entry'[slotOf[c]] = e
      /\ \A s \in Slots : s # slotOf[c] => entry'[s] = entry[s]
  BY <1>1 DEF IInv, TypeOK
<1>5. \A b \in Clients, k \in Keys :
         \/ seen'[b][k] = seen[b][k]
         \/ b = c /\ k = key /\ seen'[b][k] = e.version
  <2>1. seen \in [Clients -> [Keys -> Versions \union {None}]]
    BY DEF IInv, TypeOK
  <2>2. seen' = seen \/ seen' = [seen EXCEPT ![c][key] = e.version]
    BY DEF Leave
  <2> QED
    BY <1>1, <2>1, <2>2
<1>6. \A b \in Clients, k \in Keys : seen'[b][k] # None => Covers(candles, seen'[b][k])
  BY <1>5 DEF Fresh, NothingNewer, Newest
<1>7. \A b \in Clients : seen'[b][key] # None => Newer(e.version, seen'[b][key])
  BY <1>1, <1>5, NewerSelf DEF Newest
<1>8. \A b \in Clients, k \in Keys : k # key => seen'[b][k] = seen[b][k]
  BY <1>5
<1>9. \A d \in Clients : pc'[d] = "loaded" =>
         d # c /\ pc[d] = "loaded" /\ loaded'[d] = loaded[d] /\ req[d].key # key
  BY <1>2, <1>3 DEF Newest, Waiting
<1>10. candles' = candles /\ req' = req /\ lru' = lru
  BY DEF env
<1>11. NothingNewer'
  <2>1. \A s \in Slots : entry'[s] # None => Covers(candles, entry'[s].version)
    BY <1>4 DEF Fresh, NothingNewer, Newest
  <2>2. \A d \in Clients : pc'[d] = "loaded" => Covers(candles, loaded'[d])
    BY <1>9 DEF Fresh, NothingNewer
  <2> QED
    BY <1>6, <1>10, <2>1, <2>2 DEF NothingNewer
<1>12. BoundsHoldSeen'
  <2>1. ASSUME NEW d \in Clients, pc'[d] \in Waiting \union {"bounded"}
        PROVE  pc[d] = pc'[d] /\ seen'[d][req[d].key] = seen[d][req[d].key]
    <3>1. d # c /\ pc[d] = pc'[d]
      BY <1>2, <1>3, <2>1
    <3>2. req[d].key \in Keys
      BY <2>1, <3>1, Contents
    <3> QED
      BY <1>5, <3>1, <3>2
  <2> QED
    BY <1>10, <2>1 DEF Fresh, BoundsHoldSeen
<1>13. NewerThanSeen'
  <2>1. ASSUME NEW b \in Clients, NEW k \in Keys, seen'[b][k] # None,
               NEW x \in Range(lru), x.key = k, entry'[x.slot] # None
        PROVE  Newer(entry'[x.slot].version, seen'[b][k])
    <3>1. PICK own \in Range(lru) :
             /\ own.key = key /\ own.slot = slotOf[c]
             /\ \A y \in Range(lru) : y.key = key \/ y.slot = slotOf[c] => y = own
      BY OwnCell
    <3>2. CASE k = key
      BY <1>4, <1>7, <2>1, <3>1, <3>2
    <3>3. CASE k # key
      <4>1. x.slot # slotOf[c] /\ x.slot \in Slots
        BY <2>1, <3>1, <3>3, DistinctCells DEF Cells
      <4>2. entry'[x.slot] = entry[x.slot] /\ seen'[b][k] = seen[b][k]
        BY <1>4, <1>8, <3>3, <4>1
      <4> QED
        BY <2>1, <4>2 DEF Fresh, NewerThanSeen
    <3> QED
      BY <3>2, <3>3
  <2>2. ASSUME NEW b \in Clients, NEW k \in Keys, seen'[b][k] # None,
               NEW d \in Clients, pc'[d] = "loaded", req[d].key = k
        PROVE  Newer(loaded'[d], seen'[b][k])
    <3>1. k # key /\ pc[d] = "loaded" /\ loaded'[d] = loaded[d]
      BY <1>9, <2>2
    <3>2. seen'[b][k] = seen[b][k]
      BY <1>8, <3>1
    <3> QED
      BY <2>2, <3>1, <3>2 DEF Fresh, NewerThanSeen
  <2> QED
    BY <1>10, <2>1, <2>2 DEF NewerThanSeen
<1> QED
  BY <1>11, <1>12, <1>13 DEF Fresh

LEMMA FreshStep ==
    ASSUME KeysFit, IInv, LruSound, InLru, Fresh, [Next]_vars
    PROVE  Fresh'
<1>1. CASE Market
  BY <1>1, MarketFresh
<1>2. CASE UNCHANGED vars
  BY <1>2 DEF vars, env, requests, Fresh, NothingNewer, BoundsHoldSeen, NewerThanSeen
<1>3. ASSUME NEW c \in Clients, Ask(c) PROVE Fresh'
  BY <1>3, AskFresh
<1>4. ASSUME NEW c \in Clients, Handle(c) PROVE Fresh'
  <2>1. CASE ServeCached(c)
    <3>1. /\ pc[c] \in Waiting /\ Leave(c, entry[slotOf[c]])
          /\ UNCHANGED <<env, lru, req>> /\ entry' = entry
      BY <2>1 DEF ServeCached, Waiting
    <3>2. entry' = [entry EXCEPT ![slotOf[c]] = entry[slotOf[c]]]
      BY <3>1 DEF IInv, TypeOK
    <3> QED
      BY <2>1, <3>1, <3>2, ServeNewest, LeaveFresh
  <2>2. CASE Store(c)
    <3> DEFINE e == [version |-> loaded[c], loadedAt |-> clock]
    <3>1. /\ pc[c] \in Waiting /\ Leave(c, e)
          /\ UNCHANGED <<env, lru, req>> /\ entry' = [entry EXCEPT ![slotOf[c]] = e]
      BY <2>2 DEF Store, Waiting
    <3>2. Newest(c, e)
      BY <2>2, StoreNewest
    <3> HIDE DEF e
    <3> QED
      BY <3>1, <3>2, LeaveFresh
  <2>3. CASE FindSlot(c) \/ NewSlot(c)
    BY <2>3, SlotFresh
  <2>4. CASE StartRefresh(c) \/ LoadRange(c)
    BY <2>4, LoadFresh
  <2>5. CASE BoundsFail(c) \/ RefreshFail(c) \/ Answer(c)
    BY <2>5, FailFresh DEF BoundsFail, RefreshFail
  <2> QED
    BY <1>4, <2>1, <2>2, <2>3, <2>4, <2>5 DEF Handle
<1> QED
  BY <1>1, <1>2, <1>3, <1>4 DEF Next

LEMMA VersionInvariant ==
    ASSUME KeysFit
    PROVE  Spec => []VersionInv
<1>1. Init => LruSound /\ Sessions /\ InLru /\ Fresh
  <2>1. Init => Sessions
    BY InitSessions
  <2>2. Init => LruSound /\ InLru
    BY ConstantsAssumption DEF Init, LruSound, InLru, Waiting
  <2>3. Init => Fresh
    BY ConstantsAssumption DEF Init, Fresh, NothingNewer, BoundsHoldSeen, NewerThanSeen, Waiting
  <2> QED
    BY <2>1, <2>2, <2>3
<1>2. VersionInv /\ [Next]_vars => VersionInv'
  BY NextInv, LruStep, SessionsStep, InLruStep, FreshStep DEF VersionInv, SessionInv
<1> QED
  BY <1>1, <1>2, InitInv, PTL DEF Spec, VersionInv, SessionInv
-----------------------------------------------------------------------------
(* What the versions mean for the callers.                                 *)

\* A version leaves the engine only on a request's way out of the locked
\* section.
LEMMA OnlyLeavesAnswer ==
    ASSUME IInv, LruSound, InLru, Fresh, [Next]_vars
    PROVE  \/ /\ UNCHANGED seen
              /\ \A c \in Clients : pc'[c] = "conflict" => pc[c] = "conflict"
           \/ \E c \in Clients, e \in Entries :
                 /\ pc[c] \in Waiting /\ Newest(c, e) /\ Leave(c, e)
<1>1. CASE Market \/ UNCHANGED vars
  BY <1>1 DEF Market, Commit, Backfill, Repair, Tick, vars, requests
<1>2. ASSUME NEW c \in Clients, Ask(c)
      PROVE  UNCHANGED seen /\ \A d \in Clients : pc'[d] = "conflict" => pc[d] = "conflict"
  BY <1>2 DEF Ask, AskFirstPage, AskNextPage, Open, IInv, TypeOK
<1>3. ASSUME NEW c \in Clients, Handle(c)
      PROVE  \/ UNCHANGED seen /\ \A d \in Clients : pc'[d] = "conflict" => pc[d] = "conflict"
             \/ \E e \in Entries : pc[c] \in Waiting /\ Newest(c, e) /\ Leave(c, e)
  <2>1. CASE ServeCached(c)
    <3>1. Newest(c, entry[slotOf[c]]) /\ pc[c] \in Waiting /\ Leave(c, entry[slotOf[c]])
      BY <2>1, ServeNewest DEF ServeCached, Waiting
    <3>2. entry[slotOf[c]] \in Entries
      BY <3>1 DEF Newest
    <3> QED
      BY <3>1, <3>2
  <2>2. CASE Store(c)
    <3> DEFINE e == [version |-> loaded[c], loadedAt |-> clock]
    <3>1. Newest(c, e) /\ pc[c] \in Waiting /\ Leave(c, e)
      BY <2>2, StoreNewest DEF Store, Waiting
    <3> HIDE DEF e
    <3>2. e \in Entries
      BY <3>1 DEF Newest
    <3> QED
      BY <3>1, <3>2
  <2>3. CASE FindSlot(c) \/ NewSlot(c) \/ StartRefresh(c) \/ LoadRange(c)
    BY <2>3 DEF FindSlot, NewSlot, Use, StartRefresh, LoadRange, IInv, TypeOK
  <2>4. CASE BoundsFail(c) \/ RefreshFail(c) \/ Answer(c)
    BY <2>4 DEF BoundsFail, RefreshFail, Fail, Answer, IInv, TypeOK
  <2> QED
    BY <1>3, <2>1, <2>2, <2>3, <2>4 DEF Handle
<1> QED
  BY <1>1, <1>2, <1>3 DEF Next

LEMMA ReadsStep ==
    ASSUME VersionInv, [Next]_vars
    PROVE  \A c \in Clients, k \in Keys :
              seen[c][k] # None => Covers(seen'[c][k], seen[c][k])
<1> USE DEF VersionInv, SessionInv
<1>1. SUFFICES ASSUME NEW b \in Clients, NEW k \in Keys, seen[b][k] # None
               PROVE  Covers(seen'[b][k], seen[b][k])
  OBVIOUS
<1>2. seen[b][k] \in Versions
  BY <1>1, Contents
<1>3. CASE seen'[b][k] = seen[b][k]
  BY <1>2, <1>3, VersionValues DEF Covers
<1>4. ASSUME NEW c \in Clients, NEW e \in Entries,
             pc[c] \in Waiting, Newest(c, e), Leave(c, e), seen'[b][k] # seen[b][k]
      PROVE  Covers(seen'[b][k], seen[b][k])
  <2>1. b = c /\ k = req[c].key /\ seen'[b][k] = e.version
    <3>1. seen \in [Clients -> [Keys -> Versions \union {None}]] /\ req[c].key \in Keys
      BY <1>4, Contents DEF IInv, TypeOK
    <3>2. seen' = seen \/ seen' = [seen EXCEPT ![c][req[c].key] = e.version]
      BY <1>4 DEF Leave
    <3> QED
      BY <1>4, <3>1, <3>2
  <2>2. DOMAIN seen[b][k] \subseteq DOMAIN e.version
    BY <1>1, <1>4, <2>1 DEF Fresh, BoundsHoldSeen, Newest
  <2>3. Newer(e.version, seen[b][k])
    BY <1>1, <1>4, <2>1 DEF Newest
  <2> QED
    BY <2>1, <2>2, <2>3 DEF Covers, Newer
<1> QED
  BY <1>3, <1>4, OnlyLeavesAnswer

\* While the keys in use fit in the LRU, a caller never sees a key's market
\* data go back, whichever of several requests stored the entry it is served
\* from.
THEOREM ReadsAreMonotonic ==
    ASSUME KeysFit
    PROVE  Spec => MonotonicReads
<1>1. VersionInv /\ [Next]_vars =>
        [\A c \in Clients, k \in Keys :
             seen[c][k] # None => Covers(seen'[c][k], seen[c][k])]_seen
  BY ReadsStep
<1> QED
  BY <1>1, VersionInvariant, PTL DEF Spec, MonotonicReads

LEMMA ConflictStep ==
    ASSUME VersionInv, [Next]_vars
    PROVE  \A c \in Clients : pc[c] # "conflict" /\ pc'[c] = "conflict" =>
              req[c].pin # Restrict(candles, req[c].bounds)
<1> USE DEF VersionInv, SessionInv
<1> SUFFICES ASSUME NEW b \in Clients, pc[b] # "conflict", pc'[b] = "conflict",
                    req[b].pin = Restrict(candles, req[b].bounds)
             PROVE  FALSE
  OBVIOUS
<1>1. PICK c \in Clients, e \in Entries :
         pc[c] \in Waiting /\ Newest(c, e) /\ Leave(c, e)
  BY OnlyLeavesAnswer
<1>2. b = c /\ Conflict(e, req[b])
  BY <1>1 DEF Leave, IInv, TypeOK
<1> DEFINE w == seen[b][req[b].key]
           v == e.version
<1>3. v \in Versions /\ candles \in Versions /\ req[b].key \in Keys
  BY <1>1, <1>2, Contents DEF Entries
<1>4. req[b].pin # None /\ req[b].pin # v
  BY <1>2 DEF Conflict
<1>5. w = req[b].pin
  <2>1. SessionOK(b) /\ pc[b] \in Active
    BY <1>1, <1>2 DEF Sessions, Waiting, Active
  <2>2. Asks(b)
    BY <2>1 DEF SessionOK
  <2>3. session[b].answers # <<>>
    BY <1>4, <2>2 DEF Asks
  <2> QED
    BY <2>1, <2>2, <2>3 DEF SessionOK, Asks
<1>6. w \in Versions /\ Newer(v, w)
  BY <1>1, <1>2, <1>3, <1>4, <1>5, Contents DEF Newest
<1>7. Covers(candles, v) /\ w = Restrict(candles, DOMAIN v)
  BY <1>1, <1>2, <1>5 DEF Newest
<1> HIDE DEF v, w
<1>8. v = w
  BY <1>3, <1>6, <1>7, SameVersion
<1> QED
  BY <1>4, <1>5, <1>8

\* While the keys in use fit in the LRU, market_data_version_changed tells the
\* truth: a caller gets a 409 only if the candles of its pinned range, or its
\* bounds, did change since the pinned page.
THEOREM ConflictsAreGenuine ==
    ASSUME KeysFit
    PROVE  Spec => NoSpuriousConflict
<1>1. VersionInv /\ [Next]_vars =>
        [\A c \in Clients : pc[c] # "conflict" /\ pc'[c] = "conflict" =>
             req[c].pin # Restrict(candles, req[c].bounds)]_pc
  BY ConflictStep
<1> QED
  BY <1>1, VersionInvariant, PTL DEF Spec, NoSpuriousConflict
==============================================================================
