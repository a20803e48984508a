------------------------ MODULE OrderSubmissionProofs ------------------------
(***************************************************************************)
(* Proofs about SymbolRules and OrderSubmission, for any tasks, orders,    *)
(* rules, policies and answers of the exchange: the rules an order is      *)
(* checked by do not go back and loads are shared, an order is placed no   *)
(* more often than its attempts, and but for the rash ones once, where a   *)
(* refusal also means that nothing was placed, the promise of OrderOutcome *)
(* is kept, and to the cache of symbol rules creating an order is a call   *)
(* as any other.  The lemmas on symbol_info are one per action, so that    *)
(* they serve SymbolRules alone and the whole of a submission.             *)
(***************************************************************************)
EXTENDS OrderSubmission, TLAPS

-----------------------------------------------------------------------------
(* The invariant of symbol_info. *)

Inside == {"waiting", "asking", "answered"}

\* Where a caller of symbol_info may be afterwards.
Outside == {"idle", "given", "raised", "checking", "ready", "posting", "pausing"}

WithRules == {"given", "checking", "ready"}

RulesPlaces ==
    /\ pc \in [Task -> Inside \cup Outside]
    /\ after \in [Task -> {"idle", "given", "checking"}]

\* The cache holds the newest rules that were given, or none.
CacheIsNewest(s) ==
    /\ newest[s] <= published[s]
    /\ cache[s] \in {NoRules, newest[s]}

\* A call that fetches holds the lock, and its answer is not older than what
\* was given before; rules in hand are not older than the call may be given.
CallIsOrdered(t) ==
    /\ pc[t] \in Inside => after[t] # "idle"
    /\ Fetching(t) => holder[asks[t]] = t
    /\ pc[t] = "waiting" =>
          floor[t] <= IF refresh[t] THEN published[asks[t]] ELSE newest[asks[t]]
    /\ pc[t] = "asking" => floor[t] <= published[asks[t]]
    /\ pc[t] = "answered" => /\ newest[asks[t]] <= got[t]
                             /\ got[t] <= published[asks[t]]
                             /\ got[t] # NoRules
    /\ got[t] # NoRules => /\ pc[t] \in {"answered"} \cup WithRules
                           /\ floor[t] <= got[t]

\* One more load is to be had when nothing is cached and nobody loads.
LoadIsAllowed(s) ==
    /\ spare[s] >= 0
    /\ cache[s] = NoRules /\ (\A t \in Task : Fetching(t) /\ asks[t] = s => refresh[t])
          => spare[s] >= 1

RulesInv ==
    /\ RulesTypeOK
    /\ RulesPlaces
    /\ \A s \in Symbol : CacheIsNewest(s) /\ LoadIsAllowed(s)
    /\ \A t \in Task : CallIsOrdered(t)

USE RulesAssumption DEF NoRules, Version, Inside, Outside, WithRules, Fetching

-----------------------------------------------------------------------------
(* What a step of one task leaves of the others. *)

\* A call that is not touched keeps its place when published and newest only
\* grow, and the newest rules of what it fetches stay.
LEMMA CallIsKept ==
    ASSUME RulesInv, NEW u \in Task,
           pc'[u] = pc[u], asks'[u] = asks[u], refresh'[u] = refresh[u],
           after'[u] = after[u], got'[u] = got[u], floor'[u] = floor[u],
           RulesTypeOK',
           published'[asks[u]] >= published[asks[u]],
           newest'[asks[u]] >= newest[asks[u]],
           Fetching(u) => holder'[asks[u]] = holder[asks[u]],
           pc[u] = "answered" => newest'[asks[u]] = newest[asks[u]]
    PROVE  CallIsOrdered(u)'
<1>1. /\ CallIsOrdered(u)
      /\ asks[u] \in Symbol
      /\ published[asks[u]] \in Int /\ published'[asks[u]] \in Int
      /\ newest[asks[u]] \in Int /\ newest'[asks[u]] \in Int
      /\ got[u] \in Int /\ floor[u] \in Int
  BY DEF RulesInv, RulesTypeOK
<1> QED
  BY <1>1 DEF CallIsOrdered

\* Two calls do not fetch the rules of one symbol.
LEMMA FetchIsExclusive ==
    ASSUME RulesInv, NEW t \in Task, NEW u \in Task, Fetching(t), Fetching(u),
           asks[t] = asks[u]
    PROVE  t = u
BY DEF RulesInv, CallIsOrdered

\* Nobody fetches the rules of a symbol whose lock is free.
LEMMA FreeIsNotFetched ==
    ASSUME RulesInv, NEW u \in Task, Fetching(u)
    PROVE  ~Free(asks[u])
BY DEF RulesInv, CallIsOrdered, Free

-----------------------------------------------------------------------------
(* The exchange and the application. *)

LEMMA PublishKeeps ==
    ASSUME RulesInv, NEW s \in Symbol, Publish(s)
    PROVE  RulesInv'
<1>1. RulesTypeOK' /\ RulesPlaces'
  BY DEF Publish, RulesInv, RulesTypeOK, RulesPlaces, call, history
<1>2. ASSUME NEW q \in Symbol PROVE CacheIsNewest(q)' /\ LoadIsAllowed(q)'
  BY DEF Publish, RulesInv, RulesTypeOK, CacheIsNewest, LoadIsAllowed, call, history
<1>3. ASSUME NEW u \in Task PROVE CallIsOrdered(u)'
  <2>1. published'[asks[u]] >= published[asks[u]] /\ newest'[asks[u]] >= newest[asks[u]]
    BY DEF Publish, RulesInv, RulesTypeOK, history
  <2> QED
    BY <1>1, <2>1, CallIsKept DEF Publish, call, history
<1> QED
  BY <1>1, <1>2, <1>3 DEF RulesInv

LEMMA ClearKeeps ==
    ASSUME RulesInv, NEW S \in SUBSET Symbol, Clear(S)
    PROVE  RulesInv'
<1>1. RulesTypeOK' /\ RulesPlaces'
  BY DEF Clear, RulesInv, RulesTypeOK, RulesPlaces, call
<1>2. ASSUME NEW q \in Symbol PROVE CacheIsNewest(q)' /\ LoadIsAllowed(q)'
  BY DEF Clear, RulesInv, RulesTypeOK, CacheIsNewest, LoadIsAllowed, call
<1>3. ASSUME NEW u \in Task PROVE CallIsOrdered(u)'
  <2>1. published'[asks[u]] >= published[asks[u]] /\ newest'[asks[u]] >= newest[asks[u]]
    BY DEF Clear, RulesInv, RulesTypeOK
  <2> QED
    BY <1>1, <2>1, CallIsKept DEF Clear, call
<1> QED
  BY <1>1, <1>2, <1>3 DEF RulesInv

-----------------------------------------------------------------------------
(* A call, from its beginning to its lock. *)

\* Only the call of task t is another one, for symbol s.
NewCall(t, s) ==
    /\ asks' \in [Task -> Symbol] /\ asks'[t] = s
    /\ refresh' \in [Task -> BOOLEAN]
    /\ after' \in [Task -> {"idle", "given", "checking"}] /\ after'[t] # "idle"
    /\ floor' \in [Task -> Version \cup {NoRules}]
    /\ floor'[t] <= IF refresh'[t] THEN published[s] ELSE newest[s]
    /\ \A u \in Task \ {t} : /\ asks'[u] = asks[u] /\ refresh'[u] = refresh[u]
                             /\ after'[u] = after[u] /\ floor'[u] = floor[u]
    /\ UNCHANGED <<published, cache>>

\* The rules were cached.
LEMMA CachedKeeps ==
    ASSUME RulesInv, NEW t \in Task, NEW s \in Symbol, ~Fetching(t), NewCall(t, s),
           ~refresh'[t], cache[s] # NoRules, Give(t, s, cache[s]),
           UNCHANGED <<holder, spare>>
    PROVE  RulesInv'
<1>1. /\ cache[s] = newest[s]
      /\ newest' = newest
      /\ newest[s] \in Version
  BY DEF RulesInv, RulesTypeOK, CacheIsNewest, Give
<1>2. RulesTypeOK'
  BY <1>1 DEF RulesInv, RulesTypeOK, NewCall, Give
<1>3. RulesPlaces'
  BY DEF RulesInv, RulesPlaces, NewCall, Give
<1>4. pc'[t] \in {"given", "checking"} /\ got'[t] = newest[s]
  BY <1>1 DEF RulesInv, RulesTypeOK, RulesPlaces, NewCall, Give
<1>5. \A u \in Task \ {t} : pc'[u] = pc[u] /\ got'[u] = got[u]
  BY DEF RulesInv, RulesTypeOK, RulesPlaces, Give
<1>6. ASSUME NEW q \in Symbol PROVE CacheIsNewest(q)' /\ LoadIsAllowed(q)'
  <2>1. CacheIsNewest(q)'
    BY <1>1 DEF RulesInv, CacheIsNewest, NewCall
  <2>2. \A u \in Task : Fetching(u) => Fetching(u)' /\ asks'[u] = asks[u] /\ refresh'[u] = refresh[u]
    BY <1>5 DEF NewCall
  <2>3. LoadIsAllowed(q)'
    BY <2>2 DEF RulesInv, LoadIsAllowed, NewCall
  <2> QED
    BY <2>1, <2>3
<1>7. CallIsOrdered(t)'
  <2>1. floor'[t] <= got'[t] /\ got'[t] # NoRules
    BY <1>1, <1>4 DEF NewCall
  <2> QED
    BY <1>4, <2>1 DEF CallIsOrdered
<1>8. ASSUME NEW u \in Task \ {t} PROVE CallIsOrdered(u)'
  <2>1. published'[asks[u]] >= published[asks[u]] /\ newest'[asks[u]] >= newest[asks[u]]
    BY <1>1 DEF NewCall, RulesInv, RulesTypeOK
  <2> QED
    BY <1>1, <1>2, <1>5, <2>1, CallIsKept DEF NewCall
<1> QED
  BY <1>2, <1>3, <1>6, <1>7, <1>8 DEF RulesInv

\* The lock is taken and the request is made.
LEMMA LoadKeeps ==
    ASSUME RulesInv, NEW t \in Task, NEW s \in Symbol, ~Fetching(t), NewCall(t, s),
           got[t] = NoRules, Free(s), refresh'[t] \/ cache[s] = NoRules,
           pc' = [pc EXCEPT ![t] = "asking"],
           holder' = [holder EXCEPT ![s] = t],
           spare' = IF refresh'[t] THEN spare ELSE [spare EXCEPT ![s] = @ - 1],
           UNCHANGED <<got, newest>>
    PROVE  RulesInv'
<1>1. RulesTypeOK'
  BY DEF RulesInv, RulesTypeOK, NewCall
<1>2. RulesPlaces'
  BY DEF RulesInv, RulesPlaces, NewCall
<1>3. pc'[t] = "asking" /\ \A u \in Task \ {t} : pc'[u] = pc[u]
  BY DEF RulesInv, RulesPlaces
<1>4. \A u \in Task : Fetching(u) => u # t /\ asks[u] # s
  BY FreeIsNotFetched
<1>5. ASSUME NEW q \in Symbol PROVE CacheIsNewest(q)' /\ LoadIsAllowed(q)'
  <2>1. CacheIsNewest(q)'
    BY DEF RulesInv, CacheIsNewest, NewCall
  <2>2. spare[q] \in Int /\ spare'[q] \in Int
    BY <1>1 DEF RulesInv, RulesTypeOK
  <2>3. \A u \in Task : Fetching(u) => Fetching(u)' /\ asks'[u] = asks[u] /\ refresh'[u] = refresh[u]
    BY <1>3, <1>4 DEF NewCall
  <2>4. CASE q = s /\ ~refresh'[t]
    <3>1. \A u \in Task : ~(Fetching(u) /\ asks[u] = s)
      BY <1>4
    <3>2. spare[s] >= 1
      BY <2>4, <3>1 DEF RulesInv, LoadIsAllowed
    <3>3. spare'[s] = spare[s] - 1
      BY <2>4 DEF RulesInv, RulesTypeOK
    <3>4. Fetching(t)' /\ asks'[t] = s /\ ~refresh'[t]
      BY <1>3, <2>4 DEF NewCall
    <3> QED
      BY <2>1, <2>2, <2>4, <3>2, <3>3, <3>4 DEF LoadIsAllowed
  <2>5. CASE q # s \/ refresh'[t]
    <3>1. spare'[q] = spare[q]
      BY <2>5 DEF RulesInv, RulesTypeOK
    <3>2. cache'[q] = cache[q]
      BY DEF NewCall
    <3> QED
      BY <2>1, <2>3, <3>1, <3>2 DEF RulesInv, LoadIsAllowed
  <2> QED
    BY <2>4, <2>5
<1>6. CallIsOrdered(t)'
  <2>1. holder'[s] = t /\ asks'[t] = s /\ after'[t] # "idle"
    BY DEF RulesInv, RulesTypeOK, NewCall
  <2>2. floor'[t] <= published'[s]
    <3>1. /\ floor'[t] \in Int /\ published[s] \in Int /\ newest[s] \in Int
          /\ newest[s] <= published[s]
          /\ published' = published
      BY <1>1 DEF RulesInv, RulesTypeOK, CacheIsNewest, NewCall
    <3> QED
      BY <3>1 DEF NewCall
  <2> QED
    BY <1>3, <2>1, <2>2 DEF CallIsOrdered
<1>7. ASSUME NEW u \in Task \ {t} PROVE CallIsOrdered(u)'
  <2>1. published'[asks[u]] >= published[asks[u]] /\ newest'[asks[u]] >= newest[asks[u]]
    BY DEF NewCall, RulesInv, RulesTypeOK
  <2>2. Fetching(u) => holder'[asks[u]] = holder[asks[u]]
    BY <1>4 DEF RulesInv, RulesTypeOK
  <2> QED
    BY <1>1, <1>3, <2>1, <2>2, CallIsKept DEF NewCall
<1> QED
  BY <1>1, <1>2, <1>5, <1>6, <1>7 DEF RulesInv

\* Another task holds the lock or queues for it.
LEMMA WaitKeeps ==
    ASSUME RulesInv, NEW t \in Task, NEW s \in Symbol, ~Fetching(t), NewCall(t, s),
           got[t] = NoRules,
           pc' = [pc EXCEPT ![t] = "waiting"],
           UNCHANGED <<holder, spare, got, newest>>
    PROVE  RulesInv'
<1>1. RulesTypeOK' /\ RulesPlaces'
  BY DEF RulesInv, RulesTypeOK, RulesPlaces, NewCall
<1>2. pc'[t] = "waiting" /\ \A u \in Task \ {t} : pc'[u] = pc[u]
  BY DEF RulesInv, RulesPlaces
<1>3. ASSUME NEW q \in Symbol PROVE CacheIsNewest(q)' /\ LoadIsAllowed(q)'
  <2>1. \A u \in Task : Fetching(u) => Fetching(u)' /\ asks'[u] = asks[u] /\ refresh'[u] = refresh[u]
    BY <1>2 DEF NewCall
  <2> QED
    BY <2>1 DEF RulesInv, CacheIsNewest, LoadIsAllowed, NewCall
<1>4. CallIsOrdered(t)'
  BY <1>2 DEF CallIsOrdered, NewCall
<1>5. ASSUME NEW u \in Task \ {t} PROVE CallIsOrdered(u)'
  <2>1. published'[asks[u]] >= published[asks[u]] /\ newest'[asks[u]] >= newest[asks[u]]
    BY DEF NewCall, RulesInv, RulesTypeOK
  <2> QED
    BY <1>1, <1>2, <2>1, CallIsKept DEF NewCall
<1> QED
  BY <1>1, <1>3, <1>4, <1>5 DEF RulesInv

\* With the lock in hand, cached rules or a request.
LEMMA LockedKeeps ==
    ASSUME RulesInv, NEW t \in Task, NEW s \in Symbol, ~Fetching(t), NewCall(t, s),
           got[t] = NoRules, Locked(t, s),
           refresh'[t] \/ cache[s] = NoRules => Free(s)
    PROVE  RulesInv'
<1>1. CASE /\ ~refresh'[t] /\ cache[s] # NoRules
           /\ Give(t, s, cache[s])
           /\ UNCHANGED <<holder, spare>>
  BY <1>1, CachedKeeps
<1>2. CASE /\ refresh'[t] \/ cache[s] = NoRules
           /\ pc' = [pc EXCEPT ![t] = "asking"]
           /\ holder' = [holder EXCEPT ![s] = t]
           /\ spare' = IF refresh'[t] THEN spare ELSE [spare EXCEPT ![s] = @ - 1]
           /\ UNCHANGED <<got, newest>>
  BY <1>2, LoadKeeps
<1> QED
  BY <1>1, <1>2 DEF Locked

LEMMA AskKeeps ==
    ASSUME RulesInv, NEW t \in Task, NEW s \in Symbol, NEW again \in BOOLEAN,
           NEW where \in {"given", "checking"},
           pc[t] \notin Inside \cup WithRules, Ask(t, s, again, where)
    PROVE  RulesInv'
<1>1. got[t] = NoRules /\ ~Fetching(t)
  BY DEF RulesInv, CallIsOrdered
<1>2. NewCall(t, s) /\ refresh'[t] = again
  <2>1. floor'[t] <= IF again THEN published[s] ELSE newest[s]
    BY DEF Ask, RulesInv, RulesTypeOK
  <2> QED
    BY <2>1 DEF Ask, NewCall, RulesInv, RulesTypeOK, RulesPlaces
<1>3. CASE /\ pc' = [pc EXCEPT ![t] = "waiting"]
           /\ UNCHANGED <<holder, spare, got, newest>>
  BY <1>1, <1>2, <1>3, WaitKeeps
<1>4. CASE /\ (~again /\ cache[s] # NoRules) \/ Free(s)
           /\ Locked(t, s)
  BY <1>1, <1>2, <1>4, LockedKeeps
<1> QED
  BY <1>3, <1>4 DEF Ask

LEMMA GrantedKeeps ==
    ASSUME RulesInv, NEW t \in Task, Granted(t)
    PROVE  RulesInv'
<1>1. CallIsOrdered(t) /\ pc[t] = "waiting" /\ asks[t] \in Symbol
  BY DEF Granted, RulesInv, RulesTypeOK
<1>2. got[t] = NoRules /\ ~Fetching(t)
  BY <1>1 DEF CallIsOrdered
<1>3. NewCall(t, asks[t])
  BY <1>1 DEF NewCall, Granted, call, CallIsOrdered, RulesInv, RulesTypeOK, RulesPlaces
<1> QED
  BY <1>1, <1>2, <1>3, LockedKeeps DEF Granted

-----------------------------------------------------------------------------
(* A call, from its answer to its end. *)

LEMMA RulesAnsweredKeeps ==
    ASSUME RulesInv, NEW t \in Task, RulesAnswered(t)
    PROVE  RulesInv'
<1>1. RulesTypeOK' /\ RulesPlaces'
  BY DEF RulesAnswered, RulesInv, RulesTypeOK, RulesPlaces, store, call, history
<1>2. /\ pc[t] = "asking" /\ pc'[t] = "answered" /\ got'[t] = published[asks[t]]
      /\ \A u \in Task \ {t} : pc'[u] = pc[u] /\ got'[u] = got[u]
      /\ UNCHANGED <<published, cache, holder, asks, refresh, after, newest, floor, spare>>
  BY DEF RulesAnswered, RulesInv, RulesTypeOK, RulesPlaces, store, call, history
<1>3. ASSUME NEW q \in Symbol PROVE CacheIsNewest(q)' /\ LoadIsAllowed(q)'
  <2>1. \A u \in Task : Fetching(u)' = Fetching(u)
    BY <1>2
  <2> QED
    BY <1>2, <2>1 DEF RulesInv, CacheIsNewest, LoadIsAllowed
<1>4. CallIsOrdered(t)'
  <2>1. /\ CallIsOrdered(t)
        /\ asks[t] \in Symbol
        /\ published[asks[t]] \in Version
        /\ CacheIsNewest(asks[t])
    BY DEF RulesInv, RulesTypeOK
  <2> QED
    BY <1>2, <2>1 DEF CallIsOrdered, CacheIsNewest
<1>5. ASSUME NEW u \in Task \ {t} PROVE CallIsOrdered(u)'
  <2>1. published'[asks[u]] >= published[asks[u]] /\ newest'[asks[u]] >= newest[asks[u]]
    BY <1>2 DEF RulesInv, RulesTypeOK
  <2> QED
    BY <1>1, <1>2, <2>1, CallIsKept
<1> QED
  BY <1>1, <1>3, <1>4, <1>5 DEF RulesInv

\* The answer is not older than what the cache holds: only the holder of the
\* lock gives newer rules than those cached.
LEMMA RulesFetchedKeeps ==
    ASSUME RulesInv, NEW t \in Task, RulesFetched(t)
    PROVE  RulesInv'
<1> DEFINE s == asks[t]
<1>1. /\ pc[t] = "answered"
      /\ s \in Symbol
      /\ CallIsOrdered(t)
      /\ got[t] \in Version
  BY DEF RulesFetched, RulesInv, RulesTypeOK, CallIsOrdered
<1>2. /\ newest[s] <= got[t] /\ got[t] <= published[s] /\ floor[t] <= got[t]
      /\ after[t] \in {"given", "checking"}
  BY <1>1 DEF CallIsOrdered, RulesInv, RulesPlaces
<1>3. /\ cache' = [cache EXCEPT ![s] = got[t]]
      /\ newest' = [newest EXCEPT ![s] = got[t]]
      /\ pc' = [pc EXCEPT ![t] = after[t]]
      /\ got' = got
      /\ Release(t)
      /\ UNCHANGED <<published, asks, refresh, after, floor, spare>>
  <2>1. newest' = [newest EXCEPT ![s] = IF got[t] > newest[s] THEN got[t] ELSE newest[s]]
    BY DEF RulesFetched, Give
  <2>2. (IF got[t] > newest[s] THEN got[t] ELSE newest[s]) = got[t]
    <3>1. newest[s] \in Int /\ got[t] \in Int
      BY <1>1 DEF RulesInv, RulesTypeOK
    <3>2. newest[s] <= got[t]
      BY <1>2
    <3> QED
      BY ONLY <3>1, <3>2
  <2>3. got' = [got EXCEPT ![t] = got[t]] /\ got \in [Task -> Version \cup {NoRules}]
    BY DEF RulesFetched, Give, RulesInv, RulesTypeOK
  <2> QED
    BY <2>1, <2>2, <2>3 DEF RulesFetched, Give, call
<1>4. RulesTypeOK'
  BY <1>1, <1>3 DEF RulesInv, RulesTypeOK, Release
<1>5. RulesPlaces'
  BY <1>2, <1>3 DEF RulesInv, RulesPlaces
<1>6. pc'[t] = after[t] /\ \A u \in Task \ {t} : pc'[u] = pc[u]
  BY <1>3 DEF RulesInv, RulesPlaces
<1>7. ASSUME NEW q \in Symbol PROVE CacheIsNewest(q)' /\ LoadIsAllowed(q)'
  <2>1. CASE q = s
    <3>1. cache'[s] = got[t] /\ newest'[s] = got[t]
      BY <1>1, <1>3 DEF RulesInv, RulesTypeOK
    <3> QED
      BY <1>1, <1>2, <1>3, <2>1, <3>1 DEF RulesInv, CacheIsNewest, LoadIsAllowed
  <2>2. CASE q # s
    <3>1. cache'[q] = cache[q] /\ newest'[q] = newest[q]
      BY <1>3, <2>2 DEF RulesInv, RulesTypeOK
    <3>2. \A u \in Task : Fetching(u) /\ asks[u] = q => Fetching(u)' /\ u # t
      BY <1>6, <2>2
    <3> QED
      BY <1>3, <3>1, <3>2 DEF RulesInv, CacheIsNewest, LoadIsAllowed
  <2> QED
    BY <2>1, <2>2
<1>8. CallIsOrdered(t)'
  BY <1>1, <1>2, <1>3, <1>6 DEF CallIsOrdered
<1>9. ASSUME NEW u \in Task \ {t} PROVE CallIsOrdered(u)'
  <2>1. published'[asks[u]] >= published[asks[u]] /\ newest'[asks[u]] >= newest[asks[u]]
    BY <1>1, <1>2, <1>3 DEF RulesInv, RulesTypeOK
  <2>2. Fetching(u) => asks[u] # s
    BY <1>1, FetchIsExclusive
  <2>3. Fetching(u) => holder'[asks[u]] = holder[asks[u]]
    BY <1>3 DEF Release, RulesInv, RulesTypeOK, CallIsOrdered
  <2>4. Fetching(u) => newest'[asks[u]] = newest[asks[u]]
    BY <1>3, <2>2 DEF RulesInv, RulesTypeOK
  <2> QED
    BY <1>3, <1>4, <1>6, <2>1, <2>3, <2>4, CallIsKept
<1> QED
  BY <1>4, <1>5, <1>7, <1>8, <1>9 DEF RulesInv

\* A caller that is done with the rules.
LEMMA LeaveKeeps ==
    ASSUME RulesInv, NEW t \in Task, NEW where \in Outside \ WithRules,
           pc[t] \notin Inside, Leave(t, where), UNCHANGED <<store, newest, spare>>
    PROVE  RulesInv'
<1>1. RulesTypeOK' /\ RulesPlaces'
  BY DEF Leave, RulesInv, RulesTypeOK, RulesPlaces, store
<1>2. /\ pc'[t] = where /\ got'[t] = NoRules
      /\ \A u \in Task \ {t} : /\ pc'[u] = pc[u] /\ got'[u] = got[u]
                               /\ refresh'[u] = refresh[u] /\ after'[u] = after[u]
                               /\ floor'[u] = floor[u]
      /\ UNCHANGED <<published, cache, holder, asks, newest, spare>>
  BY DEF Leave, RulesInv, RulesTypeOK, RulesPlaces, store
<1>3. ASSUME NEW q \in Symbol PROVE CacheIsNewest(q)' /\ LoadIsAllowed(q)'
  <2>1. \A u \in Task : Fetching(u) => Fetching(u)' /\ u # t
    BY <1>2
  <2> QED
    BY <1>2, <2>1 DEF RulesInv, CacheIsNewest, LoadIsAllowed
<1>4. CallIsOrdered(t)'
  BY <1>2 DEF CallIsOrdered
<1>5. ASSUME NEW u \in Task \ {t} PROVE CallIsOrdered(u)'
  <2>1. published'[asks[u]] >= published[asks[u]] /\ newest'[asks[u]] >= newest[asks[u]]
    BY <1>2 DEF RulesInv, RulesTypeOK
  <2> QED
    BY <1>1, <1>2, <2>1, CallIsKept
<1> QED
  BY <1>1, <1>3, <1>4, <1>5 DEF RulesInv

\* A load that fails may be made again.
LEMMA RulesFailKeeps ==
    ASSUME RulesInv, NEW t \in Task, RulesFail(t)
    PROVE  RulesInv'
<1>1. /\ pc[t] \in Inside
      /\ asks[t] \in Symbol
      /\ CallIsOrdered(t)
  BY DEF RulesFail, RulesInv, RulesTypeOK
<1>2. RulesTypeOK' /\ RulesPlaces'
  BY <1>1 DEF RulesFail, Leave, Release, RulesInv, RulesTypeOK, RulesPlaces
<1>3. /\ pc'[t] \in {"idle", "raised"} /\ got'[t] = NoRules
      /\ \A u \in Task \ {t} : /\ pc'[u] = pc[u] /\ got'[u] = got[u]
                               /\ refresh'[u] = refresh[u] /\ after'[u] = after[u]
                               /\ floor'[u] = floor[u]
      /\ UNCHANGED <<published, cache, asks, newest>>
  BY DEF RulesFail, Leave, RulesInv, RulesTypeOK, RulesPlaces
<1>4. ASSUME NEW q \in Symbol PROVE CacheIsNewest(q)' /\ LoadIsAllowed(q)'
  <2>1. CacheIsNewest(q)'
    BY <1>3 DEF RulesInv, CacheIsNewest
  <2>2. spare[q] \in Int /\ LoadIsAllowed(q)
    BY DEF RulesInv, RulesTypeOK
  <2>3. CASE Fetching(t) /\ ~refresh[t] /\ q = asks[t]
    <3>1. spare'[q] = spare[q] + 1
      BY <2>3 DEF RulesFail, RulesInv, RulesTypeOK
    <3> QED
      BY <2>1, <2>2, <3>1 DEF LoadIsAllowed
  <2>4. CASE ~(Fetching(t) /\ ~refresh[t] /\ q = asks[t])
    <3>1. spare'[q] = spare[q]
      BY <1>1, <2>4 DEF RulesFail, RulesInv, RulesTypeOK
    <3>2. \A u \in Task \ {t} : Fetching(u) => Fetching(u)'
      BY <1>3
    <3>3. \A u \in Task : Fetching(u) /\ asks[u] = q /\ ~refresh[u] => Fetching(u)' /\ u # t
      BY <2>4, <3>2
    <3> QED
      BY <1>3, <2>1, <2>2, <3>1, <3>3 DEF LoadIsAllowed
  <2> QED
    BY <2>3, <2>4
<1>5. CallIsOrdered(t)'
  BY <1>3 DEF CallIsOrdered
<1>6. ASSUME NEW u \in Task \ {t} PROVE CallIsOrdered(u)'
  <2>1. published'[asks[u]] >= published[asks[u]] /\ newest'[asks[u]] >= newest[asks[u]]
    BY <1>3 DEF RulesInv, RulesTypeOK
  <2>2. Fetching(u) => holder'[asks[u]] = holder[asks[u]]
    BY DEF RulesFail, Release, RulesInv, RulesTypeOK, CallIsOrdered
  <2> QED
    BY <1>2, <1>3, <2>1, <2>2, CallIsKept
<1> QED
  BY <1>2, <1>4, <1>5, <1>6 DEF RulesInv

-----------------------------------------------------------------------------
(* The specification. *)

LEMMA RulesInitially ==
    ASSUME Init
    PROVE  RulesInv
BY DEF Init, RulesInv, RulesTypeOK, RulesPlaces, CacheIsNewest, LoadIsAllowed, CallIsOrdered

LEMMA RulesStutters ==
    ASSUME RulesInv, UNCHANGED vars
    PROVE  RulesInv'
BY DEF RulesInv, RulesTypeOK, RulesPlaces, CacheIsNewest, LoadIsAllowed, CallIsOrdered,
       vars, store, call, history

\* A step of a call of symbol_info.
LEMMA RulesStepKeeps ==
    ASSUME RulesInv, NEW t \in Task, RulesStep(t)
    PROVE  RulesInv'
<1>1. CASE Granted(t)
  BY <1>1, GrantedKeeps
<1>2. CASE RulesAnswered(t)
  BY <1>2, RulesAnsweredKeeps
<1>3. CASE RulesFetched(t)
  BY <1>3, RulesFetchedKeeps
<1>4. CASE Used(t)
  BY <1>4, LeaveKeeps DEF Used
<1> QED
  BY <1>1, <1>2, <1>3, <1>4 DEF RulesStep

LEMMA RulesInvIsInductive ==
    ASSUME RulesInv, [Next]_vars
    PROVE  RulesInv'
<1>1. CASE \E s \in Symbol : Publish(s) \/ Clear({s})
  BY <1>1, PublishKeeps, ClearKeeps
<1>2. CASE Clear(Symbol)
  BY <1>2, ClearKeeps
<1>3. ASSUME NEW t \in Task, NEW s \in Symbol, NEW again \in BOOLEAN, SymbolInfo(t, s, again)
      PROVE  RulesInv'
  BY <1>3, AskKeeps DEF SymbolInfo
<1>4. CASE \E t \in Task : RulesStep(t) \/ RulesFail(t)
  BY <1>4, RulesStepKeeps, RulesFailKeeps
<1>5. CASE UNCHANGED vars
  BY <1>5, RulesStutters
<1> QED
  BY <1>1, <1>2, <1>3, <1>4, <1>5 DEF Next

LEMMA RulesInvAlways == Spec => []RulesInv
<1>1. Init => RulesInv
  BY RulesInitially
<1>2. RulesInv /\ [Next]_vars => RulesInv'
  BY RulesInvIsInductive
<1> QED
  BY <1>1, <1>2, PTL DEF Spec

\* What the invariant says of the properties.
LEMMA RulesInvImplies ==
    ASSUME RulesInv
    PROVE  RulesNeverRegress /\ LoadsAreShared
<1>1. ASSUME NEW t \in Task
      PROVE  CallIsOrdered(t) /\ got[t] \in Int /\ floor[t] \in Int
  <2>1. CallIsOrdered(t)
    BY DEF RulesInv
  <2>2. got[t] \in Version \cup {NoRules} /\ floor[t] \in Version \cup {NoRules}
    BY DEF RulesInv, RulesTypeOK
  <2> QED
    BY <2>1, <2>2
<1>2. \A s \in Symbol : spare[s] >= 0
  BY DEF RulesInv, LoadIsAllowed
<1> QED
  BY <1>1, <1>2 DEF CallIsOrdered, RulesNeverRegress, LoadsAreShared

(***************************************************************************)
(* Nobody who asks symbol_info for the rules of a symbol is given rules    *)
(* older than any that were given before, or, with refresh=True, than      *)
(* those in force when it asked.                                           *)
(***************************************************************************)
THEOREM RulesAreMonotone == Spec => []RulesNeverRegress
BY RulesInvAlways, RulesInvImplies, PTL

(***************************************************************************)
(* However many tasks ask for a symbol at once, its rules are loaded once, *)
(* and again only after a clear or a failure.                              *)
(***************************************************************************)
THEOREM RulesAreLoadedOnce == Spec => []LoadsAreShared
BY RulesInvAlways, RulesInvImplies, PTL

-----------------------------------------------------------------------------
(* The rules in a submission. *)

\* A step that moves a task outside of symbol_info.
LEMMA PlaceKeeps ==
    ASSUME RulesInv, NEW t \in Task, NEW where \in Outside,
           pc[t] \in Outside, got[t] # NoRules => where \in WithRules,
           pc' = [pc EXCEPT ![t] = where], UNCHANGED <<store, call, got, history>>
    PROVE  RulesInv'
<1>1. RulesTypeOK' /\ RulesPlaces'
  BY DEF RulesInv, RulesTypeOK, RulesPlaces, store, call, history
<1>2. /\ pc'[t] = where
      /\ \A u \in Task \ {t} : pc'[u] = pc[u]
      /\ UNCHANGED <<published, cache, holder, asks, refresh, after, got, newest, floor, spare>>
  BY DEF RulesInv, RulesPlaces, store, call, history
<1>3. ASSUME NEW q \in Symbol PROVE CacheIsNewest(q)' /\ LoadIsAllowed(q)'
  <2>1. \A u \in Task : Fetching(u) => Fetching(u)'
    BY <1>2
  <2> QED
    BY <1>2, <2>1 DEF RulesInv, CacheIsNewest, LoadIsAllowed
<1>4. CallIsOrdered(t)'
  BY <1>2 DEF CallIsOrdered, RulesInv
<1>5. ASSUME NEW u \in Task \ {t} PROVE CallIsOrdered(u)'
  <2>1. published'[asks[u]] >= published[asks[u]] /\ newest'[asks[u]] >= newest[asks[u]]
    BY <1>2 DEF RulesInv, RulesTypeOK
  <2> QED
    BY <1>1, <1>2, <2>1, CallIsKept
<1> QED
  BY <1>1, <1>3, <1>4, <1>5 DEF RulesInv

LEMMA StartKeepsRules ==
    ASSUME RulesInv, NEW t \in Task, NEW i \in Intent,
           pc[t] \in {"idle", "pausing"}, Start(t, i)
    PROVE  RulesInv'
<1>1. CASE i \in Create /\ StartCreate(t, i)
  <2>1. Request[i].symbol \in Symbol
    BY <1>1, SubmissionAssumption
  <2> QED
    BY <1>1, <2>1, AskKeeps DEF StartCreate
<1>2. CASE i \in Cancel /\ StartCancel(t)
  <2>1. got[t] = NoRules
    BY DEF RulesInv, CallIsOrdered
  <2> QED
    BY <1>2, <2>1, PlaceKeeps DEF StartCancel
<1> QED
  BY <1>1, <1>2 DEF Start

LEMMA RaiseKeepsRules ==
    ASSUME RulesInv, NEW t \in Task, pc[t] \notin Inside, NEW error, NEW retryAfter,
           Raise(t, error, retryAfter)
    PROVE  RulesInv'
BY LeaveKeeps DEF Raise, Finish

LEMMA SubmissionKeepsRules ==
    ASSUME RulesInv, [SubmissionNext]_submissionVars
    PROVE  RulesInv'
<1>1. CASE \E s \in Symbol : Publish(s) \/ Clear({s})
  BY <1>1, PublishKeeps, ClearKeeps
<1>2. CASE Clear(Symbol)
  BY <1>2, ClearKeeps
<1>3. ASSUME NEW t \in Task, NEW s \in Symbol, SymbolInfo(t, s, TRUE)
      PROVE  RulesInv'
  BY <1>3, AskKeeps DEF SymbolInfo
<1>4. ASSUME NEW t \in Task, RulesStep(t) \/ RulesFail(t)
      PROVE  RulesInv'
  BY <1>4, RulesStepKeeps, RulesFailKeeps
<1>5. ASSUME NEW t \in Task, NEW i \in Intent, Submit(t, i)
      PROVE  RulesInv'
  BY <1>5, StartKeepsRules DEF Submit
<1>6. ASSUME NEW t \in Task, PauseOver(t)
      PROVE  RulesInv'
  <2>1. intent[t] \in Intent
    BY <1>6 DEF PauseOver, Start, Intent
  <2> QED
    BY <1>6, <2>1, StartKeepsRules DEF PauseOver
<1>7. ASSUME NEW t \in Task, RulesError(t)
      PROVE  RulesInv'
  BY <1>7, RaiseKeepsRules DEF RulesError
<1>8. ASSUME NEW t \in Task, Checked(t)
      PROVE  RulesInv'
  <2>1. pc[t] = "checking"
    BY <1>8 DEF Checked
  <2> QED
    BY <1>8, <2>1, PlaceKeeps, RaiseKeepsRules DEF Checked
<1>9. ASSUME NEW t \in Task, Post(t)
      PROVE  RulesInv'
  BY <1>9, LeaveKeeps, RaiseKeepsRules DEF Post
<1>10. ASSUME NEW t \in Task, Answered(t)
       PROVE  RulesInv'
  BY <1>10, LeaveKeeps, RaiseKeepsRules DEF Answered, Finish
<1>11. ASSUME NEW t \in Task, GivesUp(t)
       PROVE  RulesInv'
  BY <1>11, RaiseKeepsRules DEF GivesUp
<1>12. CASE UNCHANGED vars
  BY <1>12, RulesStutters
<1> QED
  BY <1>1, <1>2, <1>3, <1>4, <1>5, <1>6, <1>7, <1>8, <1>9, <1>10, <1>11, <1>12
  DEF SubmissionNext, SubmissionStep, ArrivesLate, QueryOrder, submissionVars

LEMMA RulesInvThroughout == SubmissionSpec => []RulesInv
<1>1. SubmissionInit => RulesInv
  BY RulesInitially DEF SubmissionInit
<1>2. RulesInv /\ [SubmissionNext]_submissionVars => RulesInv'
  BY SubmissionKeepsRules
<1> QED
  BY <1>1, <1>2, PTL DEF SubmissionSpec

(***************************************************************************)
(* Orders are checked by rules at least as new as any that were given when *)
(* their call began, whatever the other calls do to the cache; and orders  *)
(* created at once share one load of the rules.                            *)
(***************************************************************************)
THEOREM SubmissionRules == SubmissionSpec => [](RulesNeverRegress /\ LoadsAreShared)
BY RulesInvThroughout, RulesInvImplies, PTL

-----------------------------------------------------------------------------
(* Where a step leaves its task. *)

\* Task t may move, and is given rules if it is to be checked; no other does.
OneMoves(t) ==
    /\ \A u \in Task \ {t} : pc'[u] = pc[u] /\ got'[u] = got[u]
    /\ pc'[t] \in (Inside \cup Outside) \ {"ready", "pausing"}
    /\ pc'[t] = "checking" => got'[t] # NoRules

LEMMA AskMoves ==
    ASSUME RulesInv, NEW t \in Task, NEW s \in Symbol, NEW again \in BOOLEAN,
           NEW where \in {"given", "checking"}, Ask(t, s, again, where)
    PROVE  OneMoves(t)
<1>1. after'[t] = where
  BY DEF Ask, RulesInv, RulesPlaces
<1>2. CASE Locked(t, s)
  BY <1>1, <1>2 DEF Locked, Give, OneMoves, RulesInv, RulesTypeOK, RulesPlaces
<1>3. CASE pc' = [pc EXCEPT ![t] = "waiting"] /\ UNCHANGED got
  BY <1>3 DEF OneMoves, RulesInv, RulesPlaces
<1> QED
  BY <1>2, <1>3 DEF Ask

LEMMA RulesStepMoves ==
    ASSUME RulesInv, NEW t \in Task, RulesStep(t) \/ RulesFail(t)
    PROVE  OneMoves(t)
<1>1. pc \in [Task -> Inside \cup Outside] /\ got \in [Task -> Version \cup {NoRules}]
  BY DEF RulesInv, RulesTypeOK, RulesPlaces
<1>2. after[t] \in {"idle", "given", "checking"} /\ CallIsOrdered(t)
  BY DEF RulesInv, RulesPlaces
<1>3. CASE Granted(t)
  BY <1>1, <1>2, <1>3 DEF Granted, Locked, Give, call, OneMoves
<1>4. CASE RulesAnswered(t)
  BY <1>1, <1>4 DEF RulesAnswered, OneMoves
<1>5. CASE RulesFetched(t)
  BY <1>1, <1>2, <1>5 DEF RulesFetched, Give, call, OneMoves, CallIsOrdered
<1>6. CASE Used(t)
  BY <1>1, <1>6 DEF Used, Leave, OneMoves
<1>7. CASE RulesFail(t)
  BY <1>1, <1>7 DEF RulesFail, Leave, OneMoves
<1> QED
  BY <1>3, <1>4, <1>5, <1>6, <1>7 DEF RulesStep

\* A call starts inside symbol_info, at its check, or ready if it is a cancel.
LEMMA StartMoves ==
    ASSUME RulesInv, NEW t \in Task, NEW i, Start(t, i)
    PROVE  \/ OneMoves(t)
           \/ /\ i \in Cancel
              /\ pc' = [pc EXCEPT ![t] = "ready"]
              /\ got' = got
<1>1. CASE i \in Create /\ StartCreate(t, i)
  <2>1. Request[i].symbol \in Symbol
    BY <1>1, SubmissionAssumption
  <2> QED
    BY <1>1, <2>1, AskMoves DEF StartCreate
<1>2. CASE i \in Cancel /\ StartCancel(t)
  BY <1>2 DEF StartCancel
<1> QED
  BY <1>1, <1>2 DEF Start

\* execute lets an error through, which ends the call, or pauses.
LEMMA RaiseMoves ==
    ASSUME RulesInv, NEW t \in Task, NEW error, NEW retryAfter, Raise(t, error, retryAfter)
    PROVE  /\ \A u \in Task \ {t} : pc'[u] = pc[u] /\ got'[u] = got[u]
           /\ \/ pc'[t] = "idle" /\ Finish(t, Outcome(error.code))
              \/ /\ pc'[t] = "pausing"
                 /\ Retries(error, Codes(t), attempt[t])
                 /\ wait' = [wait EXCEPT ![t] = Pause(delay[t], retryAfter)]
                 /\ delay' = [delay EXCEPT ![t] = NextDelay(@)]
                 /\ UNCHANGED <<intent, attempt, told>>
BY DEF Raise, Finish, Leave, RulesInv, RulesTypeOK, RulesPlaces

LEMMA FinishMoves ==
    ASSUME RulesInv, NEW t \in Task, NEW outcome, Finish(t, outcome)
    PROVE  pc'[t] = "idle" /\ \A u \in Task \ {t} : pc'[u] = pc[u] /\ got'[u] = got[u]
BY DEF Finish, Leave, RulesInv, RulesTypeOK, RulesPlaces

-----------------------------------------------------------------------------
(* The policy: attempts and pauses. *)

Known == {"nothing", "done", "refused", "failed", "unknown", "absent"}

PolicyTypes ==
    /\ intent \in [Task -> Intent \cup {NoIntent}]
    /\ attempt \in [Task -> 1..MaxAttempts]
    /\ delay \in [Task -> 0..MaxDelay \cup {InitialDelay}]
    /\ wait \in [Task -> 0..MaxDelay]
    /\ told \in [Intent -> Known]

\* A pause is followed by an attempt that the policy still has.
PauseIsNotLast == \A t \in Task : pc[t] = "pausing" => attempt[t] < MaxAttempts

PolicyInv == PolicyTypes /\ PauseIsNotLast

\* The pauses are within the maximum, whatever the server asks for.
LEMMA PauseIsCapped ==
    ASSUME NEW d \in Nat, NEW retryAfter \in {{}} \cup {{a} : a \in RetryAfters}
    PROVE  /\ Pause(d, retryAfter) \in 0..MaxDelay
           /\ NextDelay(d) \in 0..MaxDelay
<1>1. MaxDelay \in Nat
  BY PolicyAssumption
<1>2. NextDelay(d) \in 0..MaxDelay
  BY <1>1 DEF NextDelay, Least
<1>3. CASE retryAfter = {}
  <2>1. Pause(d, retryAfter) = Least(d, MaxDelay)
    BY <1>3, Zenon DEF Pause
  <2> QED
    BY <1>1, <1>2, <2>1 DEF Least
<1>4. CASE retryAfter # {}
  <2>1. PICK a \in RetryAfters : retryAfter = {a}
    BY <1>4
  <2>2. (CHOOSE b \in retryAfter : TRUE) = a /\ a \in Nat
    BY <2>1, SubmissionAssumption
  <2>3. Pause(d, retryAfter) = Least(a, MaxDelay)
    BY <1>4, <2>2, Zenon DEF Pause
  <2> QED
    BY <1>1, <1>2, <2>2, <2>3 DEF Least
<1> QED
  BY <1>2, <1>3, <1>4

LEMMA FinishKeepsPolicy ==
    ASSUME RulesInv, PolicyInv, NEW t \in Task, NEW outcome \in Known, Finish(t, outcome)
    PROVE  PolicyInv'
<1>1. PolicyTypes'
  <2>1. /\ 1 \in 1..MaxAttempts
        /\ 0 \in 0..MaxDelay
    BY PolicyAssumption
  <2>2. intent' \in [Task -> Intent \cup {NoIntent}]
    BY DEF PolicyInv, PolicyTypes, Finish
  <2>3. /\ attempt' \in [Task -> 1..MaxAttempts]
        /\ wait' \in [Task -> 0..MaxDelay]
    BY <2>1 DEF PolicyInv, PolicyTypes, Finish
  <2>4. delay' \in [Task -> 0..MaxDelay \cup {InitialDelay}]
    BY DEF PolicyInv, PolicyTypes, Finish
  <2>5. told' \in [Intent -> Known]
    BY DEF PolicyInv, PolicyTypes, Finish
  <2> QED
    BY <2>2, <2>3, <2>4, <2>5 DEF PolicyTypes
<1>2. \A u \in Task \ {t} : attempt'[u] = attempt[u]
  BY DEF PolicyInv, PolicyTypes, Finish
<1> QED
  BY <1>1, <1>2, FinishMoves DEF PolicyInv, PauseIsNotLast

LEMMA RaiseKeepsPolicy ==
    ASSUME RulesInv, PolicyInv, NEW t \in Task, NEW error,
           NEW retryAfter \in {{}} \cup {{a} : a \in RetryAfters},
           Raise(t, error, retryAfter)
    PROVE  PolicyInv'
<1>1. CASE Finish(t, Outcome(error.code))
  <2>1. Outcome(error.code) \in Known
    BY DEF Outcome, Known
  <2> QED
    BY <1>1, <2>1, FinishKeepsPolicy
<1>2. CASE /\ pc'[t] = "pausing"
           /\ Retries(error, Codes(t), attempt[t])
           /\ wait' = [wait EXCEPT ![t] = Pause(delay[t], retryAfter)]
           /\ delay' = [delay EXCEPT ![t] = NextDelay(@)]
           /\ UNCHANGED <<intent, attempt, told>>
  <2>1. delay[t] \in Nat
    BY PolicyAssumption DEF PolicyInv, PolicyTypes
  <2>2. PolicyTypes'
    BY <1>2, <2>1, PauseIsCapped DEF PolicyInv, PolicyTypes
  <2>3. attempt[t] < MaxAttempts
    BY <1>2 DEF Retries
  <2> QED
    BY <1>2, <2>2, <2>3, RaiseMoves DEF PolicyInv, PauseIsNotLast
<1> QED
  BY <1>1, <1>2, RaiseMoves

\* A step of the call itself that neither ends nor starts an attempt.
LEMMA MoveKeepsPolicy ==
    ASSUME PolicyInv, NEW t \in Task, \A u \in Task \ {t} : pc'[u] = pc[u],
           pc'[t] # "pausing", UNCHANGED <<policy, told>>
    PROVE  PolicyInv'
BY DEF PolicyInv, PolicyTypes, PauseIsNotLast, policy

LEMMA SubmissionKeepsPolicy ==
    ASSUME RulesInv, PolicyInv, [SubmissionNext]_submissionVars
    PROVE  PolicyInv'
<1>1. ASSUME NEW s \in Symbol, Publish(s) \/ Clear({s}) \/ Clear(Symbol), UNCHANGED <<policy, told>>
      PROVE  PolicyInv'
  BY <1>1 DEF Publish, Clear, PolicyInv, PolicyTypes, PauseIsNotLast, policy
<1>2. ASSUME NEW t \in Task, NEW s \in Symbol, SymbolInfo(t, s, TRUE), UNCHANGED <<policy, told>>
      PROVE  PolicyInv'
  BY <1>2, AskMoves, MoveKeepsPolicy DEF SymbolInfo, OneMoves
<1>3. ASSUME NEW t \in Task, RulesStep(t) \/ RulesFail(t), UNCHANGED <<policy, told>>
      PROVE  PolicyInv'
  BY <1>3, RulesStepMoves, MoveKeepsPolicy DEF OneMoves
<1>4. ASSUME NEW t \in Task, NEW i \in Intent, Submit(t, i)
      PROVE  PolicyInv'
  <2>1. pc'[t] # "pausing" /\ \A u \in Task \ {t} : pc'[u] = pc[u]
    BY <1>4, StartMoves DEF Submit, OneMoves, RulesInv, RulesPlaces
  <2>2. PolicyTypes'
    BY <1>4 DEF Submit, PolicyInv, PolicyTypes
  <2> QED
    BY <1>4, <2>1, <2>2 DEF Submit, PolicyInv, PauseIsNotLast
<1>5. ASSUME NEW t \in Task, PauseOver(t)
      PROVE  PolicyInv'
  <2>1. pc'[t] # "pausing" /\ \A u \in Task \ {t} : pc'[u] = pc[u]
    BY <1>5, StartMoves DEF PauseOver, OneMoves, RulesInv, RulesPlaces
  <2>2. attempt[t] \in 1..MaxAttempts /\ attempt[t] < MaxAttempts
    BY <1>5 DEF PauseOver, PolicyInv, PolicyTypes, PauseIsNotLast
  <2>3. attempt[t] + 1 \in 1..MaxAttempts /\ 0 \in 0..MaxDelay
    BY <2>2, PolicyAssumption
  <2>4. PolicyTypes'
    BY <1>5, <2>3 DEF PauseOver, PolicyInv, PolicyTypes
  <2>5. \A u \in Task \ {t} : attempt'[u] = attempt[u]
    BY <1>5 DEF PauseOver, PolicyInv, PolicyTypes
  <2> QED
    BY <2>1, <2>4, <2>5 DEF PolicyInv, PauseIsNotLast
<1>6. ASSUME NEW t \in Task, RulesError(t)
      PROVE  PolicyInv'
  BY <1>6, RaiseKeepsPolicy DEF RulesError, Pauses
<1>7. ASSUME NEW t \in Task, Checked(t)
      PROVE  PolicyInv'
  <2>1. CASE pc' = [pc EXCEPT ![t] = "ready"] /\ UNCHANGED <<policy, told>>
    BY <2>1, MoveKeepsPolicy DEF RulesInv, RulesPlaces
  <2>2. CASE Raise(t, Error("VALIDATION_ERROR", FALSE), {})
    BY <2>2, RaiseKeepsPolicy
  <2> QED
    BY <1>7, <2>1, <2>2 DEF Checked
<1>8. ASSUME NEW t \in Task, Post(t)
      PROVE  PolicyInv'
  <2>1. CASE Leave(t, "posting") /\ UNCHANGED <<policy, told>>
    BY <2>1, MoveKeepsPolicy DEF Leave, RulesInv, RulesPlaces
  <2>2. CASE Raise(t, Error("TOKEN_EXPIRED", FALSE), {})
    BY <2>2, RaiseKeepsPolicy
  <2> QED
    BY <1>8, <2>1, <2>2 DEF Post
<1>9. ASSUME NEW t \in Task, Answered(t)
      PROVE  PolicyInv'
  <2>1. CASE Finish(t, "done")
    BY <2>1, FinishKeepsPolicy DEF Known
  <2>2. CASE Raise(t, Garbled, {})
    BY <2>2, RaiseKeepsPolicy
  <2>3. ASSUME NEW status \in Statuses, NEW pause \in Pauses,
               Raise(t, Reported(HttpError(status)), pause)
        PROVE  PolicyInv'
    BY <2>3, RaiseKeepsPolicy DEF Pauses
  <2> QED
    BY <1>9, <2>1, <2>2, <2>3 DEF Answered
<1>10. ASSUME NEW t \in Task, GivesUp(t)
       PROVE  PolicyInv'
  BY <1>10, RaiseKeepsPolicy DEF GivesUp
<1>11. ASSUME NEW i \in Intent, QueryOrder(i)
       PROVE  PolicyInv'
  BY <1>11 DEF QueryOrder, PolicyInv, PolicyTypes, PauseIsNotLast, policy, vars, Known
<1>12. CASE UNCHANGED <<vars, policy, told>>
  BY <1>12 DEF PolicyInv, PolicyTypes, PauseIsNotLast, policy, vars
<1> QED
  BY <1>1, <1>2, <1>3, <1>4, <1>5, <1>6, <1>7, <1>8, <1>9, <1>10, <1>11, <1>12, RulesAssumption
  DEF SubmissionNext, SubmissionStep, ArrivesLate, submissionVars

-----------------------------------------------------------------------------
(* What the exchange carries out. *)

ExchangeTypes ==
    /\ applied \in [Intent -> Nat]
    /\ late \in [Intent -> Nat]

\* No two tasks work on one intent.
OneOwner ==
    \A t, u \in Task : intent[t] = intent[u] /\ intent[t] # NoIntent => t = u

\* Orders without an id of their caller whose policy takes care.
Careful(i) == i \in (Create \ Named) \ Rash

\* The exchange sees to it that a request with the same id counts once.  Of a
\* careful order one request goes out at most, and none while the caller has not
\* been told of its end.
FateIsKnown(i) ==
    /\ SameId(i) => applied[i] <= 1
    /\ Careful(i) =>
          /\ applied[i] + late[i] <= 1
          /\ told[i] # "absent"
          /\ told[i] \in {"nothing", "refused"} => applied[i] = 0 /\ late[i] = 0
          /\ \A t \in Task : intent[t] = i => told[i] = "nothing"

ExchangeInv ==
    /\ ExchangeTypes
    /\ OneOwner
    /\ \A i \in Intent : FateIsKnown(i)

\* Errors that do not say whether the order was placed are final, and no refusals.
Uncertain(error, i) ==
    /\ \A n \in Nat : ~Retries(error, RetryableCodes[i], n)
    /\ Outcome(error.code) \in {"unknown", "failed"}

LEMMA HttpErrorIsUncertain ==
    ASSUME NEW status \in Nat, status = 408 \/ status >= 500, NEW i, Careful(i)
    PROVE  Uncertain(Reported(HttpError(status)), i)
<1>1. CASE status = 408
  <2> DEFINE found == CHOOSE p \in StatusCode : p[1] = status
  <2>1. found = <<408, "REQUEST_TIMEOUT">>
    <3>1. <<408, "REQUEST_TIMEOUT">> \in StatusCode
      BY DEF StatusCode
    <3>2. \A p \in StatusCode : p[1] = status => p = <<408, "REQUEST_TIMEOUT">>
      BY <1>1 DEF StatusCode
    <3> QED
      BY <1>1, <3>1, <3>2
  <2>2. HttpError(status).code = "REQUEST_TIMEOUT"
    <3>1. \E p \in StatusCode : p[1] = status
      BY <1>1 DEF StatusCode
    <3>2. HttpError(status).code = found[2]
      <4> HIDE DEF found
      <4>1. HttpError(status) = Error(found[2], status \in {408, 429} \/ status >= 500)
        BY <3>1, Zenon DEF HttpError, found
      <4> QED
        BY <4>1 DEF Error
    <3>3. <<408, "REQUEST_TIMEOUT">>[2] = "REQUEST_TIMEOUT"
      OBVIOUS
    <3> HIDE DEF found
    <3> QED
      BY <2>1, <3>2, <3>3
  <2>3. Reported(HttpError(status)) = [code |-> "ORDER_UNKNOWN", retryable |-> FALSE]
    BY <2>2 DEF Reported, OrderUnknown, Error
  <2> QED
    BY <2>3 DEF Uncertain, Retries, CanRetry, Outcome
<1>2. CASE status >= 500
  <2>1. ~\E p \in StatusCode : p[1] = status
    BY <1>2 DEF StatusCode
  <2>2. HttpError(status).code = "SERVER_ERROR"
    BY <1>2, <2>1 DEF HttpError, Error
  <2>3. Reported(HttpError(status)).code = "SERVER_ERROR"
    BY <2>2 DEF Reported
  <2>4. RetryableCodes[i] # AnyCode /\ "SERVER_ERROR" \notin RetryableCodes[i]
    BY DEF Careful, Rash, OpenCodes
  <2> QED
    BY <2>3, <2>4 DEF Uncertain, Retries, CanRetry, Outcome, Refusals
<1> QED
  BY <1>1, <1>2

LEMMA CutOffIsUncertain ==
    ASSUME NEW i, Careful(i)
    PROVE  /\ Uncertain(Garbled, i)
           /\ Uncertain(Reported(TimedOut), i)
           /\ Uncertain(Reported(Disconnected), i)
<1>1. Uncertain(Garbled, i)
  BY DEF Uncertain, Garbled, Error, Retries, CanRetry, Outcome, Refusals
<1>2. Uncertain(Reported(TimedOut), i)
  BY DEF Uncertain, TimedOut, Reported, OrderUnknown, Error, Retries, CanRetry, Outcome
<1>3. Uncertain(Reported(Disconnected), i)
  <2>1. RetryableCodes[i] # AnyCode /\ "PROTOCOL_ERROR" \notin RetryableCodes[i]
    BY DEF Careful, Rash, OpenCodes
  <2> QED
    BY <2>1 DEF Uncertain, Disconnected, Reported, Error, Retries, CanRetry, Outcome, Refusals
<1> QED
  BY <1>1, <1>2, <1>3

\* What an intent that no call touches keeps.
LEMMA FateIsKept ==
    ASSUME ExchangeInv, NEW i \in Intent,
           applied'[i] = applied[i], late'[i] = late[i], told'[i] = told[i],
           \A t \in Task : intent'[t] = i => intent[t] = i
    PROVE  FateIsKnown(i)'
<1>1. FateIsKnown(i)
  BY DEF ExchangeInv
<1>2. SameId(i)' = SameId(i) /\ Careful(i)' = Careful(i)
  BY DEF SameId, Careful
<1> QED
  BY <1>1, <1>2 DEF FateIsKnown

LEMMA FinishKeepsFates ==
    ASSUME PolicyInv, ExchangeInv, NEW t \in Task,
           NEW outcome \in {"done", "refused", "failed", "unknown"}, Finish(t, outcome),
           ExchangeTypes',
           \A j \in Intent \ {intent[t]} : applied'[j] = applied[j] /\ late'[j] = late[j],
           \A i \in Intent : i = intent[t] =>
              /\ SameId(i) => applied'[i] <= 1
              /\ Careful(i) =>
                    /\ applied'[i] + late'[i] <= 1
                    /\ outcome = "refused" => applied'[i] = 0 /\ late'[i] = 0
    PROVE  ExchangeInv'
<1>1. /\ intent'[t] = NoIntent
      /\ \A u \in Task \ {t} : intent'[u] = intent[u]
      /\ \A j \in Intent : told'[j] = IF j = intent[t] THEN outcome ELSE told[j]
  BY DEF Finish, PolicyInv, PolicyTypes
<1>2. NoIntent \notin Intent
  BY SubmissionAssumption DEF Intent
<1>3. OneOwner'
  BY <1>1 DEF ExchangeInv, OneOwner
<1>4. ASSUME NEW i \in Intent PROVE FateIsKnown(i)'
  <2>1. CASE i # intent[t]
    BY <1>1, <1>2, <2>1, FateIsKept
  <2>2. CASE i = intent[t]
    <3>1. \A u \in Task : intent'[u] # i
      BY <1>1, <1>2, <2>2 DEF ExchangeInv, OneOwner
    <3>2. SameId(i)' = SameId(i) /\ Careful(i)' = Careful(i)
      BY DEF SameId, Careful
    <3> QED
      BY <1>1, <2>2, <3>1, <3>2 DEF FateIsKnown
  <2> QED
    BY <2>1, <2>2
<1> QED
  BY <1>3, <1>4 DEF ExchangeInv

\* A step that neither ends nor starts a call.
LEMMA PauseKeepsFates ==
    ASSUME ExchangeInv, UNCHANGED <<intent, told>>, ExchangeTypes',
           \A i \in Intent :
              /\ SameId(i) => applied'[i] <= 1
              /\ Careful(i) => applied'[i] = applied[i] /\ late'[i] = late[i]
    PROVE  ExchangeInv'
<1>1. ASSUME NEW i \in Intent PROVE FateIsKnown(i)'
  <2>1. CASE Careful(i)
    BY <2>1, FateIsKept
  <2>2. CASE ~Careful(i)
    BY <2>2 DEF FateIsKnown, SameId, Careful
  <2> QED
    BY <2>1, <2>2
<1>2. OneOwner'
  BY DEF ExchangeInv, OneOwner
<1> QED
  BY <1>1, <1>2 DEF ExchangeInv

\* A call that raises before its request is on its way.
LEMMA RaiseKeepsFates ==
    ASSUME RulesInv, PolicyInv, ExchangeInv, NEW t \in Task, NEW error, NEW retryAfter,
           Raise(t, error, retryAfter), UNCHANGED exchange
    PROVE  ExchangeInv'
<1>1. ExchangeTypes' /\ applied' = applied /\ late' = late
  BY DEF ExchangeInv, ExchangeTypes, exchange
<1>2. ASSUME NEW i \in Intent, i = intent[t], Careful(i)
      PROVE  applied[i] = 0 /\ late[i] = 0
  BY <1>2 DEF ExchangeInv, FateIsKnown
<1>3. ASSUME NEW i \in Intent, SameId(i)
      PROVE  applied[i] <= 1
  BY <1>3 DEF ExchangeInv, FateIsKnown
<1>4. CASE Finish(t, Outcome(error.code))
  <2>1. Outcome(error.code) \in {"done", "refused", "failed", "unknown"}
    BY DEF Outcome
  <2> QED
    BY <1>1, <1>2, <1>3, <1>4, <2>1, FinishKeepsFates
<1>5. CASE UNCHANGED <<intent, told>>
  BY <1>1, <1>3, <1>5, PauseKeepsFates
<1> QED
  BY <1>4, <1>5, RaiseMoves

\* What Carry does to the counters: one more, unless the exchange knows the id.
LEMMA CarryCounts ==
    ASSUME ExchangeTypes, NEW i, Carry(i)
    PROVE  /\ applied' \in [Intent -> Nat]
           /\ \A j \in Intent \ {i} : applied'[j] = applied[j]
           /\ i \in Intent =>
                 IF SameId(i) /\ applied[i] > 0 THEN applied'[i] = applied[i]
                 ELSE applied'[i] = applied[i] + 1
<1>1. CASE Duplicate(i)
  BY <1>1 DEF Carry, Duplicate, ExchangeTypes
<1>2. CASE ~Duplicate(i)
  <2>1. applied' = [applied EXCEPT ![i] = @ + 1]
    BY <1>2 DEF Carry
  <2>2. applied' \in [Intent -> Nat]
    <3>1. applied' = [j \in Intent |-> IF j = i THEN applied[i] + 1 ELSE applied[j]]
      BY <2>1 DEF ExchangeTypes
    <3>2. ASSUME NEW j \in Intent
          PROVE  (IF j = i THEN applied[i] + 1 ELSE applied[j]) \in Nat
      BY DEF ExchangeTypes
    <3> QED
      BY <3>1, <3>2
  <2>3. \A j \in Intent \ {i} : applied'[j] = applied[j]
    BY <2>1 DEF ExchangeTypes
  <2>4. i \in Intent => applied'[i] = applied[i] + 1
    BY <2>1 DEF ExchangeTypes
  <2> QED
    BY <1>2, <2>2, <2>3, <2>4 DEF Duplicate
<1> QED
  BY <1>1, <1>2

\* The request of a call, on its way, was carried out or not, and its error or
\* result ends the call unless the intent may be repeated.
LEMMA EndKeepsFates ==
    ASSUME RulesInv, PolicyInv, ExchangeInv, NEW t \in Task, ExchangeTypes',
           \A j \in Intent \ {intent[t]} : applied'[j] = applied[j] /\ late'[j] = late[j],
           \A i \in Intent : i = intent[t] =>
              /\ SameId(i) => applied'[i] <= 1
              /\ Careful(i) => applied'[i] + late'[i] <= 1,
           \/ Finish(t, "done")
           \/ \E error, retryAfter : /\ Raise(t, error, retryAfter)
                                     /\ Careful(intent[t]) => Uncertain(error, intent[t])
    PROVE  ExchangeInv'
<1>1. CASE Finish(t, "done")
  BY <1>1, FinishKeepsFates
<1>2. ASSUME NEW error, NEW retryAfter, Raise(t, error, retryAfter),
             Careful(intent[t]) => Uncertain(error, intent[t])
      PROVE  ExchangeInv'
  <2>1. attempt[t] \in Nat
    BY PolicyAssumption DEF PolicyInv, PolicyTypes
  <2>2. CASE Finish(t, Outcome(error.code))
    <3>1. Outcome(error.code) \in {"done", "refused", "failed", "unknown"}
      BY DEF Outcome
    <3>2. Careful(intent[t]) => Outcome(error.code) # "refused"
      BY <1>2 DEF Uncertain
    <3> QED
      BY <2>2, <3>1, <3>2, FinishKeepsFates
  <2>3. CASE /\ Retries(error, Codes(t), attempt[t])
             /\ UNCHANGED <<intent, told>>
    <3>1. ~Careful(intent[t])
      <4> SUFFICES ASSUME Careful(intent[t]) PROVE FALSE
        OBVIOUS
      <4>1. intent[t] # NoIntent
        BY SubmissionAssumption DEF Careful
      <4>2. Codes(t) = RetryableCodes[intent[t]]
        BY <4>1 DEF Codes
      <4> QED
        BY <1>2, <2>1, <2>3, <4>2 DEF Uncertain
    <3>2. \A i \in Intent : /\ SameId(i) => applied'[i] <= 1
                            /\ Careful(i) => applied'[i] = applied[i] /\ late'[i] = late[i]
      BY <3>1 DEF ExchangeInv, FateIsKnown
    <3> QED
      BY <2>3, <3>2, PauseKeepsFates
  <2> QED
    BY <1>2, <2>2, <2>3, RaiseMoves
<1> QED
  BY <1>1, <1>2

LEMMA AnsweredKeepsFates ==
    ASSUME RulesInv, PolicyInv, ExchangeInv, NEW t \in Task, Answered(t)
    PROVE  ExchangeInv'
<1>1. ExchangeTypes /\ UNCHANGED late
  BY DEF ExchangeInv, Answered
<1>2. Carry(intent[t]) \/ UNCHANGED applied
  BY DEF Answered
<1>3. /\ ExchangeTypes'
      /\ \A j \in Intent \ {intent[t]} : applied'[j] = applied[j] /\ late'[j] = late[j]
  BY <1>1, <1>2, CarryCounts DEF ExchangeTypes
<1>4. ASSUME NEW i \in Intent, i = intent[t]
      PROVE  /\ SameId(i) => applied'[i] <= 1
             /\ Careful(i) => applied'[i] + late'[i] <= 1
  <2>1. FateIsKnown(i) /\ applied[i] \in Nat /\ late[i] \in Nat
    BY <1>1 DEF ExchangeInv, ExchangeTypes
  <2>2. Careful(i) => applied[i] = 0 /\ late[i] = 0
    BY <1>4, <2>1 DEF FateIsKnown
  <2>3. SameId(i) => applied[i] <= 1
    BY <2>1 DEF FateIsKnown
  <2>4. \/ applied'[i] = applied[i]
        \/ applied'[i] = applied[i] + 1 /\ ~(SameId(i) /\ applied[i] > 0)
    BY <1>1, <1>2, <1>4, CarryCounts
  <2> QED
    BY <1>1, <2>1, <2>2, <2>3, <2>4
<1>5. CASE Finish(t, "done")
  BY <1>3, <1>4, <1>5, EndKeepsFates
<1>6. CASE Raise(t, Garbled, {})
  BY <1>3, <1>4, <1>6, CutOffIsUncertain, EndKeepsFates
<1>7. ASSUME NEW status \in Statuses, NEW pause,
             status = 408 \/ status >= 500 \/ applied' = applied,
             Raise(t, Reported(HttpError(status)), pause)
      PROVE  ExchangeInv'
  <2>1. CASE status = 408 \/ status >= 500
    <3>1. status \in Nat
      BY SubmissionAssumption
    <3>2. Careful(intent[t]) => Uncertain(Reported(HttpError(status)), intent[t])
      BY <2>1, <3>1, HttpErrorIsUncertain
    <3> QED
      BY <1>3, <1>4, <1>7, <3>2, EndKeepsFates
  <2>2. CASE applied' = applied
    BY <1>1, <1>7, <2>2, RaiseKeepsFates DEF exchange
  <2> QED
    BY <1>7, <2>1, <2>2
<1> QED
  BY <1>5, <1>6, <1>7 DEF Answered

LEMMA GivesUpKeepsFates ==
    ASSUME RulesInv, PolicyInv, ExchangeInv, NEW t \in Task, GivesUp(t)
    PROVE  ExchangeInv'
<1>1. ExchangeTypes
  BY DEF ExchangeInv
<1>2. \/ late' = [late EXCEPT ![intent[t]] = @ + 1] /\ UNCHANGED applied
      \/ Carry(intent[t]) /\ UNCHANGED late
  BY DEF GivesUp
<1>3. /\ ExchangeTypes'
      /\ \A j \in Intent \ {intent[t]} : applied'[j] = applied[j] /\ late'[j] = late[j]
  BY <1>1, <1>2, CarryCounts DEF ExchangeTypes
<1>4. ASSUME NEW i \in Intent, i = intent[t]
      PROVE  /\ SameId(i) => applied'[i] <= 1
             /\ Careful(i) => applied'[i] + late'[i] <= 1
  <2>1. FateIsKnown(i) /\ applied[i] \in Nat /\ late[i] \in Nat
    BY <1>1 DEF ExchangeInv, ExchangeTypes
  <2>2. Careful(i) => applied[i] = 0 /\ late[i] = 0
    BY <1>4, <2>1 DEF FateIsKnown
  <2>3. SameId(i) => applied[i] <= 1
    BY <2>1 DEF FateIsKnown
  <2>4. CASE late' = [late EXCEPT ![intent[t]] = @ + 1] /\ UNCHANGED applied
    BY <1>1, <1>4, <2>1, <2>2, <2>3, <2>4 DEF ExchangeTypes
  <2>5. CASE Carry(intent[t]) /\ UNCHANGED late
    <3>1. \/ applied'[i] = applied[i]
          \/ applied'[i] = applied[i] + 1 /\ ~(SameId(i) /\ applied[i] > 0)
      BY <1>1, <1>4, <2>5, CarryCounts
    <3> QED
      BY <2>1, <2>2, <2>3, <2>5, <3>1
  <2> QED
    BY <1>2, <2>4, <2>5
<1>5. PICK error \in {TimedOut, Disconnected} : Raise(t, Reported(error), {})
  BY DEF GivesUp
<1>6. Careful(intent[t]) => Uncertain(Reported(error), intent[t])
  BY CutOffIsUncertain
<1> QED
  BY <1>3, <1>4, <1>5, <1>6, EndKeepsFates

LEMMA SubmissionKeepsFates ==
    ASSUME RulesInv, PolicyInv, ExchangeInv, [SubmissionNext]_submissionVars
    PROVE  ExchangeInv'
<1>1. CASE UNCHANGED <<intent, applied, late, told>>
  <2>1. ExchangeTypes'
    BY <1>1 DEF ExchangeInv, ExchangeTypes
  <2>2. \A i \in Intent : SameId(i) => applied'[i] <= 1
    BY <1>1 DEF ExchangeInv, FateIsKnown
  <2> QED
    BY <1>1, <2>1, <2>2, PauseKeepsFates
<1>2. ASSUME NEW t \in Task, NEW i \in Intent, Submit(t, i)
      PROVE  ExchangeInv'
  <2>1. /\ intent'[t] = i
        /\ \A u \in Task \ {t} : intent'[u] = intent[u] /\ intent[u] # i
        /\ UNCHANGED <<applied, late, told>>
    BY <1>2 DEF Submit, exchange, PolicyInv, PolicyTypes
  <2>2. ExchangeTypes' /\ OneOwner'
    BY <2>1 DEF ExchangeInv, ExchangeTypes, OneOwner
  <2>3. told[i] \in {"nothing", "absent"}
    BY <1>2 DEF Submit
  <2>4. ASSUME NEW j \in Intent PROVE FateIsKnown(j)'
    <3>1. CASE j # i
      BY <2>1, <3>1, FateIsKept
    <3>2. CASE j = i
      <4>1. FateIsKnown(i)
        BY DEF ExchangeInv
      <4>2. SameId(i)' = SameId(i) /\ Careful(i)' = Careful(i)
        BY DEF SameId, Careful
      <4> QED
        BY <2>1, <2>3, <3>2, <4>1, <4>2 DEF FateIsKnown
    <3> QED
      BY <3>1, <3>2
  <2> QED
    BY <2>2, <2>4 DEF ExchangeInv
<1>3. ASSUME NEW t \in Task, RulesError(t)
      PROVE  ExchangeInv'
  BY <1>3, RaiseKeepsFates DEF RulesError
<1>4. ASSUME NEW t \in Task, Checked(t)
      PROVE  ExchangeInv'
  BY <1>1, <1>4, RaiseKeepsFates DEF Checked, policy, exchange
<1>5. ASSUME NEW t \in Task, Post(t)
      PROVE  ExchangeInv'
  BY <1>1, <1>5, RaiseKeepsFates DEF Post, policy, exchange
<1>6. ASSUME NEW t \in Task, Answered(t) \/ GivesUp(t)
      PROVE  ExchangeInv'
  BY <1>6, AnsweredKeepsFates, GivesUpKeepsFates
<1>7. ASSUME NEW i \in Intent, ArrivesLate(i)
      PROVE  ExchangeInv'
  <2>1. /\ late[i] > 0
        /\ late' = [late EXCEPT ![i] = @ - 1]
        /\ Carry(i)
        /\ UNCHANGED <<intent, told>>
    BY <1>7 DEF ArrivesLate, policy
  <2>2. ExchangeTypes
    BY DEF ExchangeInv
  <2>3. ExchangeTypes'
    BY <2>1, <2>2, CarryCounts DEF ExchangeTypes
  <2>4. late'[i] = late[i] - 1 /\ \A j \in Intent \ {i} : late'[j] = late[j]
    BY <2>1, <2>2 DEF ExchangeTypes
  <2>5. FateIsKnown(i)'
    <3>1. FateIsKnown(i) /\ applied[i] \in Nat /\ late[i] \in Nat
      BY <2>2 DEF ExchangeInv, ExchangeTypes
    <3>2. IF SameId(i) /\ applied[i] > 0 THEN applied'[i] = applied[i]
          ELSE applied'[i] = applied[i] + 1
      BY <2>1, <2>2, CarryCounts
    <3>3. SameId(i)' = SameId(i) /\ Careful(i)' = Careful(i)
      BY DEF SameId, Careful
    <3> QED
      BY <2>1, <2>4, <3>1, <3>2, <3>3 DEF FateIsKnown
  <2>6. ASSUME NEW j \in Intent \ {i} PROVE FateIsKnown(j)'
    <3>1. applied'[j] = applied[j]
      BY <2>1, <2>2, CarryCounts
    <3> QED
      BY <2>1, <2>4, <3>1, FateIsKept
  <2>7. OneOwner'
    BY <2>1 DEF ExchangeInv, OneOwner
  <2> QED
    BY <2>3, <2>5, <2>6, <2>7 DEF ExchangeInv
<1>8. ASSUME NEW i \in Intent, QueryOrder(i)
      PROVE  ExchangeInv'
  <2>1. /\ SameId(i)
        /\ \A j \in Intent \ {i} : told'[j] = told[j]
        /\ UNCHANGED <<intent, applied, late>>
    BY <1>8 DEF QueryOrder, SameId, policy, exchange, PolicyInv, PolicyTypes
  <2>2. ExchangeTypes' /\ OneOwner'
    BY <2>1 DEF ExchangeInv, ExchangeTypes, OneOwner
  <2>3. FateIsKnown(i)'
    <3>1. ~Careful(i)
      BY <2>1, SubmissionAssumption DEF SameId, Careful
    <3> QED
      BY <2>1, <3>1 DEF ExchangeInv, FateIsKnown, SameId, Careful
  <2>4. ASSUME NEW j \in Intent \ {i} PROVE FateIsKnown(j)'
    BY <2>1, FateIsKept
  <2> QED
    BY <2>2, <2>3, <2>4 DEF ExchangeInv
<1>9. ASSUME NEW t \in Task, PauseOver(t)
      PROVE  ExchangeInv'
  BY <1>1, <1>9 DEF PauseOver, exchange
<1> QED
  BY <1>1, <1>2, <1>3, <1>4, <1>5, <1>6, <1>7, <1>8, <1>9
  DEF SubmissionNext, SubmissionStep, submissionVars, policy, exchange

LEMMA SubmissionInvariant == SubmissionSpec => [](RulesInv /\ PolicyInv /\ ExchangeInv)
<1>1. SubmissionInit => RulesInv
  BY RulesInitially DEF SubmissionInit
<1>2. SubmissionInit => PolicyInv
  BY PolicyAssumption DEF SubmissionInit, Init, PolicyInv, PolicyTypes, PauseIsNotLast, Known
<1>3. SubmissionInit => ExchangeInv
  BY DEF SubmissionInit, ExchangeInv, ExchangeTypes, OneOwner, FateIsKnown
<1>4. RulesInv /\ PolicyInv /\ ExchangeInv /\ [SubmissionNext]_submissionVars
         => RulesInv' /\ PolicyInv' /\ ExchangeInv'
  BY SubmissionKeepsRules, SubmissionKeepsPolicy, SubmissionKeepsFates
<1> QED
  BY <1>1, <1>2, <1>3, <1>4, PTL DEF SubmissionSpec

\* What the invariant says of the properties.
LEMMA SubmissionInvImplies ==
    ASSUME RulesInv, PolicyInv, ExchangeInv
    PROVE  SubmissionTypeOK /\ AppliedOnce /\ RefusedIsNotApplied
<1>1. SubmissionTypeOK
  BY DEF SubmissionTypeOK, RulesInv, RulesPlaces, PolicyInv, PolicyTypes, Known,
         ExchangeInv, ExchangeTypes
<1>2. ASSUME NEW i \in Intent \ Rash PROVE applied[i] <= 1
  <2>1. FateIsKnown(i) /\ applied[i] \in Nat /\ late[i] \in Nat
    BY DEF ExchangeInv, ExchangeTypes
  <2>2. SameId(i) \/ Careful(i)
    BY DEF Intent, SameId, Careful
  <2> QED
    BY <2>1, <2>2 DEF FateIsKnown
<1>3. ASSUME NEW i \in (Create \ Named) \ Rash, told[i] = "refused"
      PROVE  applied[i] = 0 /\ late[i] = 0
  <2>1. i \in Intent /\ Careful(i)
    BY DEF Intent, Careful
  <2> QED
    BY <1>3, <2>1 DEF ExchangeInv, FateIsKnown
<1> QED
  BY <1>1, <1>2, <1>3 DEF AppliedOnce, RefusedIsNotApplied

(***************************************************************************)
(* Types, and that no pause before an attempt exceeds the policy's maximum *)
(* and no attempt its number, whatever Retry-After says.                   *)
(***************************************************************************)
THEOREM SubmissionTypes == SubmissionSpec => []SubmissionTypeOK
BY SubmissionInvariant, SubmissionInvImplies, PTL

(***************************************************************************)
(* What the caller wants once is carried out at most once, unless it is a  *)
(* rash order: timeouts, lost connections, late arrivals and the retries   *)
(* of any policies change nothing, for any number of tasks and orders and  *)
(* any statuses the exchange answers with.                                 *)
(***************************************************************************)
THEOREM OrdersAreAppliedOnce == SubmissionSpec => []AppliedOnce
BY SubmissionInvariant, SubmissionInvImplies, PTL

(***************************************************************************)
(* A caller who is told that an order without a name of its own is refused *)
(* may rely on it, if its policy retries nothing that may have placed it:  *)
(* nothing was placed and nothing is on its way.                           *)
(***************************************************************************)
THEOREM RefusalsAreFinal == SubmissionSpec => []RefusedIsNotApplied
BY SubmissionInvariant, SubmissionInvImplies, PTL

-----------------------------------------------------------------------------
(* The promise of OrderOutcome. *)

\* A task that is in no call, or asks for rules on its own account.
Idle(t) ==
    \/ pc[t] \in {"idle", "given"}
    \/ pc[t] \in Inside /\ after[t] = "given"

\* Such a task has no intent, so that what it takes up replaces none.
IdleIsFree == \A t \in Task : Idle(t) => intent[t] = NoIntent

\* Steps of a task leave the others where they are.
OneActs(t) == \A u \in Task \ {t} : pc'[u] = pc[u] /\ after'[u] = after[u]

LEMMA AskActs ==
    ASSUME RulesInv, NEW t \in Task, NEW s, NEW again \in BOOLEAN,
           NEW where \in {"given", "checking"}, Ask(t, s, again, where)
    PROVE  OneActs(t) /\ (where = "checking" => ~Idle(t)')
<1>1. /\ after'[t] = where
      /\ \A u \in Task \ {t} : after'[u] = after[u]
      /\ pc \in [Task -> Inside \cup Outside]
  BY DEF Ask, RulesInv, RulesPlaces
<1>2. \/ pc' = [pc EXCEPT ![t] = after'[t]]
      \/ pc' = [pc EXCEPT ![t] = "asking"]
      \/ pc' = [pc EXCEPT ![t] = "waiting"]
  BY DEF Ask, Locked, Give
<1> QED
  BY <1>1, <1>2 DEF OneActs, Idle

LEMMA RulesStepActs ==
    ASSUME RulesInv, NEW t \in Task, RulesStep(t) \/ RulesFail(t)
    PROVE  OneActs(t) /\ (Idle(t)' => Idle(t))
<1>1. /\ pc \in [Task -> Inside \cup Outside]
      /\ after \in [Task -> {"idle", "given", "checking"}]
      /\ pc[t] \in Inside => after[t] # "idle"
  BY DEF RulesInv, RulesPlaces, CallIsOrdered
<1>2. CASE Granted(t)
  BY <1>1, <1>2 DEF Granted, Locked, Give, call, OneActs, Idle
<1>3. CASE RulesAnswered(t)
  BY <1>1, <1>3 DEF RulesAnswered, call, OneActs, Idle
<1>4. CASE RulesFetched(t)
  BY <1>1, <1>4 DEF RulesFetched, Give, call, OneActs, Idle
<1>5. CASE Used(t)
  BY <1>1, <1>5 DEF Used, Leave, OneActs, Idle
<1>6. CASE RulesFail(t)
  BY <1>1, <1>6 DEF RulesFail, Leave, OneActs, Idle
<1> QED
  BY <1>2, <1>3, <1>4, <1>5, <1>6 DEF RulesStep

LEMMA StartActs ==
    ASSUME RulesInv, NEW t \in Task, NEW i, Start(t, i)
    PROVE  OneActs(t) /\ ~Idle(t)'
<1>1. CASE StartCreate(t, i)
  BY <1>1, AskActs DEF StartCreate
<1>2. CASE StartCancel(t)
  BY <1>2 DEF StartCancel, call, OneActs, Idle, RulesInv, RulesPlaces
<1> QED
  BY <1>1, <1>2 DEF Start

\* A call that ends gives its intent back, and one that pauses keeps it.
LEMMA RaiseActs ==
    ASSUME RulesInv, PolicyInv, NEW t \in Task,
           \/ \E outcome : Finish(t, outcome)
           \/ \E error, retryAfter : Raise(t, error, retryAfter)
    PROVE  /\ OneActs(t)
           /\ \A u \in Task \ {t} : intent'[u] = intent[u]
           /\ Idle(t)' => intent'[t] = NoIntent
<1>1. /\ pc \in [Task -> Inside \cup Outside]
      /\ after \in [Task -> {"idle", "given", "checking"}]
      /\ intent \in [Task -> Intent \cup {NoIntent}]
  BY DEF RulesInv, RulesPlaces, PolicyInv, PolicyTypes
<1>2. ASSUME NEW outcome, Finish(t, outcome)
      PROVE  /\ OneActs(t)
             /\ \A u \in Task \ {t} : intent'[u] = intent[u]
             /\ Idle(t)' => intent'[t] = NoIntent
  BY <1>1, <1>2 DEF Finish, Leave, OneActs
<1>3. ASSUME Leave(t, "pausing"), UNCHANGED intent
      PROVE  OneActs(t) /\ ~Idle(t)'
  BY <1>1, <1>3 DEF Leave, OneActs, Idle
<1> QED
  BY <1>2, <1>3 DEF Raise

LEMMA SubmissionKeepsFree ==
    ASSUME RulesInv, PolicyInv, IdleIsFree, [SubmissionNext]_submissionVars
    PROVE  IdleIsFree'
<1>0. /\ pc \in [Task -> Inside \cup Outside]
      /\ after \in [Task -> {"idle", "given", "checking"}]
      /\ intent \in [Task -> Intent \cup {NoIntent}]
  BY DEF RulesInv, RulesPlaces, PolicyInv, PolicyTypes
<1>1. ASSUME NEW t \in Task, OneActs(t), UNCHANGED intent, Idle(t)' => Idle(t)
      PROVE  IdleIsFree'
  <2>1. \A u \in Task \ {t} : Idle(u)' => Idle(u)
    BY <1>1 DEF OneActs, Idle
  <2> QED
    BY <1>1, <2>1 DEF IdleIsFree
<1>2. CASE UNCHANGED <<pc, call, policy>>
  BY <1>2 DEF IdleIsFree, Idle, call, policy
<1>3. ASSUME NEW t \in Task, NEW s \in Symbol, SymbolInfo(t, s, TRUE), UNCHANGED policy
      PROVE  IdleIsFree'
  BY <1>1, <1>3, AskActs DEF SymbolInfo, Idle, policy
<1>4. ASSUME NEW t \in Task, RulesStep(t) \/ RulesFail(t), UNCHANGED policy
      PROVE  IdleIsFree'
  BY <1>1, <1>4, RulesStepActs DEF policy
<1>5. ASSUME NEW t \in Task, NEW i \in Intent, Submit(t, i)
      PROVE  IdleIsFree'
  <2>1. OneActs(t) /\ ~Idle(t)' /\ intent' = [intent EXCEPT ![t] = i]
    BY <1>5, StartActs DEF Submit
  <2> QED
    BY <1>0, <2>1 DEF IdleIsFree, Idle, OneActs
<1>6. ASSUME NEW t \in Task, PauseOver(t)
      PROVE  IdleIsFree'
  BY <1>1, <1>6, StartActs DEF PauseOver
<1>7. ASSUME NEW t \in Task,
             \/ \E outcome : Finish(t, outcome)
             \/ \E error, retryAfter : Raise(t, error, retryAfter)
      PROVE  IdleIsFree'
  <2>1. /\ OneActs(t)
        /\ \A u \in Task \ {t} : intent'[u] = intent[u]
        /\ Idle(t)' => intent'[t] = NoIntent
    BY <1>7, RaiseActs
  <2> QED
    BY <2>1 DEF IdleIsFree, Idle, OneActs
<1>8. ASSUME NEW t \in Task, RulesError(t) \/ Answered(t) \/ GivesUp(t)
      PROVE  IdleIsFree'
  BY <1>7, <1>8 DEF RulesError, Answered, GivesUp
<1>9. ASSUME NEW t \in Task, Checked(t) \/ Post(t)
      PROVE  IdleIsFree'
  <2>1. CASE pc' = [pc EXCEPT ![t] = "ready"] /\ UNCHANGED <<call, policy>>
    BY <1>0, <1>1, <2>1 DEF OneActs, Idle, call, policy
  <2>2. CASE Leave(t, "posting") /\ UNCHANGED policy
    BY <1>0, <1>1, <2>2 DEF Leave, OneActs, Idle, policy
  <2> QED
    BY <1>7, <1>9, <2>1, <2>2 DEF Checked, Post
<1>10. ASSUME NEW i \in Intent, ArrivesLate(i) \/ QueryOrder(i)
       PROVE  IdleIsFree'
  BY <1>2, <1>10 DEF ArrivesLate, QueryOrder, vars
<1> QED
  BY <1>2, <1>3, <1>4, <1>5, <1>6, <1>8, <1>9, <1>10
  DEF SubmissionNext, SubmissionStep, submissionVars, vars, Publish, Clear

\* The call of a task ends with an answer to its caller.
Ends(t) ==
    /\ \E answer \in {"done", "refused", "failed", "unknown"} :
          told' = [told EXCEPT ![intent[t]] = answer]
    /\ intent' = [intent EXCEPT ![t] = NoIntent]

\* What a submission is, seen from the outside: a caller takes an intent up,
Begins(t, i) ==
    /\ told[i] \in {"nothing", "absent"}
    /\ intent[t] = NoIntent
    /\ \A u \in Task : intent[u] # i
    /\ intent' = [intent EXCEPT ![t] = i]
    /\ UNCHANGED <<applied, late, told>>

\* a task works on it, and the exchange with it or behind its back,
Works(t) ==
    /\ intent[t] \in Intent
    /\ Carry(intent[t]) \/ UNCHANGED applied
    /\ \A j \in Intent \ {intent[t]} : late'[j] = late[j]
    /\ Ends(t) \/ UNCHANGED <<intent, told>>

\* a request that was given up arrives,
Arrives(i) ==
    /\ late[i] > 0
    /\ Carry(i)
    /\ \A j \in Intent \ {i} : late'[j] = late[j]
    /\ UNCHANGED <<intent, told>>

\* or nothing happens that the caller or the exchange would notice.
Quiet == UNCHANGED <<intent, applied, late, told>>

\* Whatever an error does, it ends the call or pauses it.
LEMMA RaiseEnds ==
    ASSUME NEW t \in Task, NEW error, NEW retryAfter, Raise(t, error, retryAfter)
    PROVE  Ends(t) \/ UNCHANGED <<intent, told>>
<1>1. CASE Finish(t, Outcome(error.code))
  <2>1. Outcome(error.code) \in {"done", "refused", "failed", "unknown"}
    BY DEF Outcome
  <2> QED
    BY <1>1, <2>1 DEF Finish, Ends
<1>2. CASE UNCHANGED <<intent, told>>
  BY <1>2
<1> QED
  BY <1>1, <1>2 DEF Raise

\* A task without an intent has nothing to work on.
LEMMA WorkIsNoticed ==
    ASSUME PolicyInv, ExchangeInv, NEW t \in Task,
           Carry(intent[t]) \/ UNCHANGED applied,
           late' = late \/ late' = [late EXCEPT ![intent[t]] = @ + 1],
           Ends(t) \/ UNCHANGED <<intent, told>>
    PROVE  Works(t) \/ Quiet
<1>1. /\ intent \in [Task -> Intent \cup {NoIntent}]
      /\ told \in [Intent -> Known]
      /\ applied \in [Intent -> Nat]
      /\ late \in [Intent -> Nat]
  BY DEF PolicyInv, PolicyTypes, ExchangeInv, ExchangeTypes
<1>2. CASE intent[t] \in Intent
  BY <1>1, <1>2 DEF Works
<1>3. CASE intent[t] \notin Intent
  <2>1. late' = late
    BY <1>1, <1>3
  <2>2. applied' = applied
    <3>1. CASE Carry(intent[t])
      <4>1. applied' \in [Intent -> Nat] /\ \A j \in Intent : applied'[j] = applied[j]
        BY <1>3, <3>1, CarryCounts DEF ExchangeInv
      <4> QED
        BY <1>1, <4>1
    <3> QED
      BY <3>1
  <2>3. intent' = intent /\ told' = told
    <3>1. CASE Ends(t)
      <4>1. intent[t] = NoIntent
        BY <1>1, <1>3
      <4> QED
        BY <1>1, <1>3, <3>1, <4>1 DEF Ends
    <3> QED
      BY <3>1
  <2> QED
    BY <2>1, <2>2, <2>3 DEF Quiet
<1> QED
  BY <1>2, <1>3

\* Every step of a submission is one of these.
LEMMA SubmissionEffect ==
    ASSUME RulesInv, PolicyInv, ExchangeInv, IdleIsFree, [SubmissionNext]_submissionVars
    PROVE  \/ Quiet
           \/ \E t \in Task, i \in Intent : Begins(t, i)
           \/ \E t \in Task : Works(t)
           \/ \E i \in Intent : Arrives(i) \/ QueryOrder(i)
<1>1. CASE UNCHANGED <<policy, exchange, told>>
  BY <1>1 DEF Quiet, policy, exchange
<1>2. ASSUME NEW t \in Task, NEW i \in Intent, Submit(t, i)
      PROVE  Begins(t, i) \/ Works(t) \/ Quiet
  BY <1>2 DEF Submit, Begins, IdleIsFree, Idle, exchange
<1>3. ASSUME NEW t \in Task, NEW error, NEW retryAfter, Raise(t, error, retryAfter),
             UNCHANGED exchange
      PROVE  Works(t) \/ Quiet
  BY <1>3, RaiseEnds, WorkIsNoticed DEF exchange
<1>4. ASSUME NEW t \in Task, RulesError(t) \/ Checked(t) \/ Post(t)
      PROVE  Works(t) \/ Quiet
  BY <1>1, <1>3, <1>4 DEF RulesError, Checked, Post, Quiet, policy, exchange
<1>5. ASSUME NEW t \in Task, Answered(t)
      PROVE  Works(t) \/ Quiet
  <2>1. Carry(intent[t]) \/ UNCHANGED applied
    BY <1>5 DEF Answered
  <2>2. Ends(t) \/ UNCHANGED <<intent, told>>
    <3>1. CASE Finish(t, "done")
      BY <3>1 DEF Finish, Ends
    <3> QED
      BY <1>5, <3>1, RaiseEnds DEF Answered
  <2> QED
    BY <1>5, <2>1, <2>2, WorkIsNoticed DEF Answered
<1>6. ASSUME NEW t \in Task, GivesUp(t)
      PROVE  Works(t) \/ Quiet
  BY <1>6, RaiseEnds, WorkIsNoticed DEF GivesUp
<1>7. ASSUME NEW t \in Task, PauseOver(t)
      PROVE  Quiet
  BY <1>7 DEF PauseOver, Quiet, exchange
<1>8. ASSUME NEW i \in Intent, ArrivesLate(i)
      PROVE  Arrives(i)
  BY <1>8 DEF ArrivesLate, Arrives, policy, ExchangeInv, ExchangeTypes
<1>9. CASE UNCHANGED submissionVars
  BY <1>9 DEF Quiet, submissionVars, policy, exchange
<1> QED
  BY <1>1, <1>2, <1>4, <1>5, <1>6, <1>7, <1>8, <1>9 DEF SubmissionNext, SubmissionStep

(***************************************************************************)
(* What the refinement needs beside the types and the fates: idle tasks    *)
(* have no intent, a task that works on an intent has not answered for it  *)
(* yet, and what is still on its way was asked for.                        *)
(***************************************************************************)
CallsAreOpen ==
    \A t \in Task : intent[t] \in Intent => told[intent[t]] \in {"nothing", "absent"}

LateIsWanted == \A i \in Intent : late[i] > 0 => i \in Begun

OutcomeInv == IdleIsFree /\ CallsAreOpen /\ LateIsWanted

\* What a call that ends does to the intents, its own and the others.
LEMMA EndsIntents ==
    ASSUME PolicyInv, ExchangeInv, NEW t \in Task, intent[t] \in Intent, Ends(t)
    PROVE  /\ told'[intent[t]] \in {"done", "refused", "failed", "unknown"}
           /\ \A j \in Intent \ {intent[t]} : told'[j] = told[j]
           /\ \A u \in Task : intent'[u] = IF u = t THEN NoIntent ELSE intent[u]
           /\ \A u \in Task \ {t} : intent[u] # intent[t]
<1>1. \A u \in Task \ {t} : intent[u] # intent[t]
  BY SubmissionAssumption DEF ExchangeInv, OneOwner, Intent
<1> QED
  BY <1>1 DEF Ends, PolicyInv, PolicyTypes

\* Only a caller who takes an intent up changes what is wanted.
LEMMA BegunIsKept ==
    ASSUME PolicyInv, ExchangeInv
    PROVE  /\ \A t \in Task : Works(t) => Begun' = Begun
           /\ \A i \in Intent : Arrives(i) \/ QueryOrder(i) => Begun' = Begun
           /\ \A t \in Task, i \in Intent : Begins(t, i) => Begun' = Begun \cup {i}
           /\ Quiet => Begun' = Begun
<1>0. /\ intent \in [Task -> Intent \cup {NoIntent}]
      /\ told \in [Intent -> Known]
      /\ NoIntent \notin Intent
  BY SubmissionAssumption DEF PolicyInv, PolicyTypes, Intent
<1>1. ASSUME NEW t \in Task, Works(t)
      PROVE  Begun' = Begun
  <2>1. CASE Ends(t)
    <3>1. /\ told'[intent[t]] # "nothing"
          /\ \A j \in Intent \ {intent[t]} : told'[j] = told[j]
          /\ \A u \in Task : intent'[u] = IF u = t THEN NoIntent ELSE intent[u]
      BY <1>1, <2>1, EndsIntents DEF Works
    <3>2. ASSUME NEW j \in Intent
          PROVE  j \in Begun' <=> j \in Begun
      BY <1>0, <1>1, <3>1 DEF Begun, Works
    <3> QED
      BY <3>2 DEF Begun
  <2>2. CASE UNCHANGED <<intent, told>>
    BY <2>2 DEF Begun
  <2> QED
    BY <1>1, <2>1, <2>2 DEF Works
<1>2. ASSUME NEW i \in Intent, Arrives(i)
      PROVE  Begun' = Begun
  BY <1>2 DEF Arrives, Begun
<1>3. ASSUME NEW i \in Intent, QueryOrder(i)
      PROVE  Begun' = Begun
  BY <1>0, <1>3 DEF QueryOrder, Begun, policy
<1>4. ASSUME NEW t \in Task, NEW i \in Intent, Begins(t, i)
      PROVE  Begun' = Begun \cup {i}
  <2>1. \A u \in Task : intent'[u] = IF u = t THEN i ELSE intent[u]
    BY <1>0, <1>4 DEF Begins
  <2>2. ASSUME NEW j \in Intent
        PROVE  j \in Begun' <=> j \in Begun \cup {i}
    BY <1>0, <1>4, <2>1 DEF Begins, Begun
  <2> QED
    BY <2>2 DEF Begun
<1>5. Quiet => Begun' = Begun
  BY DEF Quiet, Begun
<1> QED
  BY <1>1, <1>2, <1>3, <1>4, <1>5

LEMMA SubmissionKeepsOutcomes ==
    ASSUME RulesInv, PolicyInv, ExchangeInv, OutcomeInv, [SubmissionNext]_submissionVars
    PROVE  OutcomeInv'
<1>0. /\ intent \in [Task -> Intent \cup {NoIntent}]
      /\ told \in [Intent -> Known]
      /\ NoIntent \notin Intent
      /\ late \in [Intent -> Nat]
  BY SubmissionAssumption DEF PolicyInv, PolicyTypes, Intent, ExchangeInv, ExchangeTypes
<1>1. Quiet => (CallsAreOpen /\ LateIsWanted)'
  BY DEF Quiet, OutcomeInv, CallsAreOpen, LateIsWanted, Begun
<1>2. ASSUME NEW t \in Task, NEW i \in Intent, Begins(t, i)
      PROVE  (CallsAreOpen /\ LateIsWanted)'
  <2>1. CallsAreOpen'
    BY <1>0, <1>2 DEF Begins, OutcomeInv, CallsAreOpen
  <2>2. LateIsWanted'
    BY <1>2, BegunIsKept DEF Begins, OutcomeInv, LateIsWanted
  <2> QED
    BY <2>1, <2>2
<1>3. ASSUME NEW t \in Task, Works(t)
      PROVE  (CallsAreOpen /\ LateIsWanted)'
  <2>1. CallsAreOpen'
    <3>1. CASE Ends(t)
      BY <1>0, <1>3, <3>1, EndsIntents DEF Works, OutcomeInv, CallsAreOpen
    <3>2. CASE UNCHANGED <<intent, told>>
      BY <3>2 DEF OutcomeInv, CallsAreOpen
    <3> QED
      BY <1>3, <3>1, <3>2 DEF Works
  <2>2. intent[t] \in Begun
    BY <1>3 DEF Works, Begun
  <2>3. Begun' = Begun
    BY <1>3, BegunIsKept
  <2> QED
    BY <1>3, <2>1, <2>2, <2>3 DEF Works, OutcomeInv, LateIsWanted
<1>4. ASSUME NEW i \in Intent, Arrives(i)
      PROVE  (CallsAreOpen /\ LateIsWanted)'
  <2>1. i \in Begun /\ Begun' = Begun
    BY <1>4, BegunIsKept DEF Arrives, OutcomeInv, LateIsWanted
  <2> QED
    BY <1>4, <2>1 DEF Arrives, OutcomeInv, CallsAreOpen, LateIsWanted
<1>5. ASSUME NEW i \in Intent, QueryOrder(i)
      PROVE  (CallsAreOpen /\ LateIsWanted)'
  <2>1. Begun' = Begun
    BY <1>5, BegunIsKept
  <2>2. UNCHANGED <<intent, late>> /\ told[i] = "unknown"
    BY <1>5 DEF QueryOrder, policy, exchange
  <2>3. \A j \in Intent \ {i} : told'[j] = told[j]
    BY <1>0, <1>5 DEF QueryOrder
  <2>4. \A t \in Task : intent[t] # i
    BY <2>2 DEF OutcomeInv, CallsAreOpen
  <2> QED
    BY <2>1, <2>2, <2>3, <2>4 DEF OutcomeInv, CallsAreOpen, LateIsWanted
<1>6. IdleIsFree'
  BY SubmissionKeepsFree DEF OutcomeInv
<1> QED
  BY <1>1, <1>2, <1>3, <1>4, <1>5, <1>6, SubmissionEffect DEF OutcomeInv

LEMMA OutcomeInvariant ==
    SubmissionSpec => [](RulesInv /\ PolicyInv /\ ExchangeInv /\ OutcomeInv)
<1>1. SubmissionInit => OutcomeInv
  BY SubmissionAssumption
  DEF SubmissionInit, OutcomeInv, IdleIsFree, CallsAreOpen, LateIsWanted, Intent
<1>2. RulesInv /\ PolicyInv /\ ExchangeInv /\ OutcomeInv /\ [SubmissionNext]_submissionVars
         => OutcomeInv'
  BY SubmissionKeepsOutcomes
<1> QED
  BY <1>1, <1>2, SubmissionInvariant, PTL DEF SubmissionSpec

\* What Carry does, once it is known what is carried out twice.
LEMMA CarryApplies ==
    ASSUME ExchangeInv, AppliedOnce', NEW i \in Intent, Carry(i) \/ UNCHANGED applied
    PROVE  Outcomes!Apply(i) \/ UNCHANGED applied
<1>1. CASE Carry(i) /\ ~Duplicate(i)
  <2>1. applied' = [applied EXCEPT ![i] = @ + 1]
    BY <1>1 DEF Carry
  <2>2. applied \in [Intent -> Nat]
    BY DEF ExchangeInv, ExchangeTypes
  <2>3. i \notin Rash => applied[i] + 1 <= 1
    BY <2>1, <2>2 DEF AppliedOnce
  <2>4. i \in Rash \/ applied[i] = 0
    BY <2>2, <2>3
  <2> QED
    BY <2>1, <2>2, <2>4 DEF Outcomes!Apply
<1> QED
  BY <1>1 DEF Carry

(***************************************************************************)
(* Submissions implement OrderOutcome, for any tasks, orders, policies and *)
(* answers of the exchange: at each step at most one order is carried out  *)
(* and its caller told, once, and no answer is taken back or belied.       *)
(***************************************************************************)
THEOREM SubmissionsKeepTheirPromise == SubmissionSpec => OutcomeImplemented
<1>1. SubmissionInit => Outcomes!Init
  BY SubmissionAssumption DEF SubmissionInit, Outcomes!Init, Begun, Intent
<1>2. RulesInv /\ PolicyInv /\ ExchangeInv /\ OutcomeInv /\ AppliedOnce' /\ RefusedIsNotApplied'
         /\ [SubmissionNext]_submissionVars => [Outcomes!Next]_(Outcomes!outcome)
  <2> SUFFICES ASSUME RulesInv, PolicyInv, ExchangeInv, OutcomeInv,
                      AppliedOnce', RefusedIsNotApplied', [SubmissionNext]_submissionVars
               PROVE  Outcomes!Next \/ UNCHANGED <<Begun, applied, told>>
    BY DEF Outcomes!outcome
  <2>0. /\ intent \in [Task -> Intent \cup {NoIntent}]
        /\ told \in [Intent -> Known]
        /\ applied \in [Intent -> Nat]
    BY DEF PolicyInv, PolicyTypes, ExchangeInv, ExchangeTypes
  <2>1. ASSUME NEW i \in Intent, i \in Begun, Begun' = Begun,
               Carry(i) \/ UNCHANGED applied,
               Outcomes!Tell(i) \/ UNCHANGED told
        PROVE  Outcomes!Attempt(i)
    <3>1. i \in (Create \ Named) \ Rash /\ told'[i] = "refused" => applied'[i] = 0
      BY DEF RefusedIsNotApplied
    <3> QED
      BY <2>1, <3>1, CarryApplies DEF Outcomes!Attempt
  <2>2. CASE Quiet
    BY <2>2, BegunIsKept DEF Quiet
  <2>3. ASSUME NEW t \in Task, NEW i \in Intent, Begins(t, i)
        PROVE  Outcomes!Want(i)
    BY <2>3, BegunIsKept DEF Begins, Outcomes!Want
  <2>4. ASSUME NEW t \in Task, Works(t)
        PROVE  \E i \in Intent : Outcomes!Attempt(i)
    <3>1. intent[t] \in Intent /\ intent[t] \in Begun /\ Begun' = Begun
      BY <2>4, BegunIsKept DEF Works, Begun
    <3>2. Outcomes!Tell(intent[t]) \/ UNCHANGED told
      BY <2>4, <3>1 DEF Works, Ends, Outcomes!Tell, OutcomeInv, CallsAreOpen
    <3> QED
      BY <2>1, <2>4, <3>1, <3>2 DEF Works
  <2>5. ASSUME NEW i \in Intent, Arrives(i)
        PROVE  Outcomes!Attempt(i)
    BY <2>1, <2>5, BegunIsKept DEF Arrives, OutcomeInv, LateIsWanted
  <2>6. ASSUME NEW i \in Intent, QueryOrder(i)
        PROVE  Outcomes!LookUp(i)
    <3>1. i \notin Create \ Named
      BY <2>6, SubmissionAssumption DEF QueryOrder
    <3>2. applied' = applied /\ Begun' = Begun
      BY <2>6, BegunIsKept DEF QueryOrder, exchange
    <3>3. applied[i] > 0 <=> applied[i] # 0
      BY <2>0
    <3> QED
      BY <2>6, <3>1, <3>2, <3>3 DEF QueryOrder, Outcomes!LookUp
  <2> QED
    BY <2>2, <2>3, <2>4, <2>5, <2>6, SubmissionEffect DEF Outcomes!Next, OutcomeInv
<1> QED
  BY <1>1, <1>2, OutcomeInvariant, OrdersAreAppliedOnce, RefusalsAreFinal, PTL
  DEF SubmissionSpec, OutcomeImplemented, Outcomes!Spec

-----------------------------------------------------------------------------
(* The requests of an order without an id of its caller: one an attempt. *)

Requests(i) == applied[i] + late[i]

\* Requests that the attempts of a task may have sent, but for the one that may
\* be on its way.
Spent(t) == IF pc[t] = "pausing" THEN attempt[t] ELSE attempt[t] - 1

BudgetIsKept(i) ==
    /\ Requests(i) <= MaxAttempts
    /\ told[i] # "absent"
    /\ told[i] = "nothing" /\ (\A t \in Task : intent[t] # i) => Requests(i) = 0
    /\ \A t \in Task : intent[t] = i => told[i] = "nothing" /\ Requests(i) <= Spent(t)

BudgetInv ==
    /\ \A t \in Task : intent[t] = NoIntent => attempt[t] = 1
    /\ \A i \in Create \ Named : BudgetIsKept(i)

\* The numbers and sets these lemmas compare.
LEMMA BudgetTypes ==
    ASSUME PolicyInv, ExchangeInv
    PROVE  /\ MaxAttempts \in Nat
           /\ \A i \in Create \ Named : i \in Intent /\ i # NoIntent /\ Requests(i) \in Nat
           /\ \A t \in Task : attempt[t] \in 1..MaxAttempts /\ Spent(t) \in Nat
<1>1. MaxAttempts \in Nat
  BY PolicyAssumption
<1>2. ASSUME NEW i \in Create \ Named
      PROVE  i \in Intent /\ i # NoIntent /\ Requests(i) \in Nat
  BY SubmissionAssumption DEF Intent, ExchangeInv, ExchangeTypes, Requests
<1>3. ASSUME NEW t \in Task PROVE attempt[t] \in 1..MaxAttempts /\ Spent(t) \in Nat
  <2>1. attempt[t] \in 1..MaxAttempts
    BY DEF PolicyInv, PolicyTypes
  <2> QED
    BY <1>1, <2>1 DEF Spent
<1> QED
  BY <1>1, <1>2, <1>3

\* An order of which no more is sent, in a call that does not end.
LEMMA BudgetStays ==
    ASSUME PolicyInv, ExchangeInv, PolicyInv', ExchangeInv',
           NEW i \in Create \ Named, BudgetIsKept(i),
           Requests(i)' <= Requests(i), told'[i] = told[i],
           \A t \in Task : intent'[t] = i <=> intent[t] = i,
           \A t \in Task : intent[t] = i => Spent(t)' >= Spent(t)
    PROVE  BudgetIsKept(i)'
<1>1. /\ MaxAttempts \in Nat
      /\ Requests(i) \in Nat
      /\ Requests(i)' \in Nat
      /\ \A t \in Task : Spent(t) \in Nat /\ Spent(t)' \in Nat
  <2>1. Requests(i)' \in Nat
    BY SubmissionAssumption DEF Intent, ExchangeInv, ExchangeTypes, Requests
  <2>2. ASSUME NEW t \in Task PROVE Spent(t)' \in Nat
    <3>1. attempt'[t] \in 1..MaxAttempts
      BY DEF PolicyInv, PolicyTypes
    <3> QED
      BY <3>1 DEF Spent
  <2> QED
    BY <2>1, <2>2, BudgetTypes
<1>2. Requests(i)' <= MaxAttempts /\ told'[i] # "absent"
  BY <1>1 DEF BudgetIsKept
<1>3. told'[i] = "nothing" /\ (\A t \in Task : intent'[t] # i) => Requests(i)' = 0
  BY <1>1 DEF BudgetIsKept
<1>4. ASSUME NEW t \in Task, intent'[t] = i
      PROVE  told'[i] = "nothing" /\ Requests(i)' <= Spent(t)'
  <2>1. intent[t] = i /\ Requests(i) <= Spent(t) /\ told[i] = "nothing" /\ Spent(t)' >= Spent(t)
    BY <1>4 DEF BudgetIsKept
  <2> QED
    BY <1>1, <2>1
<1> QED
  BY <1>2, <1>3, <1>4 DEF BudgetIsKept

\* The call of an order ends, with one request more.
LEMMA BudgetEnds ==
    ASSUME PolicyInv, ExchangeInv, PolicyInv', ExchangeInv',
           NEW t \in Task, NEW outcome \in {"done", "refused", "failed", "unknown"},
           Finish(t, outcome), pc[t] # "pausing",
           NEW i \in Create \ Named, intent[t] = i, BudgetIsKept(i),
           Requests(i)' <= Requests(i) + 1
    PROVE  BudgetIsKept(i)'
<1>1. /\ MaxAttempts \in Nat
      /\ i \in Intent
      /\ i # NoIntent
      /\ Requests(i) \in Nat
      /\ attempt[t] \in 1..MaxAttempts
  BY BudgetTypes
<1>2. Requests(i) <= attempt[t] - 1
  BY DEF BudgetIsKept, Spent
<1>3. Requests(i)' \in Nat
  BY SubmissionAssumption DEF Intent, ExchangeInv, ExchangeTypes, Requests
<1>4. Requests(i)' <= MaxAttempts
  BY <1>1, <1>2, <1>3
<1>5. told'[i] = outcome
  BY <1>1 DEF Finish, PolicyInv, PolicyTypes
<1>6. \A u \in Task : intent'[u] # i
  BY <1>1 DEF Finish, PolicyInv, PolicyTypes, ExchangeInv, OneOwner
<1> QED
  BY <1>4, <1>5, <1>6 DEF BudgetIsKept

\* It pauses, with one request more.
LEMMA BudgetPauses ==
    ASSUME PolicyInv, ExchangeInv, PolicyInv', ExchangeInv',
           NEW t \in Task, pc[t] # "pausing", pc'[t] = "pausing",
           UNCHANGED <<intent, attempt, told>>,
           NEW i \in Create \ Named, intent[t] = i, BudgetIsKept(i),
           Requests(i)' <= Requests(i) + 1
    PROVE  BudgetIsKept(i)'
<1>1. /\ MaxAttempts \in Nat
      /\ i \in Intent
      /\ i # NoIntent
      /\ Requests(i) \in Nat
      /\ attempt[t] \in 1..MaxAttempts
  BY BudgetTypes
<1>2. Requests(i) <= attempt[t] - 1 /\ told[i] = "nothing"
  BY DEF BudgetIsKept, Spent
<1>3. Requests(i)' \in Nat
  BY SubmissionAssumption DEF Intent, ExchangeInv, ExchangeTypes, Requests
<1>4. Requests(i)' <= MaxAttempts /\ Requests(i)' <= attempt[t]
  BY <1>1, <1>2, <1>3
<1>5. \A u \in Task : intent[u] = i => u = t
  BY <1>1 DEF ExchangeInv, OneOwner
<1> QED
  BY <1>2, <1>4, <1>5 DEF BudgetIsKept, Spent

\* An error or a result, with one request more of the order of the call.
LEMMA OutcomeKeepsBudget ==
    ASSUME RulesInv, PolicyInv, ExchangeInv, PolicyInv', ExchangeInv', BudgetInv,
           NEW t \in Task, pc[t] # "pausing",
           \/ Finish(t, "done")
           \/ \E error, retryAfter : Raise(t, error, retryAfter),
           \A i \in (Create \ Named) \ {intent[t]} : Requests(i)' <= Requests(i),
           \A i \in Create \ Named : i = intent[t] => Requests(i)' <= Requests(i) + 1
    PROVE  BudgetInv'
<1>1. \/ \E outcome \in {"done", "refused", "failed", "unknown"} : Finish(t, outcome)
      \/ pc'[t] = "pausing" /\ UNCHANGED <<intent, attempt, told>>
  <2>1. ASSUME NEW error, Finish(t, Outcome(error.code))
        PROVE  \E outcome \in {"done", "refused", "failed", "unknown"} : Finish(t, outcome)
    BY <2>1 DEF Outcome
  <2> QED
    BY <2>1, RaiseMoves
<1>2. /\ \A u \in Task \ {t} : intent'[u] = intent[u] /\ attempt'[u] = attempt[u]
      /\ intent'[t] \in {intent[t], NoIntent}
      /\ intent'[t] = NoIntent => attempt'[t] = 1
      /\ \A i \in Intent \ {intent[t]} : told'[i] = told[i]
  BY <1>1 DEF Finish, PolicyInv, PolicyTypes, BudgetInv
<1>3. \A u \in Task \ {t} : pc'[u] = pc[u]
  BY RaiseMoves, FinishMoves
<1>4. ASSUME NEW u \in Task, intent'[u] = NoIntent PROVE attempt'[u] = 1
  BY <1>2, <1>4 DEF BudgetInv
<1>5. ASSUME NEW i \in Create \ Named PROVE BudgetIsKept(i)'
  <2>0. BudgetIsKept(i) /\ i \in Intent /\ i # NoIntent
    BY BudgetTypes DEF BudgetInv
  <2>1. CASE i = intent[t]
    BY <1>1, <2>0, <2>1, BudgetEnds, BudgetPauses
  <2>2. CASE i # intent[t]
    <3>1. \A u \in Task : intent'[u] = i <=> intent[u] = i
      BY <1>2, <2>0, <2>2
    <3>2. ASSUME NEW u \in Task, intent[u] = i PROVE Spent(u)' >= Spent(u)
      <4>1. u # t
        BY <2>2, <3>2
      <4>2. Spent(u)' = Spent(u) /\ Spent(u) \in Nat
        BY <1>2, <1>3, <4>1, BudgetTypes DEF Spent
      <4> QED
        BY <4>2
    <3> QED
      BY <1>2, <2>0, <2>2, <3>1, <3>2, BudgetStays
  <2> QED
    BY <2>1, <2>2
<1> QED
  BY <1>4, <1>5 DEF BudgetInv

\* A step that ends no call and sends nothing.
LEMMA MoveKeepsBudget ==
    ASSUME PolicyInv, ExchangeInv, PolicyInv', ExchangeInv', BudgetInv,
           UNCHANGED <<intent, attempt, applied, late, told>>,
           \A t \in Task : pc[t] # "pausing" \/ pc'[t] = "pausing"
    PROVE  BudgetInv'
<1>1. ASSUME NEW t \in Task PROVE Spent(t)' >= Spent(t)
  <2>1. attempt[t] \in Nat
    BY BudgetTypes
  <2> QED
    BY <2>1 DEF Spent
<1>2. ASSUME NEW i \in Create \ Named PROVE BudgetIsKept(i)'
  <2>1. Requests(i)' <= Requests(i)
    <3>1. Requests(i)' = Requests(i) /\ Requests(i) \in Nat
      BY BudgetTypes DEF Requests
    <3> QED
      BY <3>1
  <2> QED
    BY <1>1, <2>1, BudgetStays DEF BudgetInv
<1> QED
  BY <1>2 DEF BudgetInv

\* What becomes of a request that was on its way.
LEMMA RequestCounts ==
    ASSUME ExchangeInv, NEW i,
           \/ /\ Carry(i) \/ UNCHANGED applied
              /\ UNCHANGED late
           \/ late' = [late EXCEPT ![i] = @ + 1] /\ UNCHANGED applied
    PROVE  /\ \A j \in (Create \ Named) \ {i} : Requests(j)' <= Requests(j)
           /\ \A j \in Create \ Named : j = i => Requests(j)' <= Requests(j) + 1
<1>1. /\ applied \in [Intent -> Nat]
      /\ late \in [Intent -> Nat]
      /\ Create \ Named \subseteq Intent
  BY DEF ExchangeInv, ExchangeTypes, Intent
<1>2. CASE late' = [late EXCEPT ![i] = @ + 1] /\ UNCHANGED applied
  BY <1>1, <1>2 DEF Requests
<1>3. CASE Carry(i) /\ UNCHANGED late
  <2>1. /\ \A j \in Intent \ {i} : applied'[j] = applied[j]
        /\ i \in Intent => applied'[i] \in {applied[i], applied[i] + 1}
    BY <1>3, CarryCounts DEF ExchangeInv
  <2> QED
    BY <1>1, <1>3, <2>1 DEF Requests
<1>4. CASE UNCHANGED <<applied, late>>
  BY <1>1, <1>4 DEF Requests
<1> QED
  BY <1>2, <1>3, <1>4

LEMMA SubmissionKeepsBudget ==
    ASSUME RulesInv, PolicyInv, ExchangeInv, OutcomeInv, PolicyInv', ExchangeInv',
           BudgetInv, [SubmissionNext]_submissionVars
    PROVE  BudgetInv'
<1>1. ASSUME NEW t \in Task, pc[t] # "pausing", \A u \in Task \ {t} : pc'[u] = pc[u],
             UNCHANGED <<policy, exchange, told>>
      PROVE  BudgetInv'
  BY <1>1, MoveKeepsBudget DEF policy, exchange
<1>2. CASE UNCHANGED <<pc, policy, exchange, told>>
  BY <1>2, MoveKeepsBudget DEF policy, exchange
<1>3. ASSUME NEW t \in Task, NEW s \in Symbol, SymbolInfo(t, s, TRUE),
             UNCHANGED <<policy, exchange, told>>
      PROVE  BudgetInv'
  BY <1>1, <1>3, AskMoves DEF SymbolInfo, OneMoves
<1>4. ASSUME NEW t \in Task, RulesStep(t) \/ RulesFail(t), UNCHANGED <<policy, exchange, told>>
      PROVE  BudgetInv'
  <2>1. pc[t] # "pausing"
    BY <1>4 DEF RulesStep, Granted, RulesAnswered, RulesFetched, Used, RulesFail
  <2> QED
    BY <1>1, <1>4, <2>1, RulesStepMoves DEF OneMoves
<1>5. ASSUME NEW t \in Task, NEW error, NEW retryAfter, Raise(t, error, retryAfter),
             pc[t] # "pausing", UNCHANGED exchange
      PROVE  BudgetInv'
  <2>1. \A i \in Create \ Named : Requests(i)' <= Requests(i) /\ Requests(i)' <= Requests(i) + 1
    <3>1. \A i \in Create \ Named : Requests(i)' = Requests(i) /\ Requests(i) \in Nat
      BY <1>5, BudgetTypes DEF Requests, exchange
    <3> QED
      BY <3>1
  <2> QED
    BY <1>5, <2>1, OutcomeKeepsBudget
<1>6. ASSUME NEW t \in Task, RulesError(t) \/ Checked(t) \/ Post(t)
      PROVE  BudgetInv'
  <2>1. pc[t] # "pausing"
    BY <1>6 DEF RulesError, Checked, Post
  <2>2. CASE pc' = [pc EXCEPT ![t] = "ready"] /\ UNCHANGED <<policy, exchange, told>>
    BY <1>1, <2>1, <2>2 DEF RulesInv, RulesPlaces
  <2>3. CASE Leave(t, "posting") /\ UNCHANGED <<policy, exchange, told>>
    BY <1>1, <2>1, <2>3 DEF Leave, RulesInv, RulesPlaces
  <2> QED
    BY <1>5, <1>6, <2>1, <2>2, <2>3 DEF RulesError, Checked, Post
<1>7. ASSUME NEW t \in Task, Answered(t) \/ GivesUp(t)
      PROVE  BudgetInv'
  <2>1. /\ pc[t] # "pausing"
        /\ \/ Finish(t, "done")
           \/ \E error, retryAfter : Raise(t, error, retryAfter)
    BY <1>7 DEF Answered, GivesUp
  <2>2. \/ /\ Carry(intent[t]) \/ UNCHANGED applied
           /\ UNCHANGED late
        \/ late' = [late EXCEPT ![intent[t]] = @ + 1] /\ UNCHANGED applied
    BY <1>7 DEF Answered, GivesUp
  <2> QED
    BY <2>1, <2>2, RequestCounts, OutcomeKeepsBudget
<1>8. ASSUME NEW t \in Task, NEW i \in Intent, Submit(t, i)
      PROVE  BudgetInv'
  <2>1. /\ intent[t] = NoIntent
        /\ \A u \in Task : intent'[u] = IF u = t THEN i ELSE intent[u]
        /\ \A u \in Task : intent[u] # i
        /\ UNCHANGED <<attempt, applied, late, told>>
        /\ told[i] \in {"nothing", "absent"}
    BY <1>8 DEF Submit, exchange, PolicyInv, PolicyTypes, OutcomeInv, IdleIsFree, Idle
  <2>2. pc'[t] # "pausing" /\ \A u \in Task \ {t} : pc'[u] = pc[u]
    BY <1>8, StartMoves DEF Submit, OneMoves, RulesInv, RulesPlaces
  <2>3. ASSUME NEW j \in Create \ Named PROVE BudgetIsKept(j)'
    <3>0. BudgetIsKept(j) /\ Requests(j)' = Requests(j) /\ Requests(j) \in Nat /\ j # NoIntent
      BY <2>1, BudgetTypes DEF BudgetInv, Requests
    <3>1. CASE j # i
      <4>1. \A u \in Task : intent'[u] = j <=> intent[u] = j
        BY <2>1, <3>0, <3>1
      <4>2. ASSUME NEW u \in Task, intent[u] = j PROVE Spent(u)' >= Spent(u)
        <5>1. u # t
          BY <2>1, <3>0, <4>2
        <5>2. Spent(u)' = Spent(u) /\ Spent(u) \in Nat
          BY <2>1, <2>2, <5>1, BudgetTypes DEF Spent
        <5> QED
          BY <5>2
      <4> QED
        BY <2>1, <3>0, <4>1, <4>2, BudgetStays
    <3>2. CASE j = i
      <4>1. told[i] = "nothing" /\ Requests(i) = 0
        BY <2>1, <3>0, <3>2 DEF BudgetIsKept
      <4>2. Spent(t)' = 0
        BY <2>1, <2>2 DEF Spent, BudgetInv
      <4>3. MaxAttempts \in Nat
        BY PolicyAssumption
      <4>4. \A u \in Task : intent'[u] = i => u = t
        BY <2>1
      <4> QED
        BY <2>1, <3>0, <3>2, <4>1, <4>2, <4>3, <4>4 DEF BudgetIsKept
    <3> QED
      BY <3>1, <3>2
  <2>4. \A u \in Task : intent'[u] = NoIntent => attempt'[u] = 1
    BY <2>1, SubmissionAssumption DEF BudgetInv, Intent
  <2> QED
    BY <2>3, <2>4 DEF BudgetInv
<1>9. ASSUME NEW t \in Task, PauseOver(t)
      PROVE  BudgetInv'
  <2>1. /\ intent[t] \in Intent
        /\ pc[t] = "pausing"
        /\ attempt'[t] = attempt[t] + 1
        /\ \A u \in Task \ {t} : attempt'[u] = attempt[u]
        /\ UNCHANGED <<intent, applied, late, told>>
    BY <1>9 DEF PauseOver, Start, Intent, exchange, PolicyInv, PolicyTypes
  <2>2. pc'[t] # "pausing" /\ \A u \in Task \ {t} : pc'[u] = pc[u]
    BY <1>9, StartMoves DEF PauseOver, OneMoves, RulesInv, RulesPlaces
  <2>3. ASSUME NEW u \in Task PROVE Spent(u)' >= Spent(u)
    <3>1. attempt[u] \in Nat
      BY BudgetTypes
    <3>2. Spent(u)' = Spent(u)
      BY <2>1, <2>2, <3>1 DEF Spent
    <3> QED
      BY <3>1, <3>2 DEF Spent
  <2>4. ASSUME NEW j \in Create \ Named PROVE BudgetIsKept(j)'
    <3>1. Requests(j)' = Requests(j) /\ Requests(j) \in Nat
      BY <2>1, BudgetTypes DEF Requests
    <3> QED
      BY <2>1, <2>3, <3>1, BudgetStays DEF BudgetInv
  <2>5. \A u \in Task : intent'[u] = NoIntent => attempt'[u] = 1
    BY <2>1, SubmissionAssumption DEF BudgetInv, Intent
  <2> QED
    BY <2>4, <2>5 DEF BudgetInv
<1>10. ASSUME NEW i \in Intent, ArrivesLate(i)
       PROVE  BudgetInv'
  <2>1. /\ late[i] > 0
        /\ late' = [late EXCEPT ![i] = @ - 1]
        /\ Carry(i)
        /\ UNCHANGED <<pc, intent, attempt, told>>
    BY <1>10 DEF ArrivesLate, policy, vars
  <2>2. applied \in [Intent -> Nat] /\ late \in [Intent -> Nat]
    BY DEF ExchangeInv, ExchangeTypes
  <2>3. ASSUME NEW j \in Create \ Named PROVE Requests(j)' <= Requests(j)
    <3>1. j \in Intent /\ applied[j] \in Nat /\ late[j] \in Nat
      BY <2>2 DEF Intent
    <3>2. applied'[j] \in {applied[j], applied[j] + 1} /\ (j # i => applied'[j] = applied[j])
      BY <2>1, <3>1, CarryCounts DEF ExchangeInv
    <3>3. late'[j] = IF j = i THEN late[j] - 1 ELSE late[j]
      BY <2>1, <2>2, <3>1
    <3> QED
      BY <3>1, <3>2, <3>3 DEF Requests
  <2>4. ASSUME NEW u \in Task PROVE Spent(u)' >= Spent(u)
    <3>1. Spent(u)' = Spent(u) /\ Spent(u) \in Nat
      BY <2>1, BudgetTypes DEF Spent
    <3> QED
      BY <3>1
  <2>5. ASSUME NEW j \in Create \ Named PROVE BudgetIsKept(j)'
    BY <2>1, <2>3, <2>4, BudgetStays DEF BudgetInv
  <2> QED
    BY <2>1, <2>5 DEF BudgetInv
<1>11. ASSUME NEW i \in Intent, QueryOrder(i)
       PROVE  BudgetInv'
  <2>1. /\ i \notin Create \ Named
        /\ \A j \in Intent \ {i} : told'[j] = told[j]
        /\ UNCHANGED <<pc, intent, attempt, applied, late>>
    BY <1>11, SubmissionAssumption
    DEF QueryOrder, policy, exchange, vars, PolicyInv, PolicyTypes
  <2>2. ASSUME NEW u \in Task PROVE Spent(u)' >= Spent(u)
    <3>1. Spent(u)' = Spent(u) /\ Spent(u) \in Nat
      BY <2>1, BudgetTypes DEF Spent
    <3> QED
      BY <3>1
  <2>3. ASSUME NEW j \in Create \ Named PROVE BudgetIsKept(j)'
    <3>1. Requests(j)' = Requests(j) /\ Requests(j) \in Nat /\ j \in Intent
      BY <2>1, BudgetTypes DEF Requests
    <3> QED
      BY <2>1, <2>2, <3>1, BudgetStays DEF BudgetInv
  <2> QED
    BY <2>1, <2>3 DEF BudgetInv
<1>12. ASSUME NEW s \in Symbol, Publish(s) \/ Clear({s}) \/ Clear(Symbol),
              UNCHANGED <<policy, exchange, told>>
       PROVE  BudgetInv'
  BY <1>2, <1>12 DEF Publish, Clear
<1>13. CASE UNCHANGED submissionVars
  BY <1>2, <1>13 DEF submissionVars, vars
<1> QED
  BY <1>3, <1>4, <1>6, <1>7, <1>8, <1>9, <1>10, <1>11, <1>12, <1>13, RulesAssumption
  DEF SubmissionNext, SubmissionStep

(***************************************************************************)
(* An order without an id of its caller sends at most one request for each *)
(* attempt of its policy, the default one or any other, so that no more    *)
(* than MaxAttempts orders come of it.                                     *)
(***************************************************************************)
THEOREM OrdersAreBounded == SubmissionSpec => []OneRequestPerAttempt
<1>1. SubmissionInit => BudgetInv
  <2> SUFFICES ASSUME SubmissionInit PROVE BudgetInv
    OBVIOUS
  <2>1. ASSUME NEW i \in Create \ Named PROVE BudgetIsKept(i)
    <3>1. Requests(i) = 0 /\ told[i] = "nothing"
      BY DEF SubmissionInit, Requests, Intent
    <3>2. \A t \in Task : intent[t] # i
      BY SubmissionAssumption DEF SubmissionInit, Intent
    <3> QED
      BY <3>1, <3>2, PolicyAssumption DEF BudgetIsKept
  <2> QED
    BY <2>1 DEF SubmissionInit, BudgetInv
<1>2. RulesInv /\ PolicyInv /\ ExchangeInv /\ OutcomeInv /\ PolicyInv' /\ ExchangeInv'
         /\ BudgetInv /\ [SubmissionNext]_submissionVars => BudgetInv'
  BY SubmissionKeepsBudget
<1>3. BudgetInv => OneRequestPerAttempt
  BY DEF BudgetInv, BudgetIsKept, Requests, OneRequestPerAttempt
<1> QED
  BY <1>1, <1>2, <1>3, OutcomeInvariant, PTL DEF SubmissionSpec

-----------------------------------------------------------------------------
(* Submissions as callers of symbol_info.  The mapping is into the places  *)
(* symbol_info knows; what it needs is that a call which is outside of it  *)
(* and has no rules in hand has left nothing behind, so that the end of an *)
(* attempt is the end of a use of rules, or nothing at all.                *)

LeftNothing(t) ==
    /\ got[t] = NoRules
    /\ floor[t] = NoRules
    /\ refresh[t] = FALSE
    /\ after[t] = "idle"

MarketInv == \A t \in Task : MarketPlace(t) = "idle" => LeftNothing(t)

\* Only the call of task t moves.
OnlyMoves(t) ==
    \A u \in Task \ {t} : /\ pc'[u] = pc[u] /\ got'[u] = got[u] /\ floor'[u] = floor[u]
                          /\ refresh'[u] = refresh[u] /\ after'[u] = after[u]

LEMMA MarketInvMoves ==
    ASSUME MarketInv, NEW t \in Task, OnlyMoves(t),
           MarketPlace(t)' = "idle" => LeftNothing(t)'
    PROVE  MarketInv'
<1>1. ASSUME NEW u \in Task \ {t}, MarketPlace(u)' = "idle" PROVE LeftNothing(u)'
  <2>1. MarketPlace(u)' = MarketPlace(u)
    BY DEF OnlyMoves, MarketPlace, HasRules
  <2> QED
    BY <1>1, <2>1 DEF MarketInv, OnlyMoves, LeftNothing
<1> QED
  BY <1>1 DEF MarketInv

LEMMA MarketMoves ==
    ASSUME RulesInv, NEW t \in Task, OnlyMoves(t)
    PROVE  /\ [u \in Task |-> MarketPlace(u)]'
                 = [[u \in Task |-> MarketPlace(u)] EXCEPT ![t] = MarketPlace(t)']
           /\ [u \in Task |-> MarketAfter(u)]'
                 = [[u \in Task |-> MarketAfter(u)] EXCEPT ![t] = MarketAfter(t)']
<1>1. ASSUME NEW u \in Task \ {t}
      PROVE  MarketPlace(u)' = MarketPlace(u) /\ MarketAfter(u)' = MarketAfter(u)
  BY DEF OnlyMoves, MarketPlace, MarketAfter, HasRules
<1> QED
  BY <1>1

\* A step that leaves the calls where symbol_info sees them.
LEMMA MarketStill ==
    ASSUME RulesInv, NEW t \in Task, OnlyMoves(t),
           MarketPlace(t)' = MarketPlace(t), MarketAfter(t)' = MarketAfter(t)
    PROVE  /\ UNCHANGED [u \in Task |-> MarketPlace(u)]
           /\ UNCHANGED [u \in Task |-> MarketAfter(u)]
BY MarketMoves

\* Nothing moves.
LEMMA CallsRest ==
    ASSUME UNCHANGED <<pc, call, got>>
    PROVE  /\ UNCHANGED [u \in Task |-> MarketPlace(u)]
           /\ UNCHANGED [u \in Task |-> MarketAfter(u)]
BY DEF MarketPlace, MarketAfter, HasRules, call

LEMMA CallsRestInv ==
    ASSUME MarketInv, UNCHANGED <<pc, call, got, floor>>
    PROVE  MarketInv'
BY DEF MarketInv, MarketPlace, HasRules, LeftNothing, call

LEMMA LockedMaps ==
    ASSUME RulesInv, NEW t \in Task, NEW s \in Symbol, Locked(t, s), OnlyMoves(t),
           after' \in [Task -> {"idle", "given", "checking"}],
           after'[t] \in {"given", "checking"}
    PROVE  Market!Locked(t, s) /\ MarketPlace(t)' # "idle"
<1>1. MarketAfter(t)' = "given" /\ [u \in Task |-> MarketAfter(u)]'[t] = "given"
  BY DEF MarketAfter
<1>2. pc \in [Task -> Inside \cup Outside]
  BY DEF RulesInv, RulesPlaces
<1>3. CASE /\ ~refresh'[t] /\ cache[s] # NoRules
           /\ Give(t, s, cache[s])
           /\ UNCHANGED <<holder, spare>>
  <2>1. MarketPlace(t)' = "given"
    BY <1>2, <1>3 DEF Give, MarketPlace, HasRules
  <2> QED
    BY <1>1, <1>3, <2>1, MarketMoves DEF Give, Market!Locked, Market!Give, Market!NoRules
<1>4. CASE /\ refresh'[t] \/ cache[s] = NoRules
           /\ pc' = [pc EXCEPT ![t] = "asking"]
           /\ holder' = [holder EXCEPT ![s] = t]
           /\ spare' = IF refresh'[t] THEN spare ELSE [spare EXCEPT ![s] = @ - 1]
           /\ UNCHANGED <<got, newest>>
  <2>1. MarketPlace(t)' = "asking"
    BY <1>2, <1>4 DEF MarketPlace, HasRules
  <2> QED
    BY <1>4, <2>1, MarketMoves DEF Market!Locked, Market!NoRules
<1> QED
  BY <1>3, <1>4 DEF Locked

LEMMA AskMaps ==
    ASSUME RulesInv, MarketInv, NEW t \in Task, NEW s \in Symbol, NEW again \in BOOLEAN,
           NEW where \in {"given", "checking"}, MarketPlace(t) = "idle",
           Ask(t, s, again, where)
    PROVE  Market!SymbolInfo(t, s, again) /\ MarketInv'
<1>1. /\ pc \in [Task -> Inside \cup Outside]
      /\ after \in [Task -> {"idle", "given", "checking"}]
      /\ refresh \in [Task -> BOOLEAN]
      /\ floor \in [Task -> Version \cup {NoRules}]
      /\ got \in [Task -> Version \cup {NoRules}]
  BY DEF RulesInv, RulesPlaces, RulesTypeOK
<1>2. after' \in [Task -> {"idle", "given", "checking"}] /\ after'[t] = where
  BY <1>1 DEF Ask
<1>3. OnlyMoves(t)
  <2>1. \A u \in Task \ {t} : pc'[u] = pc[u] /\ got'[u] = got[u]
    BY <1>1 DEF Ask, Locked, Give
  <2>2. \A u \in Task \ {t} : floor'[u] = floor[u] /\ refresh'[u] = refresh[u] /\ after'[u] = after[u]
    BY <1>1 DEF Ask
  <2> QED
    BY <2>1, <2>2 DEF OnlyMoves
<1>4. [u \in Task |-> MarketAfter(u)]' = [[u \in Task |-> MarketAfter(u)] EXCEPT ![t] = "given"]
  BY <1>2, <1>3, MarketMoves DEF MarketAfter
<1> DEFINE open == Free(s) /\ \A u \in Task : ~Waits(u, s)
           cached == ~again /\ cache[s] # NoRules
<1>5. (\A u \in Task : ~Waits(u, s)) <=> (\A u \in Task : ~Market!Waits(u, s))
  <2>1. ASSUME NEW u \in Task PROVE pc[u] = "waiting" <=> MarketPlace(u) = "waiting"
    BY DEF MarketPlace, HasRules
  <2> QED
    BY <2>1 DEF Waits, Market!Waits
<1>6. CASE Locked(t, s) /\ (cached \/ open)
  <2>1. Market!Locked(t, s) /\ MarketPlace(t)' # "idle"
    BY <1>2, <1>3, <1>6, LockedMaps
  <2> QED
    BY <1>3, <1>4, <1>5, <1>6, <2>1, MarketInvMoves
    DEF Ask, Free, Market!SymbolInfo, Market!Ask, Market!Free, Market!NoRules
<1>7. CASE /\ ~cached /\ ~open
           /\ pc' = [pc EXCEPT ![t] = "waiting"]
           /\ UNCHANGED <<holder, spare, got, newest>>
  <2>1. MarketPlace(t)' = "waiting"
    BY <1>1, <1>7 DEF MarketPlace, HasRules
  <2> QED
    BY <1>3, <1>4, <1>5, <1>7, <2>1, MarketMoves, MarketInvMoves
    DEF Ask, Free, Market!SymbolInfo, Market!Ask, Market!Free, Market!NoRules
<1> QED
  BY <1>6, <1>7 DEF Ask

\* The end of a call, or of an attempt of it.
LEMMA LeaveMaps ==
    ASSUME RulesInv, MarketInv, NEW t \in Task, pc[t] \notin Inside,
           NEW where \in {"idle", "raised", "posting", "pausing"}, Leave(t, where),
           UNCHANGED <<store, newest, spare>>
    PROVE  [Market!Next]_(Market!vars) /\ MarketInv'
<1>1. /\ pc \in [Task -> Inside \cup Outside]
      /\ after \in [Task -> {"idle", "given", "checking"}]
      /\ refresh \in [Task -> BOOLEAN]
      /\ floor \in [Task -> Version \cup {NoRules}]
      /\ got \in [Task -> Version \cup {NoRules}]
  BY DEF RulesInv, RulesPlaces, RulesTypeOK
<1>2. OnlyMoves(t)
  BY <1>1 DEF Leave, OnlyMoves
<1>3. MarketPlace(t)' = "idle" /\ MarketAfter(t)' = "idle" /\ LeftNothing(t)'
  BY <1>1 DEF Leave, MarketPlace, MarketAfter, HasRules, LeftNothing
<1>4. MarketInv'
  BY <1>2, <1>3, MarketInvMoves
<1>5. MarketPlace(t) \in {"given", "idle"}
  BY DEF MarketPlace
<1>6. CASE MarketPlace(t) = "given"
  <2>1. Market!Leave(t, "idle")
    BY <1>2, <1>3, MarketMoves DEF Leave, Market!Leave, Market!NoRules
  <2>2. Market!Used(t)
    BY <1>6, <2>1 DEF Market!Used, Market!store, store
  <2> QED
    BY <1>4, <2>2 DEF Market!Next, Market!RulesStep
<1>7. CASE MarketPlace(t) = "idle"
  <2>1. LeftNothing(t) /\ MarketAfter(t) = "idle"
    BY <1>7 DEF MarketInv, LeftNothing, MarketAfter
  <2>2. UNCHANGED <<asks, refresh, got, floor>>
    BY <1>1, <2>1 DEF Leave, LeftNothing
  <2> QED
    BY <1>2, <1>3, <1>4, <1>7, <2>1, <2>2, MarketStill
    DEF Market!vars, Market!store, Market!call, Market!history, store
<1> QED
  BY <1>5, <1>6, <1>7

LEMMA StartMaps ==
    ASSUME RulesInv, MarketInv, NEW t \in Task, NEW i \in Intent,
           pc[t] \in {"idle", "pausing"}, Start(t, i)
    PROVE  [Market!Next]_(Market!vars) /\ MarketInv'
<1>1. MarketPlace(t) = "idle"
  BY DEF MarketPlace, HasRules
<1>2. CASE i \in Create /\ StartCreate(t, i)
  <2>1. Request[i].symbol \in Symbol
    BY <1>2, SubmissionAssumption
  <2>2. Market!SymbolInfo(t, Request[i].symbol, FALSE) /\ MarketInv'
    BY <1>1, <1>2, <2>1, AskMaps DEF StartCreate
  <2> QED
    BY <2>1, <2>2 DEF Market!Next
<1>3. CASE i \in Cancel /\ StartCancel(t)
  <2>1. /\ pc' = [pc EXCEPT ![t] = "ready"]
        /\ UNCHANGED <<published, cache, holder, asks, refresh, after, got, newest, floor, spare>>
    BY <1>3 DEF StartCancel, store, call, history
  <2>2. pc'[t] = "ready" /\ OnlyMoves(t)
    BY <2>1 DEF OnlyMoves, RulesInv, RulesPlaces
  <2>3. got[t] = NoRules
    BY <1>1 DEF MarketInv, LeftNothing
  <2>4. MarketPlace(t)' = "idle" /\ MarketAfter(t)' = MarketAfter(t)
    BY <2>1, <2>2, <2>3 DEF MarketPlace, MarketAfter, HasRules
  <2>5. MarketInv'
    BY <1>1, <2>1, <2>2, MarketInvMoves DEF MarketInv, LeftNothing
  <2> QED
    BY <1>1, <2>1, <2>2, <2>4, <2>5, MarketStill
    DEF Market!vars, Market!store, Market!call, Market!history
<1> QED
  BY <1>2, <1>3 DEF Start

LEMMA RaiseMaps ==
    ASSUME RulesInv, MarketInv, NEW t \in Task, pc[t] \notin Inside,
           NEW error, NEW retryAfter, Raise(t, error, retryAfter)
    PROVE  [Market!Next]_(Market!vars) /\ MarketInv'
BY LeaveMaps DEF Raise, Finish

\* The steps of symbol_info itself.
LEMMA RulesStepMaps ==
    ASSUME RulesInv, MarketInv, NEW t \in Task, RulesStep(t)
    PROVE  [Market!Next]_(Market!vars) /\ MarketInv'
<1>1. /\ pc \in [Task -> Inside \cup Outside]
      /\ after \in [Task -> {"idle", "given", "checking"}]
      /\ refresh \in [Task -> BOOLEAN]
      /\ floor \in [Task -> Version \cup {NoRules}]
      /\ got \in [Task -> Version \cup {NoRules}]
      /\ asks \in [Task -> Symbol]
      /\ CallIsOrdered(t)
  BY DEF RulesInv, RulesPlaces, RulesTypeOK
<1>2. CASE Granted(t)
  <2>1. OnlyMoves(t)
    BY <1>1, <1>2 DEF Granted, Locked, Give, call, OnlyMoves
  <2>2. after' = after /\ after[t] \in {"given", "checking"}
    BY <1>1, <1>2 DEF Granted, call, CallIsOrdered
  <2>3. Market!Locked(t, asks[t]) /\ MarketPlace(t)' # "idle"
    BY <1>1, <1>2, <2>1, <2>2, LockedMaps DEF Granted
  <2>4. UNCHANGED [u \in Task |-> MarketAfter(u)]
    BY <2>2 DEF MarketAfter
  <2>5. MarketPlace(t) = "waiting"
    BY <1>2 DEF Granted, MarketPlace, HasRules
  <2>6. Market!Granted(t)
    BY <1>2, <2>3, <2>4, <2>5 DEF Granted, Free, call, Market!Granted, Market!Free, Market!call
  <2> QED
    BY <2>1, <2>3, <2>6, MarketInvMoves DEF Market!Next, Market!RulesStep
<1>3. CASE RulesAnswered(t)
  <2>1. /\ pc' = [pc EXCEPT ![t] = "answered"]
        /\ got' = [got EXCEPT ![t] = published[asks[t]]]
        /\ UNCHANGED <<published, cache, holder, asks, refresh, after, newest, floor, spare>>
    BY <1>3 DEF RulesAnswered, store, call, history
  <2>2. OnlyMoves(t)
    BY <1>1, <2>1 DEF OnlyMoves
  <2>3. MarketPlace(t) = "asking" /\ MarketPlace(t)' = "answered"
    BY <1>1, <1>3, <2>1 DEF RulesAnswered, MarketPlace, HasRules
  <2>4. UNCHANGED [u \in Task |-> MarketAfter(u)]
    BY <2>1 DEF MarketAfter
  <2>5. Market!RulesAnswered(t)
    BY <2>1, <2>2, <2>3, <2>4, MarketMoves
    DEF Market!RulesAnswered, Market!store, Market!call, Market!history
  <2> QED
    BY <2>2, <2>3, <2>5, MarketInvMoves DEF Market!Next, Market!RulesStep
<1>4. CASE RulesFetched(t)
  <2>1. UNCHANGED <<asks, refresh, after>> /\ after[t] \in {"given", "checking"}
    BY <1>1, <1>4 DEF RulesFetched, call, CallIsOrdered
  <2>2. OnlyMoves(t)
    BY <1>1, <1>4, <2>1 DEF RulesFetched, Give, OnlyMoves
  <2>3. MarketPlace(t) = "answered" /\ MarketPlace(t)' = "given"
    BY <1>1, <1>4, <2>1 DEF RulesFetched, Give, MarketPlace, HasRules
  <2>4. UNCHANGED [u \in Task |-> MarketAfter(u)] /\ [u \in Task |-> MarketAfter(u)][t] = "given"
    BY <2>1 DEF MarketAfter
  <2>5. Market!Give(t, asks[t], got[t])
    BY <1>4, <2>2, <2>3, <2>4, MarketMoves DEF RulesFetched, Give, Market!Give
  <2>6. Market!RulesFetched(t)
    BY <1>4, <2>1, <2>3, <2>4, <2>5
    DEF RulesFetched, Release, Market!RulesFetched, Market!Release, Market!call
  <2> QED
    BY <2>2, <2>3, <2>6, MarketInvMoves DEF Market!Next, Market!RulesStep
<1>5. CASE Used(t)
  BY <1>5, LeaveMaps DEF Used
<1> QED
  BY <1>2, <1>3, <1>4, <1>5 DEF RulesStep

LEMMA RulesFailMaps ==
    ASSUME RulesInv, MarketInv, NEW t \in Task, RulesFail(t)
    PROVE  Market!RulesFail(t) /\ MarketInv'
<1>1. /\ pc \in [Task -> Inside \cup Outside]
      /\ after \in [Task -> {"idle", "given", "checking"}]
      /\ refresh \in [Task -> BOOLEAN]
      /\ floor \in [Task -> Version \cup {NoRules}]
      /\ got \in [Task -> Version \cup {NoRules}]
      /\ CallIsOrdered(t)
  BY DEF RulesInv, RulesPlaces, RulesTypeOK
<1>2. PICK where \in {"idle", "raised"} : Leave(t, where)
  BY DEF RulesFail
<1>3. OnlyMoves(t)
  BY <1>1, <1>2 DEF Leave, OnlyMoves
<1>4. MarketPlace(t)' = "idle" /\ MarketAfter(t)' = "idle" /\ LeftNothing(t)'
  BY <1>1, <1>2 DEF Leave, MarketPlace, MarketAfter, HasRules, LeftNothing
<1>5. MarketPlace(t) = pc[t] /\ MarketAfter(t) = "given"
  BY <1>1 DEF RulesFail, MarketPlace, MarketAfter, HasRules, CallIsOrdered
<1>6. Market!Leave(t, "idle")
  BY <1>2, <1>3, <1>4, MarketMoves DEF Leave, Market!Leave, Market!NoRules
<1>7. Market!RulesFail(t)
  BY <1>5, <1>6 DEF RulesFail, Release, Market!RulesFail, Market!Release
<1> QED
  BY <1>3, <1>4, <1>7, MarketInvMoves

\* An order that is to be checked has its rules.
CheckedInv == \A t \in Task : pc[t] = "checking" => got[t] # NoRules

\* Whatever a task does that is not to be checked after it.
LEMMA MoveKeepsChecks ==
    ASSUME CheckedInv, NEW t \in Task,
           \A u \in Task \ {t} : pc'[u] = pc[u] /\ got'[u] = got[u],
           pc'[t] = "checking" => got'[t] # NoRules
    PROVE  CheckedInv'
BY DEF CheckedInv

LEMMA RaiseKeepsChecks ==
    ASSUME RulesInv, CheckedInv, NEW t \in Task, NEW error, NEW retryAfter,
           Raise(t, error, retryAfter)
    PROVE  CheckedInv'
BY RaiseMoves, MoveKeepsChecks

LEMMA StartKeepsChecks ==
    ASSUME RulesInv, CheckedInv, NEW t \in Task, NEW i, Start(t, i)
    PROVE  CheckedInv'
<1>1. CASE OneMoves(t)
  BY <1>1, MoveKeepsChecks DEF OneMoves
<1>2. CASE pc' = [pc EXCEPT ![t] = "ready"] /\ got' = got
  BY <1>2, MoveKeepsChecks DEF RulesInv, RulesPlaces
<1> QED
  BY <1>1, <1>2, StartMoves

LEMMA SubmissionKeepsChecks ==
    ASSUME RulesInv, CheckedInv, [SubmissionNext]_submissionVars
    PROVE  CheckedInv'
<1>1. CASE UNCHANGED <<pc, got>>
  BY <1>1 DEF CheckedInv
<1>2. ASSUME NEW t \in Task, OneMoves(t)
      PROVE  CheckedInv'
  BY <1>2, MoveKeepsChecks DEF OneMoves
<1>3. ASSUME NEW t \in Task, NEW s \in Symbol, SymbolInfo(t, s, TRUE)
      PROVE  CheckedInv'
  BY <1>2, <1>3, AskMoves DEF SymbolInfo
<1>4. ASSUME NEW t \in Task, RulesStep(t) \/ RulesFail(t)
      PROVE  CheckedInv'
  BY <1>2, <1>4, RulesStepMoves
<1>5. ASSUME NEW t \in Task, NEW i \in Intent, Submit(t, i)
      PROVE  CheckedInv'
  BY <1>5, StartKeepsChecks DEF Submit
<1>6. ASSUME NEW t \in Task, PauseOver(t)
      PROVE  CheckedInv'
  BY <1>6, StartKeepsChecks DEF PauseOver
<1>7. ASSUME NEW t \in Task, RulesError(t) \/ GivesUp(t)
      PROVE  CheckedInv'
  BY <1>7, RaiseKeepsChecks DEF RulesError, GivesUp
<1>8. ASSUME NEW t \in Task, Checked(t) \/ Post(t)
      PROVE  CheckedInv'
  <2>1. CASE Leave(t, "posting") \/ (pc' = [pc EXCEPT ![t] = "ready"] /\ got' = got)
    BY <2>1, MoveKeepsChecks DEF Leave, RulesInv, RulesTypeOK, RulesPlaces
  <2> QED
    BY <1>8, <2>1, RaiseKeepsChecks DEF Checked, Post
<1>9. ASSUME NEW t \in Task, Answered(t)
      PROVE  CheckedInv'
  <2>1. CASE Finish(t, "done")
    BY <2>1, FinishMoves, MoveKeepsChecks
  <2> QED
    BY <1>9, <2>1, RaiseKeepsChecks DEF Answered
<1>10. ASSUME NEW s \in Symbol, Publish(s) \/ Clear({s}) \/ Clear(Symbol)
       PROVE  CheckedInv'
  BY <1>1, <1>10 DEF Publish, Clear
<1>11. CASE UNCHANGED vars
  BY <1>1, <1>11 DEF vars
<1> QED
  BY <1>3, <1>4, <1>5, <1>6, <1>7, <1>8, <1>9, <1>10, <1>11, RulesAssumption
  DEF SubmissionNext, SubmissionStep, ArrivesLate, QueryOrder, submissionVars

LEMMA CheckedInvariant == SubmissionSpec => [](RulesInv /\ CheckedInv)
<1>1. SubmissionInit => CheckedInv
  BY DEF SubmissionInit, Init, CheckedInv
<1>2. RulesInv /\ CheckedInv /\ [SubmissionNext]_submissionVars => CheckedInv'
  BY SubmissionKeepsChecks
<1> QED
  BY <1>1, <1>2, RulesInvThroughout, PTL DEF SubmissionSpec

LEMMA SubmissionMaps ==
    ASSUME RulesInv, CheckedInv, MarketInv, [SubmissionNext]_submissionVars
    PROVE  [Market!Next]_(Market!vars) /\ MarketInv'
<1>1. ASSUME NEW s \in Symbol, Publish(s) PROVE Market!Publish(s) /\ MarketInv'
  BY <1>1, CallsRest, CallsRestInv
  DEF Publish, call, history, Market!Publish, Market!call, Market!history
<1>2. ASSUME NEW S \in SUBSET Symbol, Clear(S) PROVE Market!Clear(S) /\ MarketInv'
  BY <1>2, CallsRest, CallsRestInv DEF Clear, call, Market!Clear, Market!call, Market!NoRules
<1>3. ASSUME NEW t \in Task, NEW s \in Symbol, SymbolInfo(t, s, TRUE)
      PROVE  Market!SymbolInfo(t, s, TRUE) /\ MarketInv'
  <2>1. MarketPlace(t) = "idle"
    BY <1>3 DEF SymbolInfo, MarketPlace, HasRules
  <2> QED
    BY <1>3, <2>1, AskMaps DEF SymbolInfo
<1>4. ASSUME NEW t \in Task, NEW i \in Intent, Submit(t, i)
      PROVE  [Market!Next]_(Market!vars) /\ MarketInv'
  BY <1>4, StartMaps DEF Submit
<1>5. ASSUME NEW t \in Task, PauseOver(t)
      PROVE  [Market!Next]_(Market!vars) /\ MarketInv'
  <2>1. intent[t] \in Intent
    BY <1>5 DEF PauseOver, Start, Intent
  <2> QED
    BY <1>5, <2>1, StartMaps DEF PauseOver
<1>6. ASSUME NEW t \in Task, Checked(t)
      PROVE  [Market!Next]_(Market!vars) /\ MarketInv'
  <2>1. pc[t] = "checking" /\ got[t] # NoRules
    BY <1>6 DEF Checked, CheckedInv
  <2>2. CASE pc' = [pc EXCEPT ![t] = "ready"] /\ UNCHANGED <<store, call, got, history>>
    <3>1. UNCHANGED <<published, cache, holder, asks, refresh, after, got, newest, floor, spare>>
      BY <2>2 DEF store, call, history
    <3>2. OnlyMoves(t) /\ pc'[t] = "ready"
      BY <2>2, <3>1 DEF OnlyMoves, RulesInv, RulesPlaces
    <3>3. /\ MarketPlace(t) = "given" /\ MarketPlace(t)' = "given"
          /\ MarketAfter(t)' = MarketAfter(t)
      BY <2>1, <3>1, <3>2 DEF MarketPlace, MarketAfter, HasRules
    <3> QED
      BY <3>1, <3>2, <3>3, MarketStill, MarketInvMoves
      DEF Market!vars, Market!store, Market!call, Market!history
  <2> QED
    BY <1>6, <2>1, <2>2, RaiseMaps DEF Checked
<1>7. ASSUME NEW t \in Task, RulesError(t) \/ Post(t) \/ Answered(t) \/ GivesUp(t)
      PROVE  [Market!Next]_(Market!vars) /\ MarketInv'
  BY <1>7, RaiseMaps, LeaveMaps DEF RulesError, Post, Answered, GivesUp, Finish
<1>8. CASE UNCHANGED vars
  BY <1>8, CallsRest, CallsRestInv
  DEF vars, store, call, history, Market!vars, Market!store, Market!call, Market!history
<1> QED
  BY <1>1, <1>2, <1>3, <1>4, <1>5, <1>6, <1>7, <1>8, RulesStepMaps, RulesFailMaps
  DEF SubmissionNext, SubmissionStep, ArrivesLate, QueryOrder, submissionVars, Market!Next

(***************************************************************************)
(* A submission uses the symbol rules as any caller of symbol_info does:   *)
(* with its checks, retries, pauses and cancels it implements SymbolRules, *)
(* so that whatever holds of the cache and its lock holds here.            *)
(***************************************************************************)
THEOREM SubmissionsUseSymbolRules == SubmissionSpec => SymbolRulesImplemented
<1>1. SubmissionInit => Market!Init /\ MarketInv
  <2> SUFFICES ASSUME SubmissionInit PROVE Market!Init /\ MarketInv
    OBVIOUS
  <2>1. \A t \in Task : MarketPlace(t) = "idle" /\ MarketAfter(t) = "idle"
    BY DEF SubmissionInit, Init, MarketPlace, MarketAfter, HasRules
  <2>2. /\ [t \in Task |-> MarketPlace(t)] = [t \in Task |-> "idle"]
        /\ [t \in Task |-> MarketAfter(t)] = [t \in Task |-> "idle"]
    BY <2>1
  <2>3. MarketInv
    BY DEF SubmissionInit, Init, MarketInv, LeftNothing
  <2>4. Init
    BY DEF SubmissionInit
  <2> QED
    BY <2>2, <2>3, <2>4, Zenon DEF Init, Market!Init, Market!NoRules, NoRules
<1>2. RulesInv /\ CheckedInv /\ MarketInv /\ [SubmissionNext]_submissionVars
         => [Market!Next]_(Market!vars) /\ MarketInv'
  BY SubmissionMaps
<1> QED
  BY <1>1, <1>2, CheckedInvariant, PTL DEF SubmissionSpec, SymbolRulesImplemented, Market!Spec

=============================================================================
