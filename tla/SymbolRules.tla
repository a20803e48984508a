----------------------------- MODULE SymbolRules -----------------------------
(***************************************************************************)
(* The cache of symbol rules of MarketsApi (domain/markets.py): loaded on  *)
(* demand under a lock per symbol, refreshed and cleared by the            *)
(* application, used by every order that is created.                       *)
(*                                                                         *)
(* Rules are numbered in the order in which the exchange publishes them;   *)
(* NoRules is an empty cache.  The lock lets any of its waiters in next,   *)
(* which is more than the first come, first served of asyncio.Lock.        *)
(***************************************************************************)
EXTENDS Integers

CONSTANTS
    Task,
    Symbol,
    NoTask,
    MaxVersion,     \* bound: the rules a symbol ever has
    MaxSpare        \* bound: clears and refreshes not yet answered by a fetch

ASSUME RulesAssumption ==
    /\ Symbol # {}
    /\ MaxVersion \in Nat \ {0}
    /\ MaxSpare \in Nat \ {0}
    /\ NoTask \notin Task

NoRules == 0

VARIABLES
    published,  \* the rules in force at the exchange
    cache,      \* _symbol_info_cache
    holder,     \* the task that holds the lock of a symbol
    pc,         \* where a task is suspended
    asks,       \* the symbol it asks for
    refresh,    \* it will not take cached rules
    after,      \* where it goes on with the rules
    got,        \* the answer of its request, then the rules it was given
    newest,     \* history: the newest rules any call has been given
    floor,      \* history: the oldest rules its call may still be given
    spare       \* history: requests that may still be made

store == <<published, cache, holder>>
call == <<asks, refresh, after>>
history == <<newest, floor, spare>>
vars == <<store, pc, call, got, history>>

Init ==
    /\ published = [s \in Symbol |-> 1]
    /\ cache = [s \in Symbol |-> NoRules]
    /\ holder = [s \in Symbol |-> NoTask]
    /\ pc = [t \in Task |-> "idle"]
    /\ asks = [t \in Task |-> CHOOSE s \in Symbol : TRUE]
    /\ refresh = [t \in Task |-> FALSE]
    /\ after = [t \in Task |-> "idle"]
    /\ got = [t \in Task |-> NoRules]
    /\ newest = [s \in Symbol |-> NoRules]
    /\ floor = [t \in Task |-> NoRules]
    /\ spare = [s \in Symbol |-> 1]

-----------------------------------------------------------------------------
(* The exchange, and the application that clears the cache. *)

Publish(s) ==
    /\ published[s] < MaxVersion
    /\ published' = [published EXCEPT ![s] = @ + 1]
    /\ UNCHANGED <<cache, holder, pc, call, got, history>>

\* clear_symbol_info_cache: one symbol, or all of them.
Clear(S) ==
    /\ \A s \in S : spare[s] < MaxSpare
    /\ cache' = [s \in Symbol |-> IF s \in S THEN NoRules ELSE cache[s]]
    /\ spare' = [s \in Symbol |-> IF s \in S THEN spare[s] + 1 ELSE spare[s]]
    /\ UNCHANGED <<published, holder, pc, call, got, newest, floor>>

-----------------------------------------------------------------------------
(* symbol_info *)

\* A call ends with rules v of symbol s.
Give(t, s, v) ==
    /\ pc' = [pc EXCEPT ![t] = after'[t]]
    /\ got' = [got EXCEPT ![t] = v]
    /\ newest' = [newest EXCEPT ![s] = IF v > @ THEN v ELSE @]

\* Mutant: the cache is not looked at again once the lock is held.
LockedBlindly(t, s) ==
    /\ pc' = [pc EXCEPT ![t] = "asking"]
    /\ holder' = [holder EXCEPT ![s] = t]
    /\ spare' = IF refresh'[t] THEN spare ELSE [spare EXCEPT ![s] = @ - 1]
    /\ UNCHANGED <<got, newest>>

\* Mutant: the lock is let go before the request.
LockedBriefly(t, s) ==
    \/ /\ ~refresh'[t] /\ cache[s] # NoRules
       /\ Give(t, s, cache[s])
       /\ UNCHANGED <<holder, spare>>
    \/ /\ refresh'[t] \/ cache[s] = NoRules
       /\ pc' = [pc EXCEPT ![t] = "asking"]
       /\ spare' = IF refresh'[t] THEN spare ELSE [spare EXCEPT ![s] = @ - 1]
       /\ UNCHANGED <<holder, got, newest>>

\* With the lock in hand: another task may have filled the cache meanwhile.
Locked(t, s) ==
    \/ /\ ~refresh'[t] /\ cache[s] # NoRules
       /\ Give(t, s, cache[s])
       /\ UNCHANGED <<holder, spare>>
    \/ /\ refresh'[t] \/ cache[s] = NoRules
       /\ pc' = [pc EXCEPT ![t] = "asking"]
       /\ holder' = [holder EXCEPT ![s] = t]
       /\ spare' = IF refresh'[t] THEN spare ELSE [spare EXCEPT ![s] = @ - 1]
       /\ UNCHANGED <<got, newest>>

Free(s) == holder[s] = NoTask

Waits(t, s) == pc[t] = "waiting" /\ asks[t] = s

\* Up to the first suspension: the call ends if the rules are cached, makes
\* its request if nobody holds or wants the lock, and waits otherwise.
Ask(t, s, again, where) ==
    /\ asks' = [asks EXCEPT ![t] = s]
    /\ refresh' = [refresh EXCEPT ![t] = again]
    /\ after' = [after EXCEPT ![t] = where]
    /\ floor' = [floor EXCEPT ![t] = IF again THEN published[s] ELSE newest[s]]
    /\ LET open == Free(s) /\ \A u \in Task : ~Waits(u, s)
           cached == ~again /\ cache[s] # NoRules
       IN  \/ /\ cached \/ open
              /\ Locked(t, s)
           \/ /\ ~cached /\ ~open
              /\ pc' = [pc EXCEPT ![t] = "waiting"]
              /\ UNCHANGED <<holder, spare, got, newest>>
    /\ UNCHANGED <<published, cache>>

SymbolInfo(t, s, again) ==
    /\ pc[t] = "idle"
    /\ Ask(t, s, again, "given")

Granted(t) ==
    /\ pc[t] = "waiting"
    /\ Free(asks[t])
    /\ UNCHANGED call
    /\ Locked(t, asks[t])
    /\ UNCHANGED <<published, cache, floor>>

\* The exchange reads the rules it answers with.
RulesAnswered(t) ==
    /\ pc[t] = "asking"
    /\ pc' = [pc EXCEPT ![t] = "answered"]
    /\ got' = [got EXCEPT ![t] = published[asks[t]]]
    /\ UNCHANGED <<store, call, history>>

Release(t) == holder' = [s \in Symbol |-> IF holder[s] = t THEN NoTask ELSE holder[s]]

\* The answer is decoded and stored.
RulesFetched(t) ==
    /\ pc[t] = "answered"
    /\ cache' = [cache EXCEPT ![asks[t]] = got[t]]
    /\ Release(t)
    /\ UNCHANGED call
    /\ Give(t, asks[t], got[t])
    /\ UNCHANGED <<published, floor, spare>>

\* The call is over, and what it was given with it.
Leave(t, where) ==
    /\ pc' = [pc EXCEPT ![t] = where]
    /\ refresh' = [refresh EXCEPT ![t] = FALSE]
    /\ after' = [after EXCEPT ![t] = "idle"]
    /\ got' = [got EXCEPT ![t] = NoRules]
    /\ floor' = [floor EXCEPT ![t] = NoRules]
    /\ UNCHANGED asks

\* The request fails, its answer is malformed, or the task is cancelled.  A
\* caller that went on with the rules goes on with the error.
RulesFail(t) ==
    /\ pc[t] \in {"waiting", "asking", "answered"}
    /\ Leave(t, IF after[t] = "given" THEN "idle" ELSE "raised")
    /\ spare' = IF pc[t] = "waiting" \/ refresh[t] THEN spare
                ELSE [spare EXCEPT ![asks[t]] = @ + 1]
    /\ Release(t)
    /\ UNCHANGED <<published, cache, newest>>

\* The caller has used the rules it was given.
Used(t) ==
    /\ pc[t] = "given"
    /\ Leave(t, "idle")
    /\ UNCHANGED <<store, newest, spare>>

RulesStep(t) == Granted(t) \/ RulesAnswered(t) \/ RulesFetched(t) \/ Used(t)

Next ==
    \/ \E s \in Symbol : Publish(s) \/ Clear({s})
    \/ Clear(Symbol)
    \/ \E t \in Task :
          \/ \E s \in Symbol, again \in BOOLEAN : SymbolInfo(t, s, again)
          \/ RulesStep(t)
          \/ RulesFail(t)

Spec == Init /\ [][Next]_vars

-----------------------------------------------------------------------------
(* Properties. *)

Version == 1..MaxVersion

Fetching(t) == pc[t] \in {"asking", "answered"}

RulesTypeOK ==
    /\ published \in [Symbol -> Version]
    /\ cache \in [Symbol -> Version \cup {NoRules}]
    /\ holder \in [Symbol -> Task \cup {NoTask}]
    /\ asks \in [Task -> Symbol]
    /\ refresh \in [Task -> BOOLEAN]
    /\ got \in [Task -> Version \cup {NoRules}]
    /\ newest \in [Symbol -> Version \cup {NoRules}]
    /\ floor \in [Task -> Version \cup {NoRules}]
    /\ spare \in [Symbol -> Int]

(***************************************************************************)
(* symbol_info never goes back: whatever clears, refreshes and failures    *)
(* run beside it, a call is given rules at least as new as any call had    *)
(* been given when it began, and with refresh=True at least as new as the  *)
(* exchange had then.  Answers that cross on the network would break it.   *)
(***************************************************************************)
RulesNeverRegress ==
    \A t \in Task : got[t] # NoRules => got[t] >= floor[t]

(***************************************************************************)
(* Loads are shared: concurrent first calls make one request between them. *)
(* A symbol is loaded once, once more for each time its cache was cleared, *)
(* and again only for a load that failed.                                  *)
(***************************************************************************)
LoadsAreShared == \A s \in Symbol : spare[s] >= 0

=============================================================================
