----------------------------- MODULE RateLimiter -----------------------------
(***************************************************************************)
(* CreditRateLimiter (resilience/rate_limit.py): the token bucket that     *)
(* every REST request of a transport passes.  Credits are not added by a   *)
(* timer: each call first adds what has accrued since the last one.        *)
(*                                                                         *)
(* Concurrency.  acquire() suspends only in sleep(); from waking up to the *)
(* next sleep or the return it runs without a break.  Sleepers are not     *)
(* queued: whoever wakes first, or calls while others sleep, is served.    *)
(*                                                                         *)
(* Data.  Time is counted in the credits it brings: `accrued' stands for   *)
(* (now - _last_update) * replenish_rate and `remaining' for the rest of   *)
(* a sleep times replenish_rate, so that wait_seconds is the deficit.      *)
(* A clock that goes back is left out (the default is time.monotonic).     *)
(***************************************************************************)
EXTENDS Naturals

CONSTANTS
    Task,       \* asyncio tasks that acquire credits
    Cost,       \* the costs they ask for, valid or not
    Capacity,   \* capacity
    Rate,       \* replenish_rate: credits per tick
    MaxCalls,   \* bound: calls of acquire() per task
    MaxWindow   \* bound: credits accrued in the observed window

ASSUME LimiterAssumption ==
    /\ Capacity \in Nat \ {0}
    /\ Rate \in Nat \ {0}
    /\ Cost \subseteq Nat
    /\ MaxCalls \in Nat
    /\ MaxWindow \in Nat

VARIABLES
    credits,    \* _credits
    accrued,    \* credits the time since _last_update is worth
    cost,       \* what a task asks for while it is suspended, otherwise 0
    remaining,  \* rest of its sleep, in credits
    calls,      \* calls a task has made
    spent,      \* history: credits granted in the observed window of time
    gained      \* history: credits accrued in that window

bucket == <<credits, accrued>>
sleepers == <<cost, remaining>>
window == <<spent, gained>>
vars == <<bucket, sleepers, calls, window>>

Init ==
    /\ credits = Capacity
    /\ accrued = 0
    /\ cost = [t \in Task |-> 0]
    /\ remaining = [t \in Task |-> 0]
    /\ calls = [t \in Task |-> 0]
    /\ spent = 0
    /\ gained = 0

-----------------------------------------------------------------------------

Least(a, b) == IF a <= b THEN a ELSE b

Monus(a, b) == IF a <= b THEN 0 ELSE a - b

\* Mutant: credits accrue past the capacity.
AvailableUncapped == credits + accrued

\* What _refill makes of _credits.
Available == Least(Capacity, credits + accrued)

\* Mutant: the refill leaves _last_update alone.
RefillTwice(taken) ==
    /\ credits' = Available - taken
    /\ UNCHANGED accrued

Refill(taken) ==
    /\ credits' = Available - taken
    /\ accrued' = 0

\* Mutant: the sleep is as long as the whole cost takes, not the deficit.
SleepTooLong(t, c) ==
    /\ Available < c
    /\ Refill(0)
    /\ cost' = [cost EXCEPT ![t] = c]
    /\ remaining' = [remaining EXCEPT ![t] = c]
    /\ UNCHANGED spent

Sleep(t, c) ==
    /\ Available < c
    /\ Refill(0)
    /\ cost' = [cost EXCEPT ![t] = c]
    /\ remaining' = [remaining EXCEPT ![t] = c - Available]
    /\ UNCHANGED spent

Grant(t, c) ==
    /\ Available >= c
    /\ Refill(c)
    /\ cost' = [cost EXCEPT ![t] = 0]
    /\ spent' = spent + c
    /\ UNCHANGED remaining

\* Mutant: a cost above the capacity is not refused.
AcquireAny(t, c) ==
    /\ cost[t] = 0
    /\ calls[t] < MaxCalls
    /\ c > 0
    /\ calls' = [calls EXCEPT ![t] = @ + 1]
    /\ Grant(t, c) \/ Sleep(t, c)
    /\ UNCHANGED gained

\* acquire(): a cost that could never be granted raises ValueError at once.
Acquire(t, c) ==
    /\ cost[t] = 0
    /\ calls[t] < MaxCalls
    /\ c > 0 /\ c <= Capacity
    /\ calls' = [calls EXCEPT ![t] = @ + 1]
    /\ Grant(t, c) \/ Sleep(t, c)
    /\ UNCHANGED gained

\* Mutant: who has slept is served without another look.
WakeUnchecked(t) ==
    /\ cost[t] # 0
    /\ remaining[t] = 0
    /\ Refill(cost[t])
    /\ cost' = [cost EXCEPT ![t] = 0]
    /\ spent' = spent + cost[t]
    /\ UNCHANGED <<remaining, calls, gained>>

\* The sleep is over: the loop of acquire() goes round again.
Wake(t) ==
    /\ cost[t] # 0
    /\ remaining[t] = 0
    /\ Grant(t, cost[t]) \/ Sleep(t, cost[t])
    /\ UNCHANGED <<calls, gained>>

\* The task is cancelled in its sleep.
Cancel(t) ==
    /\ cost[t] # 0
    /\ cost' = [cost EXCEPT ![t] = 0]
    /\ remaining' = [remaining EXCEPT ![t] = 0]
    /\ UNCHANGED <<bucket, calls, window>>

\* available_credits is a property, but reading it refills.
AvailableCredits ==
    /\ Refill(0)
    /\ UNCHANGED <<sleepers, calls, window>>

(***************************************************************************)
(* Time passes.  The observed window of time goes on, or a new one begins, *)
(* as it must when the window has reached MaxWindow.                       *)
(***************************************************************************)
Tick ==
    /\ accrued' = Least(Capacity, accrued + Rate)   \* more is never credited
    /\ remaining' = [t \in Task |-> Monus(remaining[t], Rate)]
    /\ \/ /\ gained + Rate <= MaxWindow
          /\ gained' = gained + Rate
          /\ UNCHANGED spent
       \/ /\ gained' = 0
          /\ spent' = 0
    /\ UNCHANGED <<credits, cost, calls>>

Next ==
    \/ \E t \in Task : \/ \E c \in Cost : Acquire(t, c)
                       \/ Wake(t) \/ Cancel(t)
    \/ AvailableCredits
    \/ Tick

Spec == Init /\ [][Next]_vars

\* Time goes on, and the event loop resumes a task whose sleep is over.
FairSpec == Spec /\ WF_vars(Tick) /\ \A t \in Task : WF_vars(Wake(t))

-----------------------------------------------------------------------------
(* Properties. *)

\* Types: the credits never exceed the capacity and are never overdrawn, and
\* nobody waits for a cost that the bucket can never hold.
TypeOK ==
    /\ credits \in 0..Capacity
    /\ accrued \in 0..Capacity
    /\ cost \in [Task -> 0..Capacity]
    /\ remaining \in [Task -> Nat]
    /\ calls \in [Task -> 0..MaxCalls]
    /\ spent \in Nat
    /\ gained \in 0..MaxWindow

(***************************************************************************)
(* In no window of time do all tasks together spend more than the burst    *)
(* capacity and what the window replenishes, whatever the tasks interleave *)
(* between two looks at the bucket: acquire() after its sleep, and reads   *)
(* of available_credits.                                                   *)
(***************************************************************************)
WindowBudget == spent <= Capacity + gained

(***************************************************************************)
(* Nobody sleeps past the moment the bucket holds the cost: while a sleep  *)
(* lasts, what remains of it never exceeds what the bucket still lacks.    *)
(***************************************************************************)
NeverOversleeps ==
    \A t \in Task : remaining[t] > 0 => Available + remaining[t] <= cost[t]

\* The bucket that is refilled lazily implements the leaky bucket of the budget.
Budget == INSTANCE CreditBudget WITH level <- Capacity - Available
BudgetImplemented == Budget!Spec

(***************************************************************************)
(* A burst of finitely many calls is worked off: every call of acquire()   *)
(* returns, although sleepers compete and may find the bucket empty again. *)
(***************************************************************************)
EveryAcquireReturns == \A t \in Task : cost[t] # 0 ~> cost[t] = 0

=============================================================================
