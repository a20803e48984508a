-------------------------- MODULE RateLimiterProofs --------------------------
(***************************************************************************)
(* The budget of CreditRateLimiter for every capacity, rate, cost and      *)
(* number of tasks.  The inductive invariant adds to the types a ledger:   *)
(* whatever a window has spent, and the bucket still holds, was in the     *)
(* bucket when the window began or has accrued in it.                      *)
(***************************************************************************)
EXTENDS RateLimiter, TLAPS

\* What the window has spent and the bucket still holds had to come from somewhere.
Ledger == spent + Available <= Capacity + gained

IInv == TypeOK /\ Ledger /\ NeverOversleeps

-----------------------------------------------------------------------------
(* The bucket. *)

\* The refilled bucket holds no more than the capacity.
LEMMA AvailableType ==
    ASSUME TypeOK
    PROVE  Available \in 0..Capacity
BY LimiterAssumption DEF TypeOK, Available, Least

\* Looking at the bucket does not change what it holds; taking from it does.
LEMMA AvailableAfterRefill ==
    ASSUME TypeOK, NEW taken \in 0..Available, Refill(taken)
    PROVE  /\ Available' = Available - taken
           /\ credits' \in 0..Capacity
           /\ accrued' = 0
BY LimiterAssumption DEF TypeOK, Refill, Available, Least

\* A tick adds at most Rate to the bucket.
LEMMA AvailableAfterTick ==
    ASSUME TypeOK, Tick
    PROVE  /\ Available <= Available'
           /\ Available' <= Available + Rate
           /\ Available' <= Capacity
           /\ accrued' \in 0..Capacity
BY LimiterAssumption DEF TypeOK, Tick, Available, Least

-----------------------------------------------------------------------------
(* Every action preserves the invariant. *)

LEMMA GrantKeeps ==
    ASSUME IInv, NEW t \in Task, NEW c \in 1..Capacity, remaining[t] = 0,
           Grant(t, c), calls' \in [Task -> 0..MaxCalls], UNCHANGED gained
    PROVE  IInv'
<1>1. Available \in 0..Capacity
  BY AvailableType DEF IInv
<1>2. c \in 0..Available
  BY <1>1 DEF Grant
<1>3. /\ Available' = Available - c
      /\ credits' \in 0..Capacity
      /\ accrued' = 0
  BY <1>2, AvailableAfterRefill DEF IInv, Grant
<1>4. cost' = [cost EXCEPT ![t] = 0]
  BY DEF Grant
<1>5. remaining' = remaining
  BY DEF Grant
<1>6. TypeOK'
  <2>1. cost' \in [Task -> 0..Capacity]
    BY <1>4, LimiterAssumption DEF IInv, TypeOK
  <2>2. spent' \in Nat /\ gained' \in 0..MaxWindow
    BY DEF IInv, TypeOK, Grant
  <2>3. accrued' \in 0..Capacity /\ remaining' \in [Task -> Nat]
    BY <1>3, <1>5, LimiterAssumption DEF IInv, TypeOK
  <2> QED
    BY <1>3, <2>1, <2>2, <2>3 DEF TypeOK
<1>7. Ledger'
  BY <1>1, <1>3, LimiterAssumption DEF IInv, TypeOK, Ledger, Grant
<1>8. NeverOversleeps'
  <2> SUFFICES ASSUME NEW u \in Task, remaining'[u] > 0
               PROVE  Available' + remaining'[u] <= cost'[u]
    BY DEF NeverOversleeps
  <2>1. u # t /\ remaining'[u] = remaining[u] /\ remaining[u] \in Nat
    BY <1>5 DEF IInv, TypeOK
  <2>2. cost'[u] = cost[u] /\ cost[u] \in Nat
    BY <2>1, <1>4, LimiterAssumption DEF IInv, TypeOK
  <2>3. Available + remaining[u] <= cost[u]
    BY <2>1 DEF IInv, NeverOversleeps
  <2> QED
    BY <1>1, <1>2, <1>3, <2>1, <2>2, <2>3, LimiterAssumption
<1> QED
  BY <1>6, <1>7, <1>8 DEF IInv

LEMMA SleepKeeps ==
    ASSUME IInv, NEW t \in Task, NEW c \in 1..Capacity,
           Sleep(t, c), calls' \in [Task -> 0..MaxCalls], UNCHANGED gained
    PROVE  IInv'
<1>1. Available \in 0..Capacity /\ Available < c
  BY AvailableType DEF IInv, Sleep
<1>2. /\ Available' = Available
      /\ credits' \in 0..Capacity
      /\ accrued' = 0
  BY <1>1, AvailableAfterRefill, 0 \in 0..Available DEF IInv, Sleep
<1>3. cost' = [cost EXCEPT ![t] = c]
  BY DEF Sleep
<1>4. remaining' = [remaining EXCEPT ![t] = c - Available] /\ c - Available \in Nat
  BY <1>1 DEF Sleep
<1>5. TypeOK'
  <2>1. cost' \in [Task -> 0..Capacity]
    BY <1>3, LimiterAssumption DEF IInv, TypeOK
  <2>2. spent' \in Nat /\ gained' \in 0..MaxWindow
    BY DEF IInv, TypeOK, Sleep
  <2>3. accrued' \in 0..Capacity /\ remaining' \in [Task -> Nat]
    BY <1>2, <1>4, LimiterAssumption DEF IInv, TypeOK
  <2> QED
    BY <1>2, <2>1, <2>2, <2>3 DEF TypeOK
<1>6. Ledger'
  BY <1>2 DEF IInv, Ledger, Sleep
<1>7. NeverOversleeps'
  <2> SUFFICES ASSUME NEW u \in Task, remaining'[u] > 0
               PROVE  Available' + remaining'[u] <= cost'[u]
    BY DEF NeverOversleeps
  <2>1. CASE u = t
    BY <2>1, <1>1, <1>2, <1>3, <1>4, LimiterAssumption DEF IInv, TypeOK
  <2>2. CASE u # t
    BY <2>2, <1>2, <1>3, <1>4 DEF IInv, TypeOK, NeverOversleeps
  <2> QED
    BY <2>1, <2>2
<1> QED
  BY <1>5, <1>6, <1>7 DEF IInv

LEMMA CancelKeeps ==
    ASSUME IInv, NEW t \in Task, Cancel(t)
    PROVE  IInv'
<1>1. TypeOK'
  BY LimiterAssumption DEF IInv, TypeOK, Cancel, bucket, window
<1>2. Available' = Available
  BY DEF Available, Cancel, bucket
<1>3. Ledger'
  BY <1>2 DEF IInv, Ledger, Cancel, window
<1>4. NeverOversleeps'
  BY <1>2 DEF IInv, TypeOK, NeverOversleeps, Cancel
<1> QED
  BY <1>1, <1>3, <1>4 DEF IInv

LEMMA ReadKeeps ==
    ASSUME IInv, AvailableCredits
    PROVE  IInv'
<1>1. Available \in 0..Capacity
  BY AvailableType DEF IInv
<1>2. /\ Available' = Available
      /\ credits' \in 0..Capacity
      /\ accrued' = 0
  BY <1>1, AvailableAfterRefill, 0 \in 0..Available DEF IInv, AvailableCredits
<1>3. UNCHANGED <<cost, remaining, calls, spent, gained>>
  BY DEF AvailableCredits, sleepers, window
<1> QED
  BY <1>2, <1>3, LimiterAssumption DEF IInv, TypeOK, Ledger, NeverOversleeps

LEMMA TickKeeps ==
    ASSUME IInv, Tick
    PROVE  IInv'
<1>1. Available \in 0..Capacity
  BY AvailableType DEF IInv
<1>2. /\ Available <= Available'
      /\ Available' <= Available + Rate
      /\ Available' <= Capacity
      /\ accrued' \in 0..Capacity
  BY AvailableAfterTick DEF IInv
<1>3. Available' \in Nat
  BY <1>2, LimiterAssumption DEF IInv, TypeOK, Tick, Available, Least
<1>4. remaining' = [t \in Task |-> Monus(remaining[t], Rate)]
  BY DEF Tick
<1>5. \A t \in Task : Monus(remaining[t], Rate) \in Nat
  BY LimiterAssumption DEF IInv, TypeOK, Monus
<1>6. TypeOK'
  BY <1>2, <1>4, <1>5, LimiterAssumption DEF IInv, TypeOK, Tick
<1>7. Ledger'
  BY <1>1, <1>2, <1>3, LimiterAssumption DEF IInv, TypeOK, Ledger, Tick
<1>8. NeverOversleeps'
  <2> SUFFICES ASSUME NEW t \in Task, remaining'[t] > 0
               PROVE  Available' + remaining'[t] <= cost'[t]
    BY DEF NeverOversleeps
  <2>1. remaining'[t] = remaining[t] - Rate /\ remaining[t] > 0 /\ remaining[t] \in Nat
    BY <1>4, LimiterAssumption DEF IInv, TypeOK, Monus
  <2>2. Available + remaining[t] <= cost[t]
    BY <2>1 DEF IInv, NeverOversleeps
  <2>3. cost'[t] = cost[t] /\ cost[t] \in Nat
    BY LimiterAssumption DEF IInv, TypeOK, Tick
  <2> QED
    BY <1>1, <1>2, <1>3, <2>1, <2>2, <2>3, LimiterAssumption
<1> QED
  BY <1>6, <1>7, <1>8 DEF IInv

-----------------------------------------------------------------------------
(* The invariant of the specification. *)

\* A task that is not suspended has no sleep left.
IdleInv == \A t \in Task : cost[t] = 0 => remaining[t] = 0

\* A sleep is what a positive cost still lacks, so an idle task has none.
LEMMA IdleHasNoSleep ==
    ASSUME IInv
    PROVE  IdleInv
<1> SUFFICES ASSUME NEW t \in Task, cost[t] = 0, remaining[t] # 0
             PROVE  FALSE
  BY DEF IdleInv
<1>1. remaining[t] > 0 /\ remaining[t] \in Nat
  BY DEF IInv, TypeOK
<1>2. Available + remaining[t] <= 0 /\ Available \in Nat
  BY <1>1, AvailableType, LimiterAssumption DEF IInv, NeverOversleeps
<1> QED
  BY <1>1, <1>2

LEMMA LimiterInit == Init => IInv
BY LimiterAssumption DEF Init, IInv, TypeOK, Ledger, NeverOversleeps, Available, Least

\* One step per action; Acquire and Wake grant or sleep.
LEMMA LimiterStep ==
    ASSUME IInv, [Next]_vars
    PROVE  IInv'
<1>1. ASSUME NEW t \in Task, NEW c \in Cost, Acquire(t, c)
      PROVE  IInv'
  <2>1. c \in 1..Capacity /\ remaining[t] = 0
    BY <1>1, IdleHasNoSleep, LimiterAssumption DEF Acquire, IdleInv
  <2>2. calls' \in [Task -> 0..MaxCalls] /\ UNCHANGED gained
    BY <1>1, LimiterAssumption DEF Acquire, IInv, TypeOK
  <2> QED
    BY <1>1, <2>1, <2>2, GrantKeeps, SleepKeeps DEF Acquire
<1>2. ASSUME NEW t \in Task, Wake(t)
      PROVE  IInv'
  <2>1. cost[t] \in 1..Capacity /\ remaining[t] = 0
    BY <1>2, LimiterAssumption DEF Wake, IInv, TypeOK
  <2>2. calls' \in [Task -> 0..MaxCalls] /\ UNCHANGED gained
    BY <1>2 DEF Wake, IInv, TypeOK
  <2> QED
    BY <1>2, <2>1, <2>2, GrantKeeps, SleepKeeps DEF Wake
<1>3. CASE UNCHANGED vars
  BY <1>3 DEF vars, bucket, sleepers, window, IInv, TypeOK, Ledger, NeverOversleeps, Available
<1> QED
  BY <1>1, <1>2, <1>3, CancelKeeps, ReadKeeps, TickKeeps DEF Next

\* What acquire() spent in a window and what the bucket still holds are at most
\* the capacity and what the window brought.
THEOREM LimiterInvariant == Spec => []IInv
BY LimiterInit, LimiterStep, PTL DEF Spec

-----------------------------------------------------------------------------
(* The results. *)

\* The bucket is never overdrawn nor overfull, and nobody waits for a cost that
\* it can never hold, however the calls, wake-ups, cancellations and reads of
\* available_credits interleave.
THEOREM LimiterTypes == Spec => []TypeOK
<1>1. IInv => TypeOK
  BY DEF IInv
<1> QED
  BY <1>1, LimiterInvariant, PTL

(***************************************************************************)
(* In every window of time the requests of all tasks together spend at     *)
(* most the burst capacity and what the window replenishes (acquire and    *)
(* _refill), for every capacity, rate, cost and number of tasks.           *)
(***************************************************************************)
THEOREM BudgetIsKept == Spec => []WindowBudget
<1>1. IInv => WindowBudget
  <2> SUFFICES ASSUME IInv PROVE WindowBudget
    OBVIOUS
  <2>1. Available \in Nat
    BY AvailableType, LimiterAssumption DEF IInv
  <2> QED
    BY <2>1, LimiterAssumption DEF IInv, TypeOK, Ledger, WindowBudget
<1> QED
  BY <1>1, LimiterInvariant, PTL

\* acquire() never asks sleep() for more time than the deficit takes to accrue,
\* also when others spend the credits it was waiting for.
THEOREM SleepIsNeverTooLong == Spec => []NeverOversleeps
<1>1. IInv => NeverOversleeps
  BY DEF IInv
<1> QED
  BY <1>1, LimiterInvariant, PTL

(***************************************************************************)
(* The lazily refilled bucket implements the leaky bucket CreditBudget:    *)
(* a grant is a Spend, a tick a Replenish, every other step a stutter.     *)
(***************************************************************************)
THEOREM LimiterImplementsBudget == Spec => BudgetImplemented
<1>1. Init => Budget!Init
  BY LimiterAssumption DEF Init, Budget!Init, Available, Least
<1>2. ASSUME IInv, [Next]_vars
      PROVE  [Budget!Next]_(Capacity - Available)
  <2>0. Available \in 0..Capacity
    BY <1>2, AvailableType DEF IInv
  <2>1. ASSUME NEW t \in Task, NEW c \in 1..Capacity, Grant(t, c)
        PROVE  Budget!Next
    <3>1. c \in 0..Available
      BY <2>0, <2>1 DEF Grant
    <3>2. Available' = Available - c
      BY <1>2, <2>1, <3>1, AvailableAfterRefill DEF IInv, Grant
    <3>3. Budget!Spend(c)
      BY <2>0, <3>1, <3>2, LimiterAssumption DEF Budget!Spend
    <3> QED
      BY <3>3 DEF Budget!Next
  <2>2. ASSUME Refill(0)
        PROVE  UNCHANGED (Capacity - Available)
    BY <1>2, <2>0, <2>2, AvailableAfterRefill, 0 \in 0..Available DEF IInv
  <2>3. ASSUME NEW t \in Task, NEW c \in Cost, Acquire(t, c)
        PROVE  [Budget!Next]_(Capacity - Available)
    BY <2>1, <2>2, <2>3, LimiterAssumption DEF Acquire, Sleep
  <2>4. ASSUME NEW t \in Task, Wake(t)
        PROVE  [Budget!Next]_(Capacity - Available)
    <3>1. cost[t] \in 1..Capacity
      BY <1>2, <2>4, LimiterAssumption DEF Wake, IInv, TypeOK
    <3> QED
      BY <2>1, <2>2, <2>4, <3>1 DEF Wake, Sleep
  <2>5. ASSUME NEW t \in Task, Cancel(t)
        PROVE  UNCHANGED (Capacity - Available)
    BY <2>5 DEF Cancel, bucket, Available
  <2>6. CASE AvailableCredits
    BY <2>2, <2>6 DEF AvailableCredits
  <2>7. CASE Tick
    <3>1. Available' = Least(Capacity, Available + Rate)
      BY <1>2, <2>7, LimiterAssumption DEF IInv, TypeOK, Tick, Available, Least
    <3>2. Budget!Replenish
      BY <2>0, <3>1, LimiterAssumption DEF Budget!Replenish, Least
    <3> QED
      BY <3>2 DEF Budget!Next
  <2>8. CASE UNCHANGED vars
    BY <2>8 DEF vars, bucket, Available
  <2> QED
    BY <1>2, <2>3, <2>4, <2>5, <2>6, <2>7, <2>8 DEF Next
<1> QED
  BY <1>1, <1>2, LimiterInvariant, PTL DEF Spec, BudgetImplemented, Budget!Spec

=============================================================================
