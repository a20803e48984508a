---------------------------- MODULE CreditBudget ----------------------------
(***************************************************************************)
(* What CreditRateLimiter (resilience/rate_limit.py) promises the server:  *)
(* the documented budget as a leaky bucket.  The level is the largest      *)
(* excess, over all windows of time ending now, of the credits spent in    *)
(* the window over the credits replenished in it, and never exceeds the    *)
(* burst capacity.  How requests wait is not part of the promise.          *)
(***************************************************************************)
EXTENDS Naturals

CONSTANTS
    Capacity,   \* capacity: credits that may be spent at once
    Rate        \* replenish_rate: credits a tick of the clock brings

VARIABLE level

Init == level = 0

Spend(c) ==
    /\ level + c <= Capacity
    /\ level' = level + c

Replenish == level' = IF level > Rate THEN level - Rate ELSE 0

Next == Replenish \/ \E c \in 1..Capacity : Spend(c)

Spec == Init /\ [][Next]_level

=============================================================================
