--------------------------- MODULE PendingRequests ---------------------------
(***************************************************************************)
(* What the order response stream (streams/order_response.py) promises of  *)
(* its requests, whatever connections, responses, recoveries and callers   *)
(* there are in between: a request is registered once and reaches the      *)
(* server at most once, then; it stays pending until its outcome is known, *)
(* and no outcome becomes known of a request that is not pending.          *)
(***************************************************************************)
EXTENDS Naturals

CONSTANT Request    \* request ids, each used for one request

VARIABLES
    pending,    \* requests without an outcome
    known,      \* requests whose outcome is known
    sends       \* times the server was sent a request

requests == <<pending, known, sends>>

Init ==
    /\ pending = {}
    /\ known = {}
    /\ sends = [r \in Request |-> 0]

\* A request is registered and sent, or registered only.
Ask(r) ==
    /\ r \notin pending \cup known
    /\ pending' = pending \cup {r}
    /\ sends' \in {sends, [sends EXCEPT ![r] = 1]}
    /\ UNCHANGED known

Learn(r) ==
    /\ r \in pending
    /\ pending' = pending \ {r}
    /\ known' = known \cup {r}
    /\ UNCHANGED sends

Next == \E r \in Request : Ask(r) \/ Learn(r)

Spec == Init /\ [][Next]_requests

=============================================================================
