----------------------------- MODULE OrderOutcome -----------------------------
(***************************************************************************)
(* What the orders API (domain/orders.py) promises its caller of every     *)
(* order to place or to cancel, whatever rules, retries, timeouts and late *)
(* requests there are in between: an answer is final, unless it is that    *)
(* the outcome is unknown; one can then be looked up by an id the caller   *)
(* knows; the exchange carries it out at most once; and a refusal is       *)
(* binding where there is no such id.  The last two are no promise to a    *)
(* caller who, without an id, retries what may have been placed.           *)
(***************************************************************************)
EXTENDS Naturals

CONSTANTS
    Intent,     \* the orders to place or to cancel
    Anonymous,  \* those the caller cannot look up
    Rash        \* of these, those retried when the outcome is open

VARIABLES
    wanted,     \* those the caller has asked for
    applied,    \* times the exchange has carried one out
    told        \* what the caller knows of it

outcome == <<wanted, applied, told>>

Init ==
    /\ wanted = {}
    /\ applied = [i \in Intent |-> 0]
    /\ told = [i \in Intent |-> "nothing"]

Want(i) ==
    /\ wanted' = wanted \cup {i}
    /\ UNCHANGED <<applied, told>>

Apply(i) ==
    /\ i \in Rash \/ applied[i] = 0
    /\ applied' = [applied EXCEPT ![i] = @ + 1]

Tell(i) ==
    /\ told[i] \in {"nothing", "absent"}
    /\ \E answer \in {"done", "refused", "failed", "unknown"} :
          told' = [told EXCEPT ![i] = answer]

\* The exchange carries an order out, the caller is told, or both at once.
Attempt(i) ==
    /\ i \in wanted
    /\ Apply(i) \/ UNCHANGED applied
    /\ Tell(i) \/ UNCHANGED told
    /\ i \in Anonymous \ Rash /\ told'[i] = "refused" => applied'[i] = 0
    /\ UNCHANGED wanted

LookUp(i) ==
    /\ i \notin Anonymous
    /\ told[i] = "unknown"
    /\ told' = [told EXCEPT ![i] = IF applied[i] = 0 THEN "absent" ELSE "done"]
    /\ UNCHANGED <<wanted, applied>>

Next == \E i \in Intent : Want(i) \/ Attempt(i) \/ LookUp(i)

Spec == Init /\ [][Next]_outcome

=============================================================================
