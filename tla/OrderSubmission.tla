--------------------------- MODULE OrderSubmission ---------------------------
(***************************************************************************)
(* OrdersApi.create, cancel and cancel_many (domain/orders.py): rules from *)
(* the symbol cache, local checks, one signed POST, and what the caller is *)
(* told.  The caller may wrap a call in RetryPolicy.execute.               *)
(*                                                                         *)
(* An intent is one order the caller wants placed or cancelled.  A request *)
(* that its task gave up may still reach the exchange later, or never.     *)
(* The exchange places an order once per cl_ord_id, and cancels it once.   *)
(***************************************************************************)
EXTENDS SymbolRules, OrderRules, RestErrors, FiniteSets

CONSTANTS
    Create, Cancel,     \* the intents
    Named,              \* orders with a cl_ord_id of the caller
    NoIntent,
    Request,            \* the CreateOrderRequest of an order
    Position,           \* what its caller says of the position
    RetryableCodes,     \* of the policy around the calls of an intent, {} without one
    RulesOf,            \* the rules of a symbol by version
    Statuses,           \* HTTP statuses of failures that the exchange answers with
    RetryAfters,        \* values of Retry-After
    MaxIntents,         \* bound: intents the application ever works on
    MaxLate             \* bound: requests on their way when an intent is repeated

\* Codes that say the request was not carried out.
Refusals == {"VALIDATION_ERROR", "AUTH_FAILED", "PERMISSION_DENIED", "NOT_FOUND",
             "RATE_LIMITED", "TOKEN_EXPIRED"}

\* Codes that leave open whether it was, and may be retried.
OpenCodes == {"SERVER_ERROR", "PROTOCOL_ERROR"}

AllCodes == Refusals \cup OpenCodes \cup {"REQUEST_TIMEOUT", "ORDER_UNKNOWN"}

ASSUME SubmissionAssumption ==
    /\ Named \subseteq Create
    /\ Create \cap Cancel = {}
    /\ NoIntent \notin Create \cup Cancel
    /\ Statuses \subseteq Nat
    /\ RetryAfters \subseteq Nat
    /\ RetryableCodes \in [Create \cup Cancel -> SUBSET AllCodes \cup {AnyCode}]
    /\ \A i \in Create : WellFormed(Request[i]) /\ Request[i].symbol \in Symbol
    /\ \A s \in Symbol, v \in 1..MaxVersion : RulesOf[s][v].symbol = s

Intent == Create \cup Cancel

VARIABLES
    intent,     \* the intent a task works on
    attempt,    \* the attempt of the policy it is in
    delay,      \* the delay of the policy
    wait,       \* the pause before the next attempt
    applied,    \* times the exchange has carried an intent out
    late,       \* requests nobody waits for any more
    told        \* what the caller knows of an intent

policy == <<intent, attempt, delay, wait>>
exchange == <<applied, late>>
submissionVars == <<vars, policy, exchange, told>>

\* What a caller makes of the error of a call.
Outcome(code) ==
    IF code = "ORDER_UNKNOWN" THEN "unknown" ELSE IF code \in Refusals THEN "refused" ELSE "failed"

\* Orders without a cl_ord_id of the caller, in a policy that retries what may
\* have been placed: the default policy does.  Each attempt has an id of its own.
Rash ==
    {i \in Create \ Named :
        RetryableCodes[i] = AnyCode \/ RetryableCodes[i] \cap OpenCodes # {}}

SubmissionInit ==
    /\ Init
    /\ intent = [t \in Task |-> NoIntent]
    /\ attempt = [t \in Task |-> 1]
    /\ delay = [t \in Task |-> InitialDelay]
    /\ wait = [t \in Task |-> 0]
    /\ applied = [i \in Intent |-> 0]
    /\ late = [i \in Intent |-> 0]
    /\ told = [i \in Intent |-> "nothing"]

-----------------------------------------------------------------------------
(* The call. *)

\* create asks for the rules of its symbol first.
StartCreate(t, i) == Ask(t, Request[i].symbol, FALSE, "checking")

\* cancel and cancel_many post at once.
StartCancel(t) ==
    /\ pc' = [pc EXCEPT ![t] = "ready"]
    /\ UNCHANGED <<store, call, got, history>>

Start(t, i) ==
    \/ i \in Create /\ StartCreate(t, i)
    \/ i \in Cancel /\ StartCancel(t)

Begun == {i \in Intent : told[i] # "nothing" \/ \E t \in Task : intent[t] = i}

\* A caller repeats what had an unknown outcome and was then not found.
Submit(t, i) ==
    /\ pc[t] = "idle"
    /\ \A u \in Task : intent[u] # i
    /\ \/ told[i] = "nothing" /\ Cardinality(Begun) < MaxIntents
       \/ told[i] = "absent" /\ late[i] < MaxLate
    /\ intent' = [intent EXCEPT ![t] = i]
    /\ Start(t, i)
    /\ UNCHANGED <<attempt, delay, wait, exchange, told>>

\* The call is over, with what it returns or raises.
Finish(t, outcome) ==
    /\ Leave(t, "idle")
    /\ told' = [told EXCEPT ![intent[t]] = outcome]
    /\ intent' = [intent EXCEPT ![t] = NoIntent]
    /\ attempt' = [attempt EXCEPT ![t] = 1]
    /\ delay' = [delay EXCEPT ![t] = InitialDelay]
    /\ wait' = [wait EXCEPT ![t] = 0]

\* A call of symbol_info on its own is in no policy.
Codes(t) == IF intent[t] = NoIntent THEN {} ELSE RetryableCodes[intent[t]]

\* execute catches an error and pauses, or lets it through.
Raise(t, error, retryAfter) ==
    /\ \/ /\ ~Retries(error, Codes(t), attempt[t])
          /\ Finish(t, Outcome(error.code))
       \/ /\ Retries(error, Codes(t), attempt[t])
          /\ Leave(t, "pausing")
          /\ wait' = [wait EXCEPT ![t] = Pause(delay[t], retryAfter)]
          /\ delay' = [delay EXCEPT ![t] = NextDelay(@)]
          /\ UNCHANGED <<intent, attempt, told>>
    /\ UNCHANGED <<store, newest, spare>>

\* The next attempt makes the whole call again.
PauseOver(t) ==
    /\ pc[t] = "pausing"
    /\ attempt' = [attempt EXCEPT ![t] = @ + 1]
    /\ wait' = [wait EXCEPT ![t] = 0]
    /\ Start(t, intent[t])
    /\ UNCHANGED <<intent, delay, exchange, told>>

\* The Retry-After of an answer, if it has one.
Pauses == {{}} \cup {{a} : a \in RetryAfters}

\* The rules could not be had.
RulesError(t) ==
    /\ pc[t] = "raised"
    /\ \/ \E error \in {TimedOut, Disconnected, Garbled} : Raise(t, error, {})
       \/ \E status \in Statuses, pause \in Pauses : Raise(t, HttpError(status), pause)
    /\ UNCHANGED exchange

MayPost(t) ==
    LET i == intent[t]
    IN  MeetsRules(Request[i], RulesOf[Request[i].symbol][got[t]], Position[i])

\* Between the rules and the check nothing that the check reads can change.
Checked(t) ==
    /\ pc[t] = "checking"
    /\ \/ /\ MayPost(t)
          /\ pc' = [pc EXCEPT ![t] = "ready"]
          /\ UNCHANGED <<store, call, got, history, policy, told>>
       \/ /\ ~MayPost(t)
          /\ Raise(t, Error("VALIDATION_ERROR", FALSE), {})
    /\ UNCHANGED exchange

\* The transport waits for credits, then the request is on its way; or its
\* token has expired.
Post(t) ==
    /\ pc[t] = "ready"
    /\ \/ /\ Leave(t, "posting")
          /\ UNCHANGED <<store, newest, spare, policy, told>>
       \/ Raise(t, Error("TOKEN_EXPIRED", FALSE), {})
    /\ UNCHANGED exchange

-----------------------------------------------------------------------------
(* The exchange. *)

\* Mutant: every request carries a fresh cl_ord_id.
SameIdNever(i) == i \in Cancel

\* The body of every attempt carries the same cl_ord_id, or order to cancel.
SameId(i) == i \in Named \cup Cancel

Duplicate(i) == SameId(i) /\ applied[i] > 0

Carry(i) == applied' = IF Duplicate(i) THEN applied ELSE [applied EXCEPT ![i] = @ + 1]

\* A request that was given up arrives.
ArrivesLate(i) ==
    /\ late[i] > 0
    /\ late' = [late EXCEPT ![i] = @ - 1]
    /\ Carry(i)
    /\ UNCHANGED <<vars, policy, told>>

-----------------------------------------------------------------------------
(* What the caller is told. *)

\* Mutant: a timeout is passed on as it is.
ReportedAsIs(error) == error

OrderUnknown == Error("ORDER_UNKNOWN", FALSE)

\* A timeout, local or HTTP 408, leaves the outcome unknown and is final.
Reported(error) == IF error.code = "REQUEST_TIMEOUT" THEN OrderUnknown ELSE error

\* The request arrives and is answered: with a result, whose code is left to
\* the caller, with a body that does not decode, or with an error, of which
\* 408 and 5xx do not say that the request was not carried out.
Answered(t) ==
    /\ pc[t] = "posting"
    /\ Carry(intent[t]) \/ UNCHANGED applied
    /\ \/ Finish(t, "done") /\ UNCHANGED <<store, newest, spare>>
       \/ Raise(t, Garbled, {})
       \/ \E status \in Statuses, pause \in Pauses :
             /\ status = 408 \/ status >= 500 \/ applied' = applied
             /\ Reported(HttpError(status)) = OrderUnknown => pause = {}
             /\ Raise(t, Reported(HttpError(status)), pause)
    /\ UNCHANGED late

\* The task gives its request up, on its way or carried out by then: it times
\* out or loses the connection.
GivesUp(t) ==
    /\ pc[t] = "posting"
    /\ \/ late' = [late EXCEPT ![intent[t]] = @ + 1] /\ UNCHANGED applied
       \/ Carry(intent[t]) /\ UNCHANGED late
    /\ \E error \in {TimedOut, Disconnected} : Raise(t, Reported(error), {})

\* query_order, after an unknown outcome, by an id the caller knows.
QueryOrder(i) ==
    /\ told[i] = "unknown"
    /\ i \in Named \cup Cancel
    /\ told' = [told EXCEPT ![i] = IF applied[i] > 0 THEN "done" ELSE "absent"]
    /\ UNCHANGED <<vars, policy, exchange>>

SubmissionStep(t) ==
    \/ RulesStep(t) /\ UNCHANGED <<policy, exchange, told>>
    \/ RulesError(t) \/ Checked(t) \/ Post(t) \/ Answered(t) \/ GivesUp(t) \/ PauseOver(t)

SubmissionNext ==
    \/ /\ \/ \E s \in Symbol : Publish(s) \/ Clear({s})
          \/ Clear(Symbol)
          \/ \E t \in Task : RulesFail(t) \/ \E s \in Symbol : SymbolInfo(t, s, TRUE)
       /\ UNCHANGED <<policy, exchange, told>>
    \/ \E t \in Task :
          \/ \E i \in Intent : Submit(t, i)
          \/ SubmissionStep(t)
    \/ \E i \in Intent : ArrivesLate(i) \/ QueryOrder(i)

SubmissionSpec == SubmissionInit /\ [][SubmissionNext]_submissionVars

-----------------------------------------------------------------------------
(* Properties. *)

\* Types: no attempt beyond the policy's, and no pause beyond its maximum
\* whatever Retry-After says.
SubmissionTypeOK ==
    /\ RulesTypeOK
    /\ pc \in [Task -> {"idle", "waiting", "asking", "answered", "given", "raised",
                        "checking", "ready", "posting", "pausing"}]
    /\ intent \in [Task -> Intent \cup {NoIntent}]
    /\ attempt \in [Task -> 1..MaxAttempts]
    /\ delay \in [Task -> 0..MaxDelay \cup {InitialDelay}]
    /\ wait \in [Task -> 0..MaxDelay]
    /\ applied \in [Intent -> Nat]
    /\ late \in [Intent -> Nat]
    /\ told \in [Intent -> {"nothing", "done", "refused", "failed", "unknown", "absent"}]

(***************************************************************************)
(* Nothing the caller wants once is done twice: whatever times out, is cut *)
(* off, answered by an error, retried or repeated by a caller who found    *)
(* nothing, and however late the requests given up arrive.  An order with  *)
(* a cl_ord_id of its caller, and a cancel, may be retried at any error,   *)
(* as the exchange knows the id again; an order without one owes it to     *)
(* the errors of create, of which a policy that is given the right codes   *)
(* retries none that may have placed it.  It is false of the rash orders,  *)
(* those of the default policy among them.                                 *)
(***************************************************************************)
AppliedOnce == \A i \in Intent \ Rash : applied[i] <= 1

(***************************************************************************)
(* What the default policy does to an order without a cl_ord_id is bounded *)
(* by its attempts: each sends one request, with an id of its own, and a   *)
(* timeout ends them.  So many may be placed, some after the caller was    *)
(* told; never more.                                                       *)
(***************************************************************************)
OneRequestPerAttempt ==
    \A i \in Create \ Named : applied[i] + late[i] <= MaxAttempts

(***************************************************************************)
(* A caller who did not name an order has nothing to look it up by, and    *)
(* only the error to go by: if that is a refusal, the order is not placed  *)
(* and no request that could still place it is on its way.  This holds if  *)
(* its policy retries nothing that may have placed it: under the default   *)
(* policy the refusal is only of the last attempt.                         *)
(***************************************************************************)
RefusedIsNotApplied ==
    \A i \in (Create \ Named) \ Rash :
        told[i] = "refused" => applied[i] = 0 /\ late[i] = 0

(***************************************************************************)
(* A submission keeps the promise of OrderOutcome: at each step the one    *)
(* order it is about is carried out or its caller told, an answer is never *)
(* taken back, and, but for the rash orders, nothing is placed twice or    *)
(* behind a refusal that the caller has no means to verify.                *)
(***************************************************************************)
Outcomes == INSTANCE OrderOutcome WITH wanted <- Begun, Anonymous <- Create \ Named

OutcomeImplemented == Outcomes!Spec

(***************************************************************************)
(* Creating an order is, to the market API, a call of symbol_info as any   *)
(* other: the caller has the rules in hand until the request is on its way *)
(* or the attempt is over, and none of what surrounds the call - policy,   *)
(* exchange, cancels - shows in the cache.  (SymbolRules!Spec)             *)
(***************************************************************************)
HasRules(t) ==
    \/ pc[t] \in {"given", "checking"}
    \/ pc[t] = "ready" /\ got[t] # NoRules

\* Where symbol_info sees a task, and where it lets it go on.
MarketPlace(t) ==
    IF HasRules(t) THEN "given"
    ELSE IF pc[t] \in {"waiting", "asking", "answered"} THEN pc[t] ELSE "idle"

MarketAfter(t) == IF after[t] = "idle" THEN "idle" ELSE "given"

Market ==
    INSTANCE SymbolRules WITH
        pc <- [t \in Task |-> MarketPlace(t)],
        after <- [t \in Task |-> MarketAfter(t)]

SymbolRulesImplemented == Market!Spec

=============================================================================
