---------------------------- MODULE OrderRecovery ----------------------------
(***************************************************************************)
(* Recovery of unanswered order requests: OrderStateReconciler running     *)
(* OrderResponseStream.recover_pending (streams/order_response.py) with    *)
(* its own query_locked, while responses still arrive, requests are still  *)
(* sent and user events are still handled.                                 *)
(*                                                                         *)
(* The module adds the stream's pending requests and the recovery loop to  *)
(* OrderReconciler.  The loop keeps the event loop to itself between the   *)
(* end of one query and the lock of the next, as it does not await there.  *)
(* dict order is abstracted: the loop may meet the requests in any order.  *)
(***************************************************************************)
EXTENDS OrderReconciler

CONSTANTS
    Request,    \* request ids of the order response stream
    ReuseIds,   \* TRUE: an id may be used again once it is no longer pending
    Absent,     \* not pending
    NoRequest

ASSUME RequestAssumption ==
    /\ ReuseIds \in BOOLEAN
    /\ Absent \notin Id \cup {NoId}
    /\ NoRequest \notin Request

VARIABLES
    pending,    \* _pending_requests: the cl_ord_id of a request, NoId if it has none
    issued,     \* request ids used so far
    batch,      \* the requests a recovery still has to query, with their cl_ord_id
    current     \* the request whose order it is querying

stream == <<pending, issued>>
loops == <<batch, current>>
rvars == <<vars, stream, loops>>

EmptyBatch == [r \in Request |-> Absent]

RecoveryInit ==
    /\ Init
    /\ pending = EmptyBatch
    /\ issued = {}
    /\ batch = [t \in Task |-> EmptyBatch]
    /\ current = [t \in Task |-> NoRequest]

-----------------------------------------------------------------------------

\* The entries of a map of requests that carry a client order id.
Correlated(requests) == {r \in Request : requests[r] \in Id}

Recovering(t) == Correlated(batch[t]) # {}

\* A recovery that has finished one query and not yet started the next runs on.
BetweenQueries(t) == Recovering(t) /\ current[t] = NoRequest

NobodyElseRuns(t) == \A u \in Task \ {t} : ~BetweenQueries(u)

\* Another coroutine of the application runs while every recovery is suspended.
LoopIsFree == \A t \in Task : ~BetweenQueries(t)

-----------------------------------------------------------------------------
(* The stream: request() and resolve(). *)

\* c is the request's cl_ord_id; NoId stands for auth:login and for orders
\* named otherwise.  An id that is still pending is refused.
Register(r, c) ==
    /\ LoopIsFree
    /\ pending[r] = Absent
    /\ ReuseIds \/ r \notin issued
    /\ pending' = [pending EXCEPT ![r] = c]
    /\ issued' = issued \cup {r}
    /\ UNCHANGED <<vars, loops>>

\* A response of this session that passes _validate_response, whatever its state.
Respond(r) ==
    /\ LoopIsFree
    /\ pending[r] # Absent
    /\ pending' = [pending EXCEPT ![r] = Absent]
    /\ UNCHANGED <<vars, issued, loops>>

-----------------------------------------------------------------------------
(* The loop of recover_pending. *)

\* Mutant: the stream is given the plain query, which takes no lock.
QueryUnlocked(t, r, requests) ==
    /\ pc[t] = "idle"
    /\ pc' = [pc EXCEPT ![t] = "querying"]
    /\ op' = [op EXCEPT ![t] = "recover"]
    /\ key' = [key EXCEPT ![t] = requests[r]]
    /\ batch' = [batch EXCEPT ![t] = [q \in Request |->
                    IF q \in Correlated(requests) THEN requests[q] ELSE Absent]]
    /\ current' = [current EXCEPT ![t] = r]
    /\ UNCHANGED <<server, cache, locks, eventTime, answer, listed, stream>>

\* One turn of the loop, up to the suspension in query_locked.
Query(t, r, requests) ==
    /\ QueryLocked(t, requests[r])
    /\ batch' = [batch EXCEPT ![t] = [q \in Request |->
                    IF q \in Correlated(requests) THEN requests[q] ELSE Absent]]
    /\ current' = [current EXCEPT ![t] = r]
    /\ UNCHANGED stream

\* The requests pending now are the ones to recover: a copy.
StartRecovery(t) ==
    /\ LoopIsFree
    /\ \E r \in Correlated(pending) : Query(t, r, pending)

NextRequest(t) ==
    /\ NobodyElseRuns(t)
    /\ BetweenQueries(t)
    /\ \E r \in Correlated(batch[t]) : Query(t, r, batch[t])

\* Mutant: the request is cleared also when there is no order.
RecoveryAnsweredAlways(t) ==
    /\ LoopIsFree
    /\ RecoverAnswered(t)
    /\ pending' = [pending EXCEPT ![current[t]] = Absent]
    /\ batch' = [batch EXCEPT ![t][current[t]] = Absent]
    /\ current' = [current EXCEPT ![t] = NoRequest]
    /\ UNCHANGED issued

\* Mutant: the loop runs while a request is left, not over a copy.
RecoveryAnsweredUntilEmpty(t) ==
    /\ LoopIsFree
    /\ RecoverAnswered(t)
    /\ IF LockedResult(t) = NoOrder
       THEN UNCHANGED <<pending, batch>>
       ELSE /\ pending' = [pending EXCEPT ![current[t]] = Absent]
            /\ batch' = [batch EXCEPT ![t][current[t]] = Absent]
    /\ current' = [current EXCEPT ![t] = NoRequest]
    /\ UNCHANGED issued

\* query_locked returns: without an order the request stays pending, with one
\* its id is discarded, whatever has become of the id in the meantime.
RecoveryAnswered(t) ==
    /\ LoopIsFree
    /\ RecoverAnswered(t)
    /\ pending' = IF LockedResult(t) = NoOrder THEN pending
                  ELSE [pending EXCEPT ![current[t]] = Absent]
    /\ batch' = [batch EXCEPT ![t][current[t]] = Absent]
    /\ current' = [current EXCEPT ![t] = NoRequest]
    /\ UNCHANGED issued

\* The query raises or the recovery is cancelled: the loop is left.
RecoveryFails(t) ==
    /\ LoopIsFree
    /\ current[t] # NoRequest
    /\ CallFails(t)
    /\ batch' = [batch EXCEPT ![t] = EmptyBatch]
    /\ current' = [current EXCEPT ![t] = NoRequest]
    /\ UNCHANGED stream

-----------------------------------------------------------------------------
(* The other steps of the reconciler. *)

Environment ==
    /\ \/ \E i \in Id : OrderChanges(i) \/ RestCatchesUp(i)
       \/ \E t \in Task : RestAnswers(t) \/ RestLists(t)
    /\ UNCHANGED <<stream, loops>>

OtherCalls(t) ==
    /\ LoopIsFree
    /\ \/ \E i \in Id : \E v \in Reported(i) : ApplyUserEvent(t, i, UpdatedAt[v])
       \/ RestoreOpenOrders(t)
       \/ Granted(t)
       \/ EventAnswered(t)
       \/ RestoreListed(t)
       \/ current[t] = NoRequest /\ CallFails(t)
    /\ UNCHANGED <<stream, loops>>

RecoveryNext ==
    \/ \E r \in Request : \E c \in Id \cup {NoId} : Register(r, c)
    \/ \E r \in Request : Respond(r)
    \/ \E t \in Task : StartRecovery(t) \/ NextRequest(t) \/ RecoveryAnswered(t)
                       \/ RecoveryFails(t) \/ OtherCalls(t)
    \/ Environment

RecoverySpec == RecoveryInit /\ [][RecoveryNext]_rvars

(***************************************************************************)
(* The event loop runs every ready task, and every HTTP request ends with  *)
(* an answer or with a timeout, so a suspended call goes on.  Fairness is  *)
(* strong because a running recovery loop disables the other tasks between *)
(* two of its queries; the loop's queue does not pass a ready task over.   *)
(* No new call, no change of an order and no failure is ever owed.         *)
(***************************************************************************)
RecoveryProgress(t) ==
    \/ NextRequest(t)
    \/ RecoveryAnswered(t)
    \/ LoopIsFree /\ (Granted(t) \/ EventAnswered(t) \/ RestoreListed(t)) /\ UNCHANGED <<stream, loops>>
    \/ (RestAnswers(t) \/ RestLists(t)) /\ UNCHANGED <<stream, loops>>

FairRecoverySpec == RecoverySpec /\ \A t \in Task : SF_rvars(RecoveryProgress(t))

-----------------------------------------------------------------------------
(* Properties. *)

(***************************************************************************)
(* Types, and a recovery that is suspended in a query works on an entry of *)
(* its own copy of the pending requests, under the lock of that order.     *)
(***************************************************************************)
RecoveryTypeOK ==
    /\ pending \in [Request -> Id \cup {NoId, Absent}]
    /\ issued \subseteq Request
    /\ batch \in [Task -> [Request -> Id \cup {Absent}]]
    /\ current \in [Task -> Request \cup {NoRequest}]
    /\ \A t \in Task : current[t] # NoRequest <=> op[t] = "recover"
    /\ \A t \in Task : current[t] # NoRequest => batch[t][current[t]] = key[t]

(***************************************************************************)
(* A request stops being pending only when it is answered, or when its own *)
(* order has a snapshot.  Responses, new requests and other recoveries may *)
(* come in while the query is suspended; request ids are not reused.       *)
(***************************************************************************)
ResolvedByItsOwnOrder ==
    [][\A r \in Request : pending[r] # Absent /\ pending'[r] = Absent =>
          \/ Respond(r)
          \/ \E t \in Task : /\ current[t] = r
                             /\ key[t] = pending[r]
                             /\ LockedResult(t) # NoOrder]_rvars

(***************************************************************************)
(* What the documents say of a query that finds nothing: the request stays *)
(* pending and waits for a later recovery.                                 *)
(***************************************************************************)
MissingOrderStaysPending ==
    [][\A t \in Task : RecoveryAnswered(t) /\ answer[t] = NoOrder
                          => pending' = pending]_rvars

\* The recovery loop ends, whatever the other tasks do with the same locks.
RecoveryEnds == \A t \in Task : Recovering(t) ~> ~Recovering(t)

\* The recovery loop uses the reconciler as any other caller would: every
\* step is one of the reconciler's or leaves it alone (OrderReconciler!Spec).
ReconcilerImplemented == Spec

(***************************************************************************)
(* A recovery that shares the reconciler's locks keeps the promise of      *)
(* PendingRequests, if ids are not reused.  Whether a request could be     *)
(* sent is not modelled here: each counts as sent.                         *)
(***************************************************************************)
Requests ==
    INSTANCE PendingRequests WITH
        pending <- {r \in Request : pending[r] # Absent},
        known <- {r \in issued : pending[r] = Absent},
        sends <- [r \in Request |-> IF r \in issued THEN 1 ELSE 0]

RequestsImplemented == Requests!Spec

=============================================================================
