--------------------------- MODULE OrderReconciler ---------------------------
(***************************************************************************)
(* OrderStateReconciler (domain/order_recovery.py): the cache of complete  *)
(* order snapshots an application keeps beside the two WebSocket streams.  *)
(* A user event never carries a whole order, so every event makes the      *)
(* reconciler read the order again from REST; recovery of unanswered       *)
(* requests and a restart fill the same cache.                             *)
(*                                                                         *)
(* Concurrency.  The reconciler is a plain object that any number of       *)
(* asyncio tasks call.  An action here is what one task does between two   *)
(* awaits at which it really suspends: waiting for the order's lock and    *)
(* waiting for the REST answer.  REST answers at some moment between the   *)
(* request and the resumption of the task, which is an action of its own.  *)
(*                                                                         *)
(* Data.  The exchange numbers the states an order goes through 1, 2, ...; *)
(* a snapshot is that number, and UpdatedAt gives the updated_at of each.  *)
(* An updated_at that is missing, unparsable or without a zone is NoTime.  *)
(***************************************************************************)
EXTENDS Naturals, SequencesExt

CONSTANTS
    Task,           \* asyncio tasks of the application that call the reconciler
    Id,             \* client order ids
    MaxVersion,     \* bound: states an order goes through
    UpdatedAt,      \* UpdatedAt[v]: the time stamp of state v, or NoTime
    StaleReads,     \* TRUE: a REST read may return an older state than an earlier read did
    EventsAhead,    \* TRUE: a user event may be delivered before REST shows its state
    NoTask, NoId

NoOrder == 0
NoTime == 0
Version == 1..MaxVersion

(***************************************************************************)
(* Later states of an order never carry an earlier time stamp; two states  *)
(* may share one, and a state may carry none.                              *)
(***************************************************************************)
ASSUME ConstantsAssumption ==
    /\ MaxVersion \in Nat
    /\ StaleReads \in BOOLEAN
    /\ EventsAhead \in BOOLEAN
    /\ NoTask \notin Task
    /\ NoId \notin Id

ASSUME UpdatedAtAssumption ==
    /\ UpdatedAt \in [Version -> Nat]
    /\ \A v, w \in Version :
          v <= w /\ UpdatedAt[v] # NoTime /\ UpdatedAt[w] # NoTime
             => UpdatedAt[v] <= UpdatedAt[w]

VARIABLES
    exchange,         \* exchange[i]: newest state of order i, NoOrder before it exists
    rest,             \* rest[i]: newest state of order i that REST shows
    orders,           \* _orders: the cached snapshot, or NoOrder
    eventWatermarks,  \* _event_watermarks: newest event time processed, or NoTime
    holder,           \* _refresh_locks: the task that holds the lock of an order
    waiters,          \* _refresh_locks: the tasks queued on it, first come first
    pc,               \* where a task is suspended
    op,               \* the operation it is in
    key,              \* the order it waits for or works on
    eventTime,        \* the updated_at of the event it handles
    answer,           \* the snapshot query_order returned to it
    listed            \* restore_open_orders: the listed orders still to be stored

server == <<exchange, rest>>
cache == <<orders, eventWatermarks>>
locks == <<holder, waiters>>
calls == <<pc, op, key, eventTime, answer, listed>>
vars == <<server, cache, locks, calls>>

Empty == [i \in Id |-> NoOrder]

Init ==
    /\ rest \in [Id -> 0..MaxVersion]     \* a restart finds orders in any state
    /\ exchange = rest
    /\ orders = Empty
    /\ eventWatermarks = [i \in Id |-> NoTime]
    /\ holder = [i \in Id |-> NoTask]
    /\ waiters = [i \in Id |-> <<>>]
    /\ pc = [t \in Task |-> "idle"]
    /\ op = [t \in Task |-> "none"]
    /\ key = [t \in Task |-> NoId]
    /\ eventTime = [t \in Task |-> NoTime]
    /\ answer = [t \in Task |-> NoOrder]
    /\ listed = [t \in Task |-> Empty]

-----------------------------------------------------------------------------
(* Time stamps and snapshots. *)

\* _parse_timestamp(order.updated_at), or no time when there is no order.
Time(v) == IF v = NoOrder THEN NoTime ELSE UpdatedAt[v]

\* _snapshot_is_at_least: a side without a usable time stamp passes.
SnapshotIsAtLeast(v, time) ==
    time = NoTime \/ Time(v) = NoTime \/ Time(v) >= time

\* Mutant: a snapshot is not compared with the cached order.
StorableOverCached(i, v) ==
    v # NoOrder /\ SnapshotIsAtLeast(v, eventWatermarks[i])

\* The two checks of _store_snapshot: the watermark, then the cached order.
\* An order without a cl_ord_id, which is returned unstored, has no place in Id.
Storable(i, v) ==
    /\ v # NoOrder
    /\ SnapshotIsAtLeast(v, eventWatermarks[i])
    /\ SnapshotIsAtLeast(v, Time(orders[i]))

\* apply_user_event's early return: an event this old was handled already.
AlreadyHandled(i, time) ==
    /\ time # NoTime
    /\ eventWatermarks[i] # NoTime
    /\ time <= eventWatermarks[i]

-----------------------------------------------------------------------------
(* The asyncio.Lock of an order, and the end of a call. *)

\* acquire() returns at once only if nobody holds the lock and nobody queues.
Free(i) == holder[i] = NoTask /\ waiters[i] = <<>>

\* release() wakes the first waiter, which takes the lock when it runs.
HeadOfQueue(t) ==
    /\ pc[t] = "waiting"
    /\ holder[key[t]] = NoTask
    /\ waiters[key[t]] # <<>>
    /\ Head(waiters[key[t]]) = t

Dequeue(i) == waiters' = [waiters EXCEPT ![i] = Tail(@)]

\* Mutant: the answer outlives the call, kept in a field and not in a local.
ReturnKeepingAnswer(t) ==
    /\ pc' = [pc EXCEPT ![t] = "idle"]
    /\ op' = [op EXCEPT ![t] = "none"]
    /\ key' = [key EXCEPT ![t] = NoId]
    /\ eventTime' = [eventTime EXCEPT ![t] = NoTime]
    /\ listed' = [listed EXCEPT ![t] = Empty]
    /\ UNCHANGED answer

Return(t) ==
    /\ pc' = [pc EXCEPT ![t] = "idle"]
    /\ op' = [op EXCEPT ![t] = "none"]
    /\ key' = [key EXCEPT ![t] = NoId]
    /\ eventTime' = [eventTime EXCEPT ![t] = NoTime]
    /\ answer' = [answer EXCEPT ![t] = NoOrder]
    /\ listed' = [listed EXCEPT ![t] = Empty]

\* The call suspends on the lock of i or, once it has it, on query_order(i).
EnterOrWait(t, i) ==
    /\ key' = [key EXCEPT ![t] = i]
    /\ \/ /\ Free(i)
          /\ holder' = [holder EXCEPT ![i] = t]
          /\ pc' = [pc EXCEPT ![t] = "querying"]
          /\ UNCHANGED waiters
       \/ /\ ~Free(i)
          /\ waiters' = [waiters EXCEPT ![i] = Append(@, t)]
          /\ pc' = [pc EXCEPT ![t] = "waiting"]
          /\ UNCHANGED holder

-----------------------------------------------------------------------------
(* The exchange and its REST view. *)

\* The order reaches its next state; the user stream will report it.
OrderChanges(i) ==
    /\ exchange[i] < MaxVersion
    /\ exchange' = [exchange EXCEPT ![i] = @ + 1]
    /\ UNCHANGED <<rest, cache, locks, calls>>

RestCatchesUp(i) ==
    /\ rest[i] < exchange[i]
    /\ rest' = [rest EXCEPT ![i] = @ + 1]
    /\ UNCHANGED <<exchange, cache, locks, calls>>

\* The states a REST read of order i may return.
Readable(i) == IF StaleReads THEN 0..rest[i] ELSE {rest[i]}

\* The states a user event about order i may report: any, again and in any order.
Reported(i) == 1..(IF EventsAhead THEN exchange[i] ELSE rest[i])

RestAnswers(t) ==
    /\ pc[t] = "querying"
    /\ \E v \in Readable(key[t]) : answer' = [answer EXCEPT ![t] = v]
    /\ pc' = [pc EXCEPT ![t] = "answered"]
    /\ UNCHANGED <<server, cache, locks, op, key, eventTime, listed>>

\* An order that is no longer open is missing from the list.
RestLists(t) ==
    /\ pc[t] = "listing"
    /\ \E list \in [Id -> 0..MaxVersion] :
          /\ \A i \in Id : list[i] \in Readable(i) \cup {NoOrder}
          /\ listed' = [listed EXCEPT ![t] = list]
    /\ pc' = [pc EXCEPT ![t] = "listed"]
    /\ UNCHANGED <<server, cache, locks, op, key, eventTime, answer>>

-----------------------------------------------------------------------------
(* apply_user_event.  An event without cl_ord_id returns before any effect. *)

\* Mutant: the watermark moves before the query, not after it.
ApplyUserEventEarly(t, i, time) ==
    /\ pc[t] = "idle"
    /\ Free(i) => ~AlreadyHandled(i, time)
    /\ EnterOrWait(t, i)
    /\ op' = [op EXCEPT ![t] = "event"]
    /\ eventTime' = [eventTime EXCEPT ![t] = time]
    /\ eventWatermarks' = IF Free(i) /\ time # NoTime
                          THEN [eventWatermarks EXCEPT ![i] = time] ELSE eventWatermarks
    /\ UNCHANGED <<server, orders, answer, listed>>

ApplyUserEvent(t, i, time) ==
    /\ pc[t] = "idle"
    /\ Free(i) => ~AlreadyHandled(i, time)
    /\ EnterOrWait(t, i)
    /\ op' = [op EXCEPT ![t] = "event"]
    /\ eventTime' = [eventTime EXCEPT ![t] = time]
    /\ UNCHANGED <<server, cache, answer, listed>>

\* Mutant: the watermark is checked before the lock, not under it.
EventGrantedUnchecked(t) ==
    /\ op[t] = "event"
    /\ HeadOfQueue(t)
    /\ Dequeue(key[t])
    /\ holder' = [holder EXCEPT ![key[t]] = t]
    /\ pc' = [pc EXCEPT ![t] = "querying"]
    /\ UNCHANGED <<server, cache, op, key, eventTime, answer, listed>>

EventGranted(t) ==
    /\ op[t] = "event"
    /\ HeadOfQueue(t)
    /\ Dequeue(key[t])
    /\ \/ /\ AlreadyHandled(key[t], eventTime[t])
          /\ Return(t)
          /\ UNCHANGED holder
       \/ /\ ~AlreadyHandled(key[t], eventTime[t])
          /\ holder' = [holder EXCEPT ![key[t]] = t]
          /\ pc' = [pc EXCEPT ![t] = "querying"]
          /\ UNCHANGED <<op, key, eventTime, answer, listed>>
    /\ UNCHANGED <<server, cache>>

EventAnswered(t) ==
    /\ op[t] = "event"
    /\ pc[t] = "answered"
    /\ eventWatermarks' = IF eventTime[t] = NoTime THEN eventWatermarks
                          ELSE [eventWatermarks EXCEPT ![key[t]] = eventTime[t]]
    /\ orders' = IF answer[t] # NoOrder /\ SnapshotIsAtLeast(answer[t], eventTime[t])
                 THEN [orders EXCEPT ![key[t]] = answer[t]]
                 ELSE orders
    /\ holder' = [holder EXCEPT ![key[t]] = NoTask]
    /\ Return(t)
    /\ UNCHANGED <<server, waiters>>

-----------------------------------------------------------------------------
(* query_locked, the query that recover_pending hands to the stream. *)

QueryLocked(t, i) ==
    /\ pc[t] = "idle"
    /\ EnterOrWait(t, i)
    /\ op' = [op EXCEPT ![t] = "recover"]
    /\ UNCHANGED <<server, cache, eventTime, answer, listed>>

RecoverGranted(t) ==
    /\ op[t] = "recover"
    /\ HeadOfQueue(t)
    /\ Dequeue(key[t])
    /\ holder' = [holder EXCEPT ![key[t]] = t]
    /\ pc' = [pc EXCEPT ![t] = "querying"]
    /\ UNCHANGED <<server, cache, op, key, eventTime, answer, listed>>

\* What query_locked returns: the answer if it was stored, otherwise the
\* cached order, and the answer again if nothing is cached.
LockedResult(t) ==
    IF Storable(key[t], answer[t]) \/ orders[key[t]] = NoOrder
    THEN answer[t]
    ELSE orders[key[t]]

RecoverAnswered(t) ==
    /\ op[t] = "recover"
    /\ pc[t] = "answered"
    /\ orders' = IF Storable(key[t], answer[t])
                 THEN [orders EXCEPT ![key[t]] = answer[t]]
                 ELSE orders
    /\ holder' = [holder EXCEPT ![key[t]] = NoTask]
    /\ Return(t)
    /\ UNCHANGED <<server, eventWatermarks, waiters>>

-----------------------------------------------------------------------------
(* restore_open_orders: the list is read without any lock; each order is   *)
(* then stored under its own lock.  A free lock is taken without           *)
(* suspending, so the loop runs until a lock of the list is busy.          *)

RestoreOpenOrders(t) ==
    /\ pc[t] = "idle"
    /\ pc' = [pc EXCEPT ![t] = "listing"]
    /\ op' = [op EXCEPT ![t] = "restore"]
    /\ UNCHANGED <<server, cache, locks, key, eventTime, answer, listed>>

\* The orders in done are stored; queue is the lock queues before the loop
\* goes on to the end of the list or to a busy lock.
StoreUntilBusy(t, done, queue) ==
    /\ orders' = [i \in Id |-> IF i \in done /\ Storable(i, listed[t][i])
                               THEN listed[t][i] ELSE orders[i]]
    /\ \/ /\ \A i \in Id \ done : listed[t][i] = NoOrder
          /\ waiters' = queue
          /\ Return(t)
       \/ \E i \in Id \ done :
             /\ listed[t][i] # NoOrder
             /\ ~Free(i)
             /\ waiters' = [queue EXCEPT ![i] = Append(@, t)]
             /\ key' = [key EXCEPT ![t] = i]
             /\ listed' = [listed EXCEPT
                             ![t] = [j \in Id |-> IF j \in done THEN NoOrder ELSE @[j]]]
             /\ pc' = [pc EXCEPT ![t] = "waiting"]
             /\ UNCHANGED <<op, eventTime, answer>>
    /\ UNCHANGED <<server, eventWatermarks, holder>>

FreeListed(t) == {i \in Id : listed[t][i] # NoOrder /\ Free(i)}

RestoreListed(t) ==
    /\ pc[t] = "listed"
    /\ \E done \in SUBSET FreeListed(t) : StoreUntilBusy(t, done, waiters)

RestoreGranted(t) ==
    /\ op[t] = "restore"
    /\ HeadOfQueue(t)
    /\ \E done \in SUBSET FreeListed(t) :
          StoreUntilBusy(t, done \cup {key[t]}, [waiters EXCEPT ![key[t]] = Tail(@)])

-----------------------------------------------------------------------------
(* The query fails, or the call is cancelled while it is suspended: the    *)
(* exception leaves the lock, or its queue, and nothing else is done.      *)

\* Mutant: the lock is released only when the query succeeds.
CallFailsHolding(t) ==
    /\ pc[t] # "idle"
    /\ \/ /\ pc[t] = "waiting"
          /\ \E n \in DOMAIN waiters[key[t]] :
                /\ waiters[key[t]][n] = t
                /\ waiters' = [waiters EXCEPT ![key[t]] = RemoveAt(@, n)]
       \/ /\ pc[t] # "waiting"
          /\ UNCHANGED waiters
    /\ Return(t)
    /\ UNCHANGED <<server, cache, holder>>

\* Mutant: a cancelled call stays in the queue of the lock.
CallFailsQueued(t) ==
    /\ pc[t] # "idle"
    /\ holder' = [i \in Id |-> IF holder[i] = t THEN NoTask ELSE holder[i]]
    /\ Return(t)
    /\ UNCHANGED <<server, cache, waiters>>

CallFails(t) ==
    /\ pc[t] # "idle"
    /\ holder' = [i \in Id |-> IF holder[i] = t THEN NoTask ELSE holder[i]]
    /\ \/ /\ pc[t] = "waiting"
          /\ \E n \in DOMAIN waiters[key[t]] :
                /\ waiters[key[t]][n] = t
                /\ waiters' = [waiters EXCEPT ![key[t]] = RemoveAt(@, n)]
       \/ /\ pc[t] # "waiting"
          /\ UNCHANGED waiters
    /\ Return(t)
    /\ UNCHANGED <<server, cache>>

-----------------------------------------------------------------------------

Granted(t) == EventGranted(t) \/ RecoverGranted(t) \/ RestoreGranted(t)

Resumes(t) == EventAnswered(t) \/ RecoverAnswered(t) \/ RestoreListed(t)

Call(t) ==
    \/ \E i \in Id : \E v \in Reported(i) : ApplyUserEvent(t, i, UpdatedAt[v])
    \/ \E i \in Id : QueryLocked(t, i)
    \/ RestoreOpenOrders(t)

Next ==
    \/ \E i \in Id : OrderChanges(i) \/ RestCatchesUp(i)
    \/ \E t \in Task : \/ Call(t)
                       \/ RestAnswers(t) \/ RestLists(t)
                       \/ Granted(t) \/ Resumes(t)
                       \/ CallFails(t)

Spec == Init /\ [][Next]_vars

-----------------------------------------------------------------------------
(* Properties. *)

ServerTypeOK ==
    /\ exchange \in [Id -> 0..MaxVersion]
    /\ rest \in [Id -> 0..MaxVersion]
    /\ \A i \in Id : rest[i] <= exchange[i]

CacheTypeOK ==
    /\ orders \in [Id -> 0..MaxVersion]
    /\ eventWatermarks \in [Id -> Nat]

LockTypeOK ==
    /\ holder \in [Id -> Task \cup {NoTask}]
    /\ waiters \in [Id -> Seq(Task)]

\* An idle task keeps nothing of its last call.
CallTypeOK ==
    /\ pc \in [Task -> {"idle", "waiting", "querying", "answered", "listing", "listed"}]
    /\ op \in [Task -> {"none", "event", "recover", "restore"}]
    /\ key \in [Task -> Id \cup {NoId}]
    /\ eventTime \in [Task -> Nat]
    /\ answer \in [Task -> 0..MaxVersion]
    /\ listed \in [Task -> [Id -> 0..MaxVersion]]
    /\ \A t \in Task : pc[t] = "idle" <=> op[t] = "none"
    /\ \A t \in Task : pc[t] \in {"waiting", "querying", "answered"} <=> key[t] # NoId
    /\ \A t \in Task : pc[t] \in {"querying", "answered"} => op[t] \in {"event", "recover"}
    /\ \A t \in Task : pc[t] \in {"listing", "listed"} => op[t] = "restore"
    /\ \A t \in Task : answer[t] # NoOrder => pc[t] = "answered"

\* Every variable has its type, and REST never runs ahead of the exchange.
TypeOK == ServerTypeOK /\ CacheTypeOK /\ LockTypeOK /\ CallTypeOK

\* A task between its query and the store of the answer.
Refreshing(t) == pc[t] \in {"querying", "answered"}

(***************************************************************************)
(* A refresh of an order is one critical section: a task that has sent     *)
(* query_order and not yet stored the answer holds the lock of its order,  *)
(* and a lock is held only by such a task - no early return, failed query  *)
(* or cancellation leaves a lock behind.                                   *)
(***************************************************************************)
LockGuardsRefresh ==
    /\ \A t \in Task : Refreshing(t) => holder[key[t]] = t
    /\ \A i \in Id : holder[i] # NoTask =>
                        Refreshing(holder[i]) /\ key[holder[i]] = i

(***************************************************************************)
(* No wake-up is lost: the tasks queued on a lock are exactly the ones     *)
(* that are suspended on it, each once, cancelled ones included.           *)
(***************************************************************************)
QueueIsExact ==
    \A i \in Id :
        /\ \A t \in Task : (pc[t] = "waiting" /\ key[t] = i)
                              <=> \E n \in DOMAIN waiters[i] : waiters[i][n] = t
        /\ IsInjective(waiters[i])

(***************************************************************************)
(* The watermark check and the watermark update lie on either side of the  *)
(* REST call, and still the watermark of an order never goes back.         *)
(***************************************************************************)
WatermarkNeverRegresses ==
    [][\A i \in Id : eventWatermarks'[i] >= eventWatermarks[i]]_vars

(***************************************************************************)
(* A snapshot never replaces one with a later time stamp, and never        *)
(* disappears, however the event handlers, recoveries and restores of one  *)
(* order interleave.  This needs reads that do not go back (~StaleReads):  *)
(* apply_user_event compares with the event, never with the cached order.  *)
(***************************************************************************)
SnapshotSupersedes(old, new) ==
    /\ old # NoOrder => new # NoOrder
    /\ SnapshotIsAtLeast(new, Time(old))

OrdersNeverRegress ==
    [][\A i \in Id : SnapshotSupersedes(orders[i], orders'[i])]_vars

(***************************************************************************)
(* Once an event counts as processed the cache shows it: if REST is up to  *)
(* date when an event arrives, the cached order is at least as new as the  *)
(* watermark, also after the recoveries and restores that follow.          *)
(***************************************************************************)
WatermarkIsReflected ==
    \A i \in Id : eventWatermarks[i] # NoTime =>
        orders[i] # NoOrder /\ SnapshotIsAtLeast(orders[i], eventWatermarks[i])

\* No call is stuck: whoever enters the reconciler gets its answer or an error.
EveryCallReturns == \A t \in Task : pc[t] # "idle" ~> pc[t] = "idle"

=============================================================================
