------------------------ MODULE OrderReconcilerProofs ------------------------
(***************************************************************************)
(* Proofs about OrderReconciler, for every set of tasks and orders and     *)
(* every assignment of time stamps: types, the lock and its queue, and     *)
(* what the cache keeps from going back.                                   *)
(***************************************************************************)
EXTENDS OrderReconciler, TLAPS

-----------------------------------------------------------------------------
(* The lock queue stays a sequence of tasks whatever is done to it. *)

LEMMA QueueOperations ==
    ASSUME NEW s \in Seq(Task)
    PROVE  /\ \A t \in Task : Append(s, t) \in Seq(Task)
           /\ s # <<>> => Tail(s) \in Seq(Task)
           /\ \A n \in DOMAIN s : RemoveAt(s, n) \in Seq(Task)
<1>1. \A t \in Task : Append(s, t) \in Seq(Task)
  OBVIOUS
<1>2. s # <<>> => Tail(s) \in Seq(Task)
  OBVIOUS
<1>3. ASSUME NEW n \in DOMAIN s PROVE RemoveAt(s, n) \in Seq(Task)
  <2>1. SubSeq(s, 1, n-1) \in Seq(Task)
    OBVIOUS
  <2>2. SubSeq(s, n+1, Len(s)) \in Seq(Task)
    OBVIOUS
  <2> QED
    BY <2>1, <2>2 DEF RemoveAt
<1> QED
  BY <1>1, <1>2, <1>3

-----------------------------------------------------------------------------
(* Type correctness. *)

LEMMA TypeInit == Init => TypeOK
<1> SUFFICES ASSUME Init PROVE TypeOK
  OBVIOUS
<1> USE ConstantsAssumption DEF Init, NoOrder, NoTime, Empty
<1>1. ServerTypeOK
  BY DEF ServerTypeOK
<1>2. CacheTypeOK
  BY DEF CacheTypeOK
<1>3. LockTypeOK
  BY DEF LockTypeOK
<1>4. CallTypeOK
  BY DEF CallTypeOK
<1> QED
  BY <1>1, <1>2, <1>3, <1>4 DEF TypeOK

\* The end of a call leaves the other calls as they are.
LEMMA ReturnType ==
    ASSUME CallTypeOK, NEW t \in Task, Return(t)
    PROVE  CallTypeOK'
  BY ConstantsAssumption DEF CallTypeOK, Return, Empty, NoOrder, NoTime

LEMMA EnterOrWaitType ==
    ASSUME LockTypeOK, CallTypeOK, NEW t \in Task, NEW i \in Id, EnterOrWait(t, i)
    PROVE  /\ LockTypeOK'
           /\ key' = [key EXCEPT ![t] = i]
           /\ \/ pc' = [pc EXCEPT ![t] = "querying"]
              \/ pc' = [pc EXCEPT ![t] = "waiting"]
<1>1. CASE Free(i)
  BY <1>1 DEF EnterOrWait, LockTypeOK
<1>2. CASE ~Free(i)
  <2>1. Append(waiters[i], t) \in Seq(Task)
    BY QueueOperations DEF LockTypeOK
  <2> QED
    BY <1>2, <2>1 DEF EnterOrWait, LockTypeOK
<1> QED
  BY <1>1, <1>2

LEMMA TypeStep == TypeOK /\ [Next]_vars => TypeOK'
<1> SUFFICES ASSUME ServerTypeOK, CacheTypeOK, LockTypeOK, CallTypeOK, [Next]_vars
             PROVE  TypeOK'
  BY DEF TypeOK
<1> USE ConstantsAssumption, UpdatedAtAssumption DEF TypeOK, NoOrder, NoTime
<1>a. ASSUME UNCHANGED server PROVE ServerTypeOK'
  BY <1>a DEF ServerTypeOK, server
<1>b. ASSUME UNCHANGED cache PROVE CacheTypeOK'
  BY <1>b DEF CacheTypeOK, cache
<1>c. ASSUME UNCHANGED locks PROVE LockTypeOK'
  BY <1>c DEF LockTypeOK, locks
<1>d. ASSUME UNCHANGED calls PROVE CallTypeOK'
  BY <1>d DEF CallTypeOK, calls
<1>1. ASSUME NEW i \in Id, OrderChanges(i) PROVE TypeOK'
  <2>1. ServerTypeOK'
    BY <1>1 DEF OrderChanges, ServerTypeOK
  <2> QED
    BY <1>1, <1>b, <1>c, <1>d, <2>1 DEF OrderChanges
<1>2. ASSUME NEW i \in Id, RestCatchesUp(i) PROVE TypeOK'
  <2>1. ServerTypeOK'
    BY <1>2 DEF RestCatchesUp, ServerTypeOK
  <2> QED
    BY <1>2, <1>b, <1>c, <1>d, <2>1 DEF RestCatchesUp
<1>3. ASSUME NEW t \in Task, RestAnswers(t) PROVE TypeOK'
  <2>1. key[t] \in Id
    BY <1>3 DEF RestAnswers, CallTypeOK
  <2>2. Readable(key[t]) \subseteq 0..MaxVersion
    BY <2>1 DEF Readable, ServerTypeOK
  <2>3. CallTypeOK'
    BY <1>3, <2>2 DEF RestAnswers, CallTypeOK
  <2> QED
    BY <1>3, <1>a, <1>b, <1>c, <2>3 DEF RestAnswers
<1>4. ASSUME NEW t \in Task, RestLists(t) PROVE TypeOK'
  <2>1. CallTypeOK'
    BY <1>4 DEF RestLists, CallTypeOK
  <2> QED
    BY <1>4, <1>a, <1>b, <1>c, <2>1 DEF RestLists
<1>5. ASSUME NEW t \in Task, NEW i \in Id, NEW v \in Reported(i),
             ApplyUserEvent(t, i, UpdatedAt[v])
      PROVE  TypeOK'
  <2>1. UpdatedAt[v] \in Nat
    BY DEF Reported, ServerTypeOK, Version
  <2>2. CallTypeOK'
    <3>1. \E p \in {"querying", "waiting"} : pc' = [pc EXCEPT ![t] = p]
      BY <1>5, EnterOrWaitType DEF ApplyUserEvent
    <3>2. key' = [key EXCEPT ![t] = i]
      BY <1>5, EnterOrWaitType DEF ApplyUserEvent
    <3>3. /\ pc[t] = "idle"
          /\ op' = [op EXCEPT ![t] = "event"]
          /\ eventTime' = [eventTime EXCEPT ![t] = UpdatedAt[v]]
          /\ UNCHANGED <<answer, listed>>
      BY <1>5 DEF ApplyUserEvent
    <3> HIDE UpdatedAtAssumption
    <3> QED
      BY <2>1, <3>1, <3>2, <3>3 DEF CallTypeOK
  <2>3. LockTypeOK'
    BY <1>5, EnterOrWaitType DEF ApplyUserEvent
  <2> QED
    BY <1>5, <1>a, <1>b, <2>2, <2>3 DEF ApplyUserEvent
<1>6. ASSUME NEW t \in Task, NEW i \in Id, QueryLocked(t, i) PROVE TypeOK'
  <2>1. CallTypeOK'
    <3>1. \E p \in {"querying", "waiting"} : pc' = [pc EXCEPT ![t] = p]
      BY <1>6, EnterOrWaitType DEF QueryLocked
    <3>2. key' = [key EXCEPT ![t] = i]
      BY <1>6, EnterOrWaitType DEF QueryLocked
    <3>3. /\ pc[t] = "idle"
          /\ op' = [op EXCEPT ![t] = "recover"]
          /\ UNCHANGED <<eventTime, answer, listed>>
      BY <1>6 DEF QueryLocked
    <3> QED
      BY <3>1, <3>2, <3>3 DEF CallTypeOK
  <2>2. LockTypeOK'
    BY <1>6, EnterOrWaitType DEF QueryLocked
  <2> QED
    BY <1>6, <1>a, <1>b, <2>1, <2>2 DEF QueryLocked
<1>7. ASSUME NEW t \in Task, RestoreOpenOrders(t) PROVE TypeOK'
  <2>1. CallTypeOK'
    BY <1>7 DEF RestoreOpenOrders, CallTypeOK
  <2> QED
    BY <1>7, <1>a, <1>b, <1>c, <2>1 DEF RestoreOpenOrders
<1>8. ASSUME NEW t \in Task, HeadOfQueue(t)
      PROVE  /\ key[t] \in Id
             /\ Tail(waiters[key[t]]) \in Seq(Task)
             /\ [waiters EXCEPT ![key[t]] = Tail(@)] \in [Id -> Seq(Task)]
  <2>1. key[t] \in Id
    BY <1>8 DEF HeadOfQueue, CallTypeOK
  <2>2. Tail(waiters[key[t]]) \in Seq(Task)
    BY <1>8, <2>1, QueueOperations DEF HeadOfQueue, LockTypeOK
  <2> QED
    BY <2>1, <2>2 DEF LockTypeOK
<1>9. ASSUME NEW t \in Task, EventGranted(t) PROVE TypeOK'
  <2>1. LockTypeOK'
    <3>1. waiters' \in [Id -> Seq(Task)]
      BY <1>8, <1>9 DEF EventGranted, Dequeue
    <3>2. holder' \in [Id -> Task \cup {NoTask}]
      BY <1>8, <1>9 DEF EventGranted, LockTypeOK
    <3> QED
      BY <3>1, <3>2 DEF LockTypeOK
  <2>2. CASE AlreadyHandled(key[t], eventTime[t])
    BY <1>9, <1>a, <1>b, <2>1, <2>2, ReturnType DEF EventGranted
  <2>3. CASE ~AlreadyHandled(key[t], eventTime[t])
    <3>1. CallTypeOK'
      BY <1>8, <1>9, <2>3 DEF EventGranted, HeadOfQueue, CallTypeOK
    <3> QED
      BY <1>9, <1>a, <1>b, <2>1, <3>1 DEF EventGranted
  <2> QED
    BY <2>2, <2>3
<1>10. ASSUME NEW t \in Task, RecoverGranted(t) PROVE TypeOK'
  <2>1. LockTypeOK'
    BY <1>8, <1>10 DEF RecoverGranted, Dequeue, LockTypeOK
  <2>2. CallTypeOK'
    BY <1>8, <1>10 DEF RecoverGranted, HeadOfQueue, CallTypeOK
  <2> QED
    BY <1>10, <1>a, <1>b, <2>1, <2>2 DEF RecoverGranted
<1>11. ASSUME NEW t \in Task, op[t] = "restore", pc[t] \in {"listed", "waiting"},
              NEW done \in SUBSET Id, NEW queue \in [Id -> Seq(Task)],
              StoreUntilBusy(t, done, queue)
       PROVE  TypeOK'
  <2>1. CacheTypeOK'
    BY <1>11 DEF StoreUntilBusy, CacheTypeOK, CallTypeOK
  <2>2. CASE /\ waiters' = queue
             /\ Return(t)
    <3>1. LockTypeOK'
      BY <1>11, <2>2 DEF StoreUntilBusy, LockTypeOK
    <3> QED
      BY <1>11, <1>a, <2>1, <2>2, <3>1, ReturnType DEF StoreUntilBusy
  <2>3. ASSUME NEW i \in Id \ done,
               waiters' = [queue EXCEPT ![i] = Append(@, t)],
               key' = [key EXCEPT ![t] = i],
               listed' = [listed EXCEPT
                            ![t] = [j \in Id |-> IF j \in done THEN NoOrder ELSE @[j]]],
               pc' = [pc EXCEPT ![t] = "waiting"],
               UNCHANGED <<op, eventTime, answer>>
        PROVE  TypeOK'
    <3>1. Append(queue[i], t) \in Seq(Task)
      BY QueueOperations
    <3>2. LockTypeOK'
      BY <1>11, <2>3, <3>1 DEF StoreUntilBusy, LockTypeOK
    <3>3. listed' \in [Task -> [Id -> 0..MaxVersion]]
      BY <2>3 DEF CallTypeOK
    <3>4. CallTypeOK'
      BY <1>11, <2>3, <3>3 DEF CallTypeOK
    <3> QED
      BY <1>11, <1>a, <2>1, <3>2, <3>4 DEF StoreUntilBusy
  <2> QED
    BY <1>11, <2>2, <2>3 DEF StoreUntilBusy
<1>12. ASSUME NEW t \in Task, RestoreGranted(t) PROVE TypeOK'
  <2>1. PICK done \in SUBSET FreeListed(t) :
           StoreUntilBusy(t, done \cup {key[t]}, [waiters EXCEPT ![key[t]] = Tail(@)])
    BY <1>12 DEF RestoreGranted
  <2>2. done \cup {key[t]} \in SUBSET Id
    BY <1>8, <1>12 DEF RestoreGranted, FreeListed
  <2> QED
    BY <1>8, <1>11, <1>12, <2>1, <2>2 DEF RestoreGranted, HeadOfQueue
<1>13. ASSUME NEW t \in Task, RestoreListed(t) PROVE TypeOK'
  <2>1. PICK done \in SUBSET FreeListed(t) : StoreUntilBusy(t, done, waiters)
    BY <1>13 DEF RestoreListed
  <2>2. done \in SUBSET Id
    BY DEF FreeListed
  <2>3. op[t] = "restore"
    BY <1>13 DEF RestoreListed, CallTypeOK
  <2> QED
    BY <1>11, <1>13, <2>1, <2>2, <2>3 DEF RestoreListed, LockTypeOK
<1>14. ASSUME NEW t \in Task, EventAnswered(t) PROVE TypeOK'
  <2>1. key[t] \in Id
    BY <1>14 DEF EventAnswered, CallTypeOK
  <2>2. CacheTypeOK'
    BY <1>14, <2>1 DEF EventAnswered, CacheTypeOK, CallTypeOK
  <2>3. LockTypeOK'
    BY <1>14, <2>1 DEF EventAnswered, LockTypeOK
  <2> QED
    BY <1>14, <1>a, <2>2, <2>3, ReturnType DEF EventAnswered
<1>15. ASSUME NEW t \in Task, RecoverAnswered(t) PROVE TypeOK'
  <2>1. key[t] \in Id
    BY <1>15 DEF RecoverAnswered, CallTypeOK
  <2>2. CacheTypeOK'
    BY <1>15, <2>1 DEF RecoverAnswered, CacheTypeOK, CallTypeOK
  <2>3. LockTypeOK'
    BY <1>15, <2>1 DEF RecoverAnswered, LockTypeOK
  <2> QED
    BY <1>15, <1>a, <2>2, <2>3, ReturnType DEF RecoverAnswered
<1>16. ASSUME NEW t \in Task, CallFails(t) PROVE TypeOK'
  <2>1. holder' \in [Id -> Task \cup {NoTask}]
    BY <1>16 DEF CallFails, LockTypeOK
  <2>2. waiters' \in [Id -> Seq(Task)]
    <3>1. CASE pc[t] = "waiting"
      <4>1. key[t] \in Id
        BY <3>1 DEF CallTypeOK
      <4>2. PICK n \in DOMAIN waiters[key[t]] :
               waiters' = [waiters EXCEPT ![key[t]] = RemoveAt(@, n)]
        BY <1>16, <3>1 DEF CallFails
      <4>3. RemoveAt(waiters[key[t]], n) \in Seq(Task)
        BY <4>1, QueueOperations DEF LockTypeOK
      <4> QED
        BY <4>1, <4>2, <4>3 DEF LockTypeOK
    <3>2. CASE pc[t] # "waiting"
      BY <1>16, <3>2 DEF CallFails, LockTypeOK
    <3> QED
      BY <3>1, <3>2
  <2> QED
    BY <1>16, <1>a, <1>b, <2>1, <2>2, ReturnType DEF CallFails, LockTypeOK
<1>17. CASE UNCHANGED vars
  BY <1>17, <1>a, <1>b, <1>c, <1>d DEF vars
<1> QED
  BY <1>1, <1>2, <1>3, <1>4, <1>5, <1>6, <1>7, <1>9, <1>10, <1>12, <1>13,
     <1>14, <1>15, <1>16, <1>17
  DEF Next, Call, Granted, Resumes

\* Whatever the tasks, the exchange and REST do, every variable keeps its type.
THEOREM TypeCorrect == Spec => []TypeOK
<1>1. Init => TypeOK
  BY TypeInit
<1>2. TypeOK /\ [Next]_vars => TypeOK'
  BY TypeStep
<1> QED
  BY <1>1, <1>2, PTL DEF Spec

-----------------------------------------------------------------------------
(* One refresh of an order at a time. *)

LEMMA LockInit == Init => LockGuardsRefresh
  BY ConstantsAssumption DEF Init, LockGuardsRefresh, Refreshing

\* A task moves only itself: the others stay where they were.
LEMMA OthersStay ==
    ASSUME CallTypeOK, NEW t \in Task, NEW i \in Id, NEW p,
           key' = [key EXCEPT ![t] = i], pc' = [pc EXCEPT ![t] = p]
    PROVE  /\ pc'[t] = p /\ key'[t] = i
           /\ \A u \in Task \ {t} : pc'[u] = pc[u] /\ key'[u] = key[u]
  BY DEF CallTypeOK

\* A task that queues on a lock holds none.
LEMMA WaitLock ==
    ASSUME LockTypeOK, CallTypeOK, LockGuardsRefresh, NEW t \in Task, NEW i \in Id,
           ~Refreshing(t), UNCHANGED holder,
           key' = [key EXCEPT ![t] = i], pc' = [pc EXCEPT ![t] = "waiting"]
    PROVE  LockGuardsRefresh'
<1>1. ~Refreshing(t)' /\ \A u \in Task \ {t} : Refreshing(u)' <=> Refreshing(u)
  BY OthersStay DEF Refreshing
<1>2. \A j \in Id : holder[j] # t
  BY ConstantsAssumption DEF LockGuardsRefresh
<1>3. \A u \in Task : Refreshing(u)' => holder'[key'[u]] = u
  BY <1>1, OthersStay DEF LockGuardsRefresh
<1>4. ASSUME NEW j \in Id, holder'[j] # NoTask
      PROVE  Refreshing(holder[j])' /\ key'[holder[j]] = j
  <2>1. holder[j] \in Task \ {t}
    BY <1>2, <1>4 DEF LockTypeOK
  <2> QED
    BY <1>1, <1>4, <2>1, OthersStay DEF LockGuardsRefresh
<1> QED
  BY <1>3, <1>4 DEF LockGuardsRefresh, Refreshing

\* A task that takes a lock nobody holds becomes its only holder.
LEMMA TakeLock ==
    ASSUME LockTypeOK, CallTypeOK, LockGuardsRefresh, NEW t \in Task, NEW i \in Id,
           ~Refreshing(t), holder[i] = NoTask,
           holder' = [holder EXCEPT ![i] = t],
           key' = [key EXCEPT ![t] = i], pc' = [pc EXCEPT ![t] = "querying"]
    PROVE  LockGuardsRefresh'
<1>0. /\ pc'[t] = "querying" /\ key'[t] = i
      /\ \A u \in Task \ {t} : pc'[u] = pc[u] /\ key'[u] = key[u]
  BY OthersStay
<1>1. Refreshing(t)' /\ \A u \in Task \ {t} : Refreshing(u)' <=> Refreshing(u)
  BY <1>0 DEF Refreshing
<1>2. holder'[i] = t /\ \A j \in Id \ {i} : holder'[j] = holder[j] /\ holder[j] # t
  BY ConstantsAssumption DEF LockGuardsRefresh, LockTypeOK
<1>3. ASSUME NEW u \in Task, Refreshing(u)' PROVE holder'[key'[u]] = u
  <2>1. CASE u = t
    BY <1>0, <1>2, <2>1
  <2>2. CASE u # t
    <3>1. Refreshing(u) /\ key'[u] = key[u] /\ holder[key[u]] = u
      BY <1>0, <1>1, <1>3, <2>2 DEF LockGuardsRefresh
    <3>2. key[u] \in Id \ {i}
      BY <3>1, ConstantsAssumption DEF CallTypeOK, Refreshing
    <3> QED
      BY <1>2, <3>1, <3>2
  <2> QED
    BY <2>1, <2>2
<1>4. ASSUME NEW j \in Id, holder'[j] # NoTask
      PROVE  pc'[holder'[j]] \in {"querying", "answered"} /\ key'[holder'[j]] = j
  <2>1. CASE j = i
    BY <1>0, <1>2, <2>1
  <2>2. CASE j # i
    <3>1. holder'[j] \in Task \ {t} /\ holder'[j] = holder[j] /\ holder[j] # NoTask
      BY <1>2, <1>4, <2>2 DEF LockTypeOK
    <3>2. Refreshing(holder[j]) /\ key[holder[j]] = j
      BY <3>1 DEF LockGuardsRefresh
    <3>3. pc'[holder[j]] = pc[holder[j]] /\ key'[holder[j]] = key[holder[j]]
      BY <1>0, <3>1
    <3> QED
      BY <3>1, <3>2, <3>3 DEF Refreshing
  <2> QED
    BY <2>1, <2>2
<1> QED
  BY <1>3, <1>4 DEF LockGuardsRefresh, Refreshing

\* The call that takes a free lock, or queues on a busy one.
LEMMA EnterOrWaitLock ==
    ASSUME LockTypeOK, CallTypeOK, LockGuardsRefresh, NEW t \in Task, NEW i \in Id,
           pc[t] = "idle", EnterOrWait(t, i)
    PROVE  LockGuardsRefresh'
<1>1. ~Refreshing(t)
  BY DEF Refreshing
<1>2. CASE Free(i)
  BY <1>1, <1>2, TakeLock DEF EnterOrWait, Free
<1>3. CASE ~Free(i)
  BY <1>1, <1>3, WaitLock DEF EnterOrWait
<1> QED
  BY <1>2, <1>3

\* The task at the head of the queue takes the lock that nobody holds.
LEMMA GrantLock ==
    ASSUME LockTypeOK, CallTypeOK, LockGuardsRefresh, NEW t \in Task, HeadOfQueue(t),
           holder' = [holder EXCEPT ![key[t]] = t],
           pc' = [pc EXCEPT ![t] = "querying"],
           UNCHANGED key
    PROVE  LockGuardsRefresh'
<1>1. key[t] \in Id /\ holder[key[t]] = NoTask /\ ~Refreshing(t)
  BY DEF HeadOfQueue, CallTypeOK, Refreshing
<1>2. key' = [key EXCEPT ![t] = key[t]]
  BY DEF CallTypeOK
<1> QED
  BY <1>1, <1>2, TakeLock

\* A task that returns gives its lock up, and only its own.
LEMMA ReturnLock ==
    ASSUME LockTypeOK, CallTypeOK, LockGuardsRefresh, NEW t \in Task, Return(t),
           holder' = [i \in Id |-> IF holder[i] = t THEN NoTask ELSE holder[i]]
    PROVE  LockGuardsRefresh'
  BY ConstantsAssumption
  DEF Return, LockTypeOK, CallTypeOK, LockGuardsRefresh, Refreshing

\* What leaves the holders and the refreshing tasks alone keeps the invariant.
LEMMA StutterLock ==
    ASSUME LockGuardsRefresh, UNCHANGED <<holder, key>>,
           \A t \in Task : Refreshing(t)' <=> Refreshing(t), LockTypeOK
    PROVE  LockGuardsRefresh'
  BY DEF LockGuardsRefresh, LockTypeOK, Refreshing

LEMMA LockStep == TypeOK /\ LockGuardsRefresh /\ [Next]_vars => LockGuardsRefresh'
<1> SUFFICES ASSUME ServerTypeOK, CacheTypeOK, LockTypeOK, CallTypeOK,
                    LockGuardsRefresh, [Next]_vars
             PROVE  LockGuardsRefresh'
  BY DEF TypeOK
<1>1. ASSUME NEW i \in Id, OrderChanges(i) \/ RestCatchesUp(i) PROVE LockGuardsRefresh'
  BY <1>1, StutterLock DEF OrderChanges, RestCatchesUp, locks, calls, Refreshing
<1>2. ASSUME NEW t \in Task, RestAnswers(t) PROVE LockGuardsRefresh'
  BY <1>2, StutterLock DEF RestAnswers, locks, CallTypeOK, Refreshing
<1>3. ASSUME NEW t \in Task, RestLists(t) PROVE LockGuardsRefresh'
  BY <1>3, StutterLock DEF RestLists, locks, CallTypeOK, Refreshing
<1>4. ASSUME NEW t \in Task, NEW i \in Id, NEW time, ApplyUserEvent(t, i, time)
      PROVE  LockGuardsRefresh'
  BY <1>4, EnterOrWaitLock DEF ApplyUserEvent
<1>5. ASSUME NEW t \in Task, NEW i \in Id, QueryLocked(t, i) PROVE LockGuardsRefresh'
  BY <1>5, EnterOrWaitLock DEF QueryLocked
<1>6. ASSUME NEW t \in Task, RestoreOpenOrders(t) PROVE LockGuardsRefresh'
  BY <1>6, StutterLock DEF RestoreOpenOrders, locks, CallTypeOK, Refreshing
<1>7. ASSUME NEW t \in Task, ~Refreshing(t), Return(t), UNCHANGED holder
      PROVE  LockGuardsRefresh'
  <2>1. \A i \in Id : holder[i] # t
    BY <1>7, ConstantsAssumption DEF LockGuardsRefresh
  <2>2. holder' = [i \in Id |-> IF holder[i] = t THEN NoTask ELSE holder[i]]
    BY <1>7, <2>1 DEF LockTypeOK
  <2> QED
    BY <1>7, <2>2, ReturnLock
<1>8. ASSUME NEW t \in Task, Refreshing(t), Return(t),
             holder' = [holder EXCEPT ![key[t]] = NoTask]
      PROVE  LockGuardsRefresh'
  <2>1. key[t] \in Id /\ \A i \in Id : holder[i] = t <=> i = key[t]
    BY <1>8, ConstantsAssumption DEF LockGuardsRefresh, Refreshing, CallTypeOK
  <2>2. holder' = [i \in Id |-> IF holder[i] = t THEN NoTask ELSE holder[i]]
    BY <1>8, <2>1 DEF LockTypeOK
  <2> QED
    BY <1>8, <2>2, ReturnLock
<1>9. ASSUME NEW t \in Task, EventGranted(t) PROVE LockGuardsRefresh'
  <2>1. ~Refreshing(t)
    BY <1>9 DEF EventGranted, HeadOfQueue, Refreshing
  <2>2. CASE AlreadyHandled(key[t], eventTime[t])
    BY <1>7, <1>9, <2>1, <2>2 DEF EventGranted
  <2>3. CASE ~AlreadyHandled(key[t], eventTime[t])
    BY <1>9, <2>3, GrantLock DEF EventGranted
  <2> QED
    BY <2>2, <2>3
<1>10. ASSUME NEW t \in Task, RecoverGranted(t) PROVE LockGuardsRefresh'
  BY <1>10, GrantLock DEF RecoverGranted
<1>11. ASSUME NEW t \in Task, pc[t] \in {"listed", "waiting"}, NEW done, NEW queue,
              StoreUntilBusy(t, done, queue)
       PROVE  LockGuardsRefresh'
  <2>1. ~Refreshing(t) /\ UNCHANGED holder
    BY <1>11 DEF StoreUntilBusy, Refreshing
  <2>2. CASE Return(t)
    BY <1>7, <2>1, <2>2
  <2>3. ASSUME NEW i \in Id, key' = [key EXCEPT ![t] = i],
               pc' = [pc EXCEPT ![t] = "waiting"]
        PROVE  LockGuardsRefresh'
    BY <2>1, <2>3, WaitLock
  <2> QED
    BY <1>11, <2>2, <2>3 DEF StoreUntilBusy
<1>12. ASSUME NEW t \in Task, RestoreGranted(t) \/ RestoreListed(t)
       PROVE  LockGuardsRefresh'
  BY <1>11, <1>12 DEF RestoreGranted, RestoreListed, HeadOfQueue
<1>13. ASSUME NEW t \in Task, EventAnswered(t) \/ RecoverAnswered(t)
       PROVE  LockGuardsRefresh'
  BY <1>8, <1>13 DEF EventAnswered, RecoverAnswered, Refreshing
<1>14. ASSUME NEW t \in Task, CallFails(t) PROVE LockGuardsRefresh'
  BY <1>14, ReturnLock DEF CallFails
<1>15. CASE UNCHANGED vars
  BY <1>15, StutterLock DEF vars, locks, calls, Refreshing
<1> QED
  BY <1>1, <1>2, <1>3, <1>4, <1>5, <1>6, <1>9, <1>10, <1>12, <1>13, <1>14, <1>15
  DEF Next, Call, Granted, Resumes

\* The query and the store of its answer are one critical section per order,
\* and neither an early return nor a failed query leaves a lock behind.
THEOREM RefreshIsExclusive == Spec => []LockGuardsRefresh
<1>1. Init => TypeOK /\ LockGuardsRefresh
  BY TypeInit, LockInit
<1>2. TypeOK /\ LockGuardsRefresh /\ [Next]_vars => TypeOK' /\ LockGuardsRefresh'
  BY TypeStep, LockStep
<1> QED
  BY <1>1, <1>2, PTL DEF Spec

-----------------------------------------------------------------------------
(* What the cache keeps from going back.  Watermarks first. *)

\* An event whose order is being read again is newer than the watermark: the
\* check made before the await still holds after it.
EventIsNew ==
    \A t \in Task : Refreshing(t) /\ op[t] = "event"
                       => ~AlreadyHandled(key[t], eventTime[t])

WatermarkInv == TypeOK /\ LockGuardsRefresh /\ EventIsNew

\* No step but EventAnswered moves a watermark.
LEMMA WatermarkFrame ==
    ASSUME Next, ~\E t \in Task : EventAnswered(t)
    PROVE  UNCHANGED eventWatermarks
<1>1. ASSUME NEW i \in Id, OrderChanges(i) \/ RestCatchesUp(i)
      PROVE  UNCHANGED eventWatermarks
  BY <1>1 DEF OrderChanges, RestCatchesUp, cache
<1>2. ASSUME NEW t \in Task, Call(t) PROVE UNCHANGED eventWatermarks
  BY <1>2 DEF Call, ApplyUserEvent, QueryLocked, RestoreOpenOrders, cache
<1>3. ASSUME NEW t \in Task, RestAnswers(t) \/ RestLists(t)
      PROVE  UNCHANGED eventWatermarks
  BY <1>3 DEF RestAnswers, RestLists, cache
<1>4. ASSUME NEW t \in Task, Granted(t) PROVE UNCHANGED eventWatermarks
  BY <1>4 DEF Granted, EventGranted, RecoverGranted, RestoreGranted, StoreUntilBusy, cache
<1>5. ASSUME NEW t \in Task, Resumes(t) PROVE UNCHANGED eventWatermarks
  BY <1>5 DEF Resumes, RecoverAnswered, RestoreListed, StoreUntilBusy
<1>6. ASSUME NEW t \in Task, CallFails(t) PROVE UNCHANGED eventWatermarks
  BY <1>6 DEF CallFails, cache
<1> QED
  BY <1>1, <1>2, <1>3, <1>4, <1>5, <1>6 DEF Next

\* A task that is refreshing on an event after a step was so before it, unless
\* the step is the one that passed the watermark check.
LEMMA EventFrame ==
    ASSUME TypeOK, [Next]_vars, NEW u \in Task, Refreshing(u)', op'[u] = "event"
    PROVE  \/ /\ Refreshing(u) /\ op[u] = "event"
              /\ key'[u] = key[u] /\ eventTime'[u] = eventTime[u]
           \/ ~AlreadyHandled(key'[u], eventTime'[u])
<1> USE DEF TypeOK, CallTypeOK, Refreshing
<1>1. ASSUME NEW i \in Id, OrderChanges(i) \/ RestCatchesUp(i)
      PROVE  Refreshing(u) /\ UNCHANGED <<op, key, eventTime>>
  BY <1>1 DEF OrderChanges, RestCatchesUp, calls
<1>2. ASSUME NEW t \in Task, NEW i \in Id, NEW time, ApplyUserEvent(t, i, time), t = u
      PROVE  ~AlreadyHandled(key'[u], eventTime'[u])
  BY <1>2 DEF ApplyUserEvent, EnterOrWait
<1>3. ASSUME NEW t \in Task, EventGranted(t), t = u
      PROVE  ~AlreadyHandled(key'[u], eventTime'[u])
  BY <1>3 DEF EventGranted, Return
<1>4. ASSUME NEW t \in Task, t # u,
             Call(t) \/ RestAnswers(t) \/ RestLists(t) \/ Granted(t) \/ Resumes(t) \/ CallFails(t)
      PROVE  /\ Refreshing(u) /\ op[u] = "event"
             /\ key'[u] = key[u] /\ eventTime'[u] = eventTime[u]
  <2>1. CASE Call(t)
    BY <1>4, <2>1 DEF Call, ApplyUserEvent, QueryLocked, RestoreOpenOrders, EnterOrWait
  <2>2. CASE RestAnswers(t) \/ RestLists(t)
    BY <1>4, <2>2 DEF RestAnswers, RestLists
  <2>3. CASE Granted(t)
    BY <1>4, <2>3
    DEF Granted, EventGranted, RecoverGranted, RestoreGranted, StoreUntilBusy, Return
  <2>4. CASE Resumes(t)
    BY <1>4, <2>4
    DEF Resumes, EventAnswered, RecoverAnswered, RestoreListed, StoreUntilBusy, Return
  <2>5. CASE CallFails(t)
    BY <1>4, <2>5 DEF CallFails, Return
  <2> QED
    BY <1>4, <2>1, <2>2, <2>3, <2>4, <2>5
<1>5. ASSUME RestAnswers(u)
      PROVE  Refreshing(u) /\ UNCHANGED <<op, key, eventTime>>
  BY <1>5 DEF RestAnswers
<1>6. ~(RestoreOpenOrders(u) \/ RestLists(u) \/ RecoverGranted(u)
        \/ RestoreGranted(u) \/ Resumes(u) \/ CallFails(u))
  BY DEF RestoreOpenOrders, RestLists, RecoverGranted, RestoreGranted,
         StoreUntilBusy, Return, Resumes, EventAnswered, RecoverAnswered, RestoreListed,
         CallFails
<1>7. ASSUME NEW i \in Id, QueryLocked(u, i) PROVE FALSE
  BY <1>7 DEF QueryLocked
<1>8. CASE UNCHANGED vars
  BY <1>8 DEF vars, calls
<1> QED
  BY <1>1, <1>2, <1>3, <1>4, <1>5, <1>6, <1>7, <1>8 DEF Next, Call, Granted

LEMMA WatermarkInvStep == WatermarkInv /\ [Next]_vars => WatermarkInv'
<1> SUFFICES ASSUME TypeOK, LockGuardsRefresh, EventIsNew, [Next]_vars
             PROVE  EventIsNew'
  BY TypeStep, LockStep DEF WatermarkInv
<1> SUFFICES ASSUME NEW u \in Task, Refreshing(u)', op'[u] = "event"
             PROVE  ~AlreadyHandled(key[u], eventTime[u])'
  BY DEF EventIsNew, Refreshing
<1>1. CASE UNCHANGED eventWatermarks
  BY <1>1, EventFrame DEF EventIsNew, AlreadyHandled
<1>2. ASSUME NEW t \in Task, EventAnswered(t)
      PROVE  ~AlreadyHandled(key[u], eventTime[u])'
  <2>1. t # u
    BY <1>2 DEF EventAnswered, Return, Refreshing, TypeOK, CallTypeOK
  <2>2. /\ Refreshing(u) /\ op[u] = "event"
        /\ key'[u] = key[u] /\ eventTime'[u] = eventTime[u]
    BY <1>2, <2>1 DEF EventAnswered, Return, Refreshing, TypeOK, CallTypeOK
  <2>3. key[u] # key[t]
    BY <1>2, <2>1, <2>2 DEF LockGuardsRefresh, EventAnswered, Refreshing
  <2>4. eventWatermarks'[key[u]] = eventWatermarks[key[u]]
    BY <1>2, <2>3 DEF EventAnswered, TypeOK, CacheTypeOK
  <2> QED
    BY <2>2, <2>4 DEF EventIsNew, AlreadyHandled
<1>3. CASE UNCHANGED vars
  BY <1>1, <1>3 DEF vars, cache
<1> QED
  BY <1>1, <1>2, <1>3, WatermarkFrame

LEMMA WatermarkStep ==
    ASSUME WatermarkInv, [Next]_vars, NEW i \in Id
    PROVE  eventWatermarks'[i] >= eventWatermarks[i]
<1> USE DEF WatermarkInv, TypeOK, CacheTypeOK
<1>1. CASE UNCHANGED eventWatermarks
  BY <1>1
<1>2. ASSUME NEW t \in Task, EventAnswered(t)
      PROVE  eventWatermarks'[i] >= eventWatermarks[i]
  <2>1. ~AlreadyHandled(key[t], eventTime[t]) /\ eventTime[t] \in Nat /\ key[t] \in Id
    BY <1>2 DEF EventIsNew, EventAnswered, Refreshing, CallTypeOK
  <2>2. CASE i = key[t] /\ eventTime[t] # NoTime
    BY <1>2, <2>1, <2>2 DEF EventAnswered, AlreadyHandled, NoTime
  <2>3. CASE ~(i = key[t] /\ eventTime[t] # NoTime)
    BY <1>2, <2>3 DEF EventAnswered
  <2> QED
    BY <2>2, <2>3
<1>3. CASE UNCHANGED vars
  BY <1>1, <1>3 DEF vars, cache
<1> QED
  BY <1>1, <1>2, <1>3, WatermarkFrame

\* The watermark of an order never goes back, however stale REST answers are.
THEOREM WatermarkMonotone == Spec => WatermarkNeverRegresses
<1>1. Init => WatermarkInv
  BY TypeInit, LockInit DEF WatermarkInv, Init, EventIsNew, Refreshing
<1>2. WatermarkInv /\ [Next]_vars => WatermarkInv'
  BY WatermarkInvStep
<1>3. WatermarkInv /\ [Next]_vars
         => [\A i \in Id : eventWatermarks'[i] >= eventWatermarks[i]]_vars
  BY WatermarkStep
<1> QED
  BY <1>1, <1>2, <1>3, PTL DEF Spec, WatermarkNeverRegresses

-----------------------------------------------------------------------------
(* Snapshots.  With reads that do not go back, the states themselves are    *)
(* ordered: cached <= answered <= shown by REST.                            *)

ReadsAreOrdered ==
    /\ \A i \in Id : orders[i] <= rest[i]
    /\ \A t \in Task : \A i \in Id : listed[t][i] <= rest[i]
    /\ \A t \in Task : pc[t] = "answered" =>
          orders[key[t]] <= answer[t] /\ answer[t] <= rest[key[t]]

ReadInv == TypeOK /\ LockGuardsRefresh /\ ReadsAreOrdered

\* An order is stored either by the task that holds its lock and has the
\* answer, or by restore_open_orders while nobody holds its lock.
LEMMA StoreFrame ==
    ASSUME TypeOK, LockGuardsRefresh, [Next]_vars, NEW i \in Id, orders'[i] # orders[i]
    PROVE  \/ \E t \in Task :
                 /\ pc[t] = "answered" /\ key[t] = i /\ holder[i] = t
                 /\ orders'[i] = answer[t] /\ answer[t] # NoOrder /\ pc'[t] = "idle"
                 /\ EventAnswered(t) \/ RecoverAnswered(t)
           \/ \E t \in Task :
                 /\ holder[i] = NoTask
                 /\ orders'[i] = listed[t][i] /\ Storable(i, listed[t][i])
                 /\ RestoreListed(t) \/ RestoreGranted(t)
<1> USE DEF TypeOK, CacheTypeOK, CallTypeOK
<1>1. ASSUME NEW j \in Id, OrderChanges(j) \/ RestCatchesUp(j) PROVE UNCHANGED orders
  BY <1>1 DEF OrderChanges, RestCatchesUp, cache
<1>2. ASSUME NEW t \in Task,
             Call(t) \/ RestAnswers(t) \/ RestLists(t) \/ EventGranted(t) \/ RecoverGranted(t)
                     \/ CallFails(t)
      PROVE  UNCHANGED orders
  BY <1>2 DEF Call, ApplyUserEvent, QueryLocked, RestoreOpenOrders, RestAnswers, RestLists,
              EventGranted, RecoverGranted, CallFails, cache
<1>3. ASSUME NEW t \in Task, EventAnswered(t) \/ RecoverAnswered(t)
      PROVE  /\ pc[t] = "answered" /\ key[t] = i /\ holder[i] = t
             /\ orders'[i] = answer[t] /\ answer[t] # NoOrder /\ pc'[t] = "idle"
  <2>1. /\ pc[t] = "answered" /\ key[t] = i
        /\ orders'[i] = answer[t] /\ answer[t] # NoOrder /\ pc'[t] = "idle"
    BY <1>3 DEF EventAnswered, RecoverAnswered, Storable, Return
  <2> QED
    BY <2>1 DEF LockGuardsRefresh, Refreshing
<1>4. ASSUME NEW t \in Task, RestoreListed(t) \/ RestoreGranted(t)
      PROVE  /\ holder[i] = NoTask
             /\ orders'[i] = listed[t][i] /\ Storable(i, listed[t][i])
  BY <1>4 DEF RestoreListed, RestoreGranted, StoreUntilBusy, FreeListed, Free, HeadOfQueue
<1>5. CASE UNCHANGED vars
  BY <1>5 DEF vars, cache
<1> QED
  BY <1>1, <1>2, <1>3, <1>4, <1>5 DEF Next, Granted, Resumes

\* REST only ever shows newer states.
LEMMA RestGrows ==
    ASSUME TypeOK, [Next]_vars, NEW i \in Id
    PROVE  rest[i] <= rest'[i]
<1> USE DEF TypeOK, ServerTypeOK
<1>1. ASSUME NEW j \in Id, RestCatchesUp(j) PROVE rest[i] <= rest'[i]
  BY <1>1 DEF RestCatchesUp
<1>2. ASSUME NEW j \in Id, OrderChanges(j) PROVE UNCHANGED rest
  BY <1>2 DEF OrderChanges
<1>3. ASSUME NEW t \in Task,
             Call(t) \/ RestAnswers(t) \/ RestLists(t) \/ Granted(t) \/ Resumes(t) \/ CallFails(t)
      PROVE  UNCHANGED rest
  BY <1>3 DEF Call, ApplyUserEvent, QueryLocked, RestoreOpenOrders, RestAnswers, RestLists,
              Granted, EventGranted, RecoverGranted, RestoreGranted, Resumes, EventAnswered,
              RecoverAnswered, RestoreListed, StoreUntilBusy, CallFails, server
<1>4. CASE UNCHANGED vars
  BY <1>4 DEF vars, server
<1> QED
  BY <1>1, <1>2, <1>3, <1>4 DEF Next

\* A task has an answer after a step if it had it before, for the same order,
\* or if REST has just given it.
LEMMA AnswerFrame ==
    ASSUME TypeOK, [Next]_vars, NEW u \in Task, pc'[u] = "answered"
    PROVE  \/ /\ pc[u] = "answered"
              /\ key'[u] = key[u] /\ answer'[u] = answer[u]
           \/ /\ RestAnswers(u)
              /\ key[u] \in Id /\ key'[u] = key[u] /\ answer'[u] \in Readable(key[u])
<1> USE DEF TypeOK, CallTypeOK
<1>1. ASSUME NEW i \in Id, OrderChanges(i) \/ RestCatchesUp(i)
      PROVE  UNCHANGED <<pc, key, answer>>
  BY <1>1 DEF OrderChanges, RestCatchesUp, calls
<1>2. ASSUME NEW t \in Task, t # u,
             Call(t) \/ RestAnswers(t) \/ RestLists(t) \/ Granted(t) \/ Resumes(t) \/ CallFails(t)
      PROVE  pc'[u] = pc[u] /\ key'[u] = key[u] /\ answer'[u] = answer[u]
  <2>1. CASE Call(t)
    BY <1>2, <2>1 DEF Call, ApplyUserEvent, QueryLocked, RestoreOpenOrders, EnterOrWait
  <2>2. CASE RestAnswers(t) \/ RestLists(t)
    BY <1>2, <2>2 DEF RestAnswers, RestLists
  <2>3. CASE Granted(t)
    BY <1>2, <2>3
    DEF Granted, EventGranted, RecoverGranted, RestoreGranted, StoreUntilBusy, Return
  <2>4. CASE Resumes(t)
    BY <1>2, <2>4
    DEF Resumes, EventAnswered, RecoverAnswered, RestoreListed, StoreUntilBusy, Return
  <2>5. CASE CallFails(t)
    BY <1>2, <2>5 DEF CallFails, Return
  <2> QED
    BY <1>2, <2>1, <2>2, <2>3, <2>4, <2>5
<1>3. ASSUME RestAnswers(u)
      PROVE  key[u] \in Id /\ key'[u] = key[u] /\ answer'[u] \in Readable(key[u])
  BY <1>3 DEF RestAnswers
<1>4. ~(Call(u) \/ RestLists(u) \/ Granted(u) \/ Resumes(u) \/ CallFails(u))
  BY DEF Call, ApplyUserEvent, QueryLocked, RestoreOpenOrders, EnterOrWait, RestLists,
         Granted, EventGranted, RecoverGranted, RestoreGranted, StoreUntilBusy, Return,
         Resumes, EventAnswered, RecoverAnswered, RestoreListed, CallFails
<1>5. CASE UNCHANGED vars
  BY <1>5 DEF vars, calls
<1> QED
  BY <1>1, <1>2, <1>3, <1>4, <1>5 DEF Next

\* The list a task still has to store comes from a read of REST.
LEMMA ListFrame ==
    ASSUME TypeOK, [Next]_vars, NEW u \in Task, NEW i \in Id
    PROVE  listed'[u][i] \in {listed[u][i], NoOrder} \cup Readable(i)
<1> USE DEF TypeOK, CallTypeOK
<1>1. ASSUME NEW j \in Id, OrderChanges(j) \/ RestCatchesUp(j) PROVE UNCHANGED listed
  BY <1>1 DEF OrderChanges, RestCatchesUp, calls
<1>2. ASSUME NEW t \in Task, Call(t) \/ RestAnswers(t) \/ RecoverGranted(t)
      PROVE  UNCHANGED listed
  BY <1>2 DEF Call, ApplyUserEvent, QueryLocked, RestoreOpenOrders, RestAnswers, RecoverGranted
<1>3. ASSUME NEW t \in Task, Return(t)
      PROVE  listed'[u][i] \in {listed[u][i], NoOrder}
  BY <1>3 DEF Return, Empty
<1>4. ASSUME NEW t \in Task, RestLists(t)
      PROVE  listed'[u][i] \in {listed[u][i], NoOrder} \cup Readable(i)
  BY <1>4 DEF RestLists
<1>5. ASSUME NEW t \in Task, NEW done, NEW queue, StoreUntilBusy(t, done, queue)
      PROVE  listed'[u][i] \in {listed[u][i], NoOrder}
  <2>1. CASE listed' = [listed EXCEPT
                          ![t] = [j \in Id |-> IF j \in done THEN NoOrder ELSE @[j]]]
    BY <2>1
  <2> QED
    BY <1>3, <1>5, <2>1 DEF StoreUntilBusy
<1>6. ASSUME NEW t \in Task, EventGranted(t) \/ EventAnswered(t) \/ RecoverAnswered(t)
                             \/ CallFails(t)
      PROVE  listed'[u][i] \in {listed[u][i], NoOrder}
  BY <1>3, <1>6 DEF EventGranted, EventAnswered, RecoverAnswered, CallFails
<1>7. CASE UNCHANGED vars
  BY <1>7 DEF vars, calls
<1> QED
  BY <1>1, <1>2, <1>4, <1>5, <1>6, <1>7
  DEF Next, Granted, Resumes, RestoreGranted, RestoreListed

LEMMA ReadInvStep == ~StaleReads /\ ReadInv /\ [Next]_vars => ReadInv'
<1> SUFFICES ASSUME ~StaleReads, TypeOK, LockGuardsRefresh, ReadsAreOrdered, [Next]_vars
             PROVE  ReadsAreOrdered'
  BY TypeStep, LockStep DEF ReadInv
<1> USE DEF TypeOK, ServerTypeOK, CacheTypeOK, CallTypeOK, NoOrder
<1>0. \A i \in Id : Readable(i) = {rest[i]} /\ rest[i] <= rest'[i] /\ rest'[i] \in Nat
  BY RestGrows, TypeStep DEF Readable
<1>1. ASSUME NEW i \in Id PROVE orders'[i] <= rest'[i]
  <2>1. orders'[i] <= rest[i]
    BY StoreFrame DEF ReadsAreOrdered
  <2> QED
    BY <1>0, <2>1, TypeStep
<1>2. ASSUME NEW t \in Task, NEW i \in Id PROVE listed'[t][i] <= rest'[i]
  <2>1. listed'[t][i] \in {listed[t][i], NoOrder, rest[i]}
    BY <1>0, ListFrame
  <2>2. listed[t][i] <= rest[i] /\ listed[t][i] \in Nat /\ rest[i] \in Nat
    BY ConstantsAssumption DEF ReadsAreOrdered
  <2> QED
    BY <1>0, <2>1, <2>2
<1>3. ASSUME NEW u \in Task, pc'[u] = "answered"
      PROVE  orders'[key'[u]] <= answer'[u] /\ answer'[u] <= rest'[key'[u]]
  <2>1. key'[u] = key[u] /\ key[u] \in Id /\ Refreshing(u)
    BY <1>3, AnswerFrame DEF Refreshing, RestAnswers
  <2>2. orders'[key[u]] = orders[key[u]]
    <3>1. SUFFICES ASSUME orders'[key[u]] # orders[key[u]] PROVE FALSE
      OBVIOUS
    <3>2. holder[key[u]] = u
      BY <2>1 DEF LockGuardsRefresh
    <3> QED
      BY <1>3, <2>1, <3>1, <3>2, StoreFrame, ConstantsAssumption
  <2>3. CASE pc[u] = "answered" /\ answer'[u] = answer[u]
    BY <1>0, <2>1, <2>2, <2>3 DEF ReadsAreOrdered
  <2>4. CASE answer'[u] \in Readable(key[u])
    BY <1>0, <2>1, <2>2, <2>4 DEF ReadsAreOrdered
  <2> QED
    BY <1>3, <2>3, <2>4, AnswerFrame
<1> QED
  BY <1>1, <1>2, <1>3 DEF ReadsAreOrdered

\* A state not older than another carries a time stamp not older, or none.
LEMMA LaterStateLaterTime ==
    ASSUME NEW v \in 0..MaxVersion, NEW w \in 0..MaxVersion, v <= w
    PROVE  SnapshotIsAtLeast(w, Time(v))
  BY ConstantsAssumption, UpdatedAtAssumption
  DEF SnapshotIsAtLeast, Time, NoOrder, NoTime, Version

LEMMA SupersedesStep ==
    ASSUME ReadInv, [Next]_vars, NEW i \in Id
    PROVE  SnapshotSupersedes(orders[i], orders'[i])
<1> USE DEF ReadInv, TypeOK, CacheTypeOK, CallTypeOK
<1>1. CASE orders'[i] = orders[i]
  BY <1>1, LaterStateLaterTime, ConstantsAssumption DEF SnapshotSupersedes
<1>2. ASSUME NEW t \in Task, pc[t] = "answered", key[t] = i, orders'[i] = answer[t],
             answer[t] # NoOrder
      PROVE  SnapshotSupersedes(orders[i], orders'[i])
  BY <1>2, LaterStateLaterTime DEF SnapshotSupersedes, ReadsAreOrdered
<1>3. ASSUME NEW t \in Task, orders'[i] = listed[t][i], Storable(i, listed[t][i])
      PROVE  SnapshotSupersedes(orders[i], orders'[i])
  BY <1>3 DEF SnapshotSupersedes, Storable
<1> QED
  BY <1>1, <1>2, <1>3, StoreFrame

\* If REST reads do not go back, no interleaving of event handlers, recoveries
\* and restores replaces a snapshot by an older one or drops it.
THEOREM OrdersMonotone == ~StaleReads => (Spec => OrdersNeverRegress)
<1> SUFFICES ASSUME ~StaleReads PROVE Spec => OrdersNeverRegress
  OBVIOUS
<1>1. Init => ReadInv
  BY TypeInit, LockInit, ConstantsAssumption
  DEF ReadInv, Init, ReadsAreOrdered, Empty, NoOrder
<1>2. ReadInv /\ [Next]_vars => ReadInv'
  BY ReadInvStep
<1>3. ReadInv /\ [Next]_vars
         => [\A i \in Id : SnapshotSupersedes(orders[i], orders'[i])]_vars
  BY SupersedesStep
<1> QED
  BY <1>1, <1>2, <1>3, PTL DEF Spec, OrdersNeverRegress

-----------------------------------------------------------------------------
(* Processed events.  When events do not run ahead of REST, every time      *)
(* stamp in the reconciler is that of a state REST has shown.               *)

\* time is the time stamp of one of the first n states.
KnownTime(time, n) == time = NoTime \/ \E v \in 1..n : UpdatedAt[v] = time

EventsAreShown ==
    /\ \A i \in Id : KnownTime(eventWatermarks[i], rest[i])
    /\ \A t \in Task : op[t] = "event" => KnownTime(eventTime[t], rest[key[t]])
    /\ \A t \in Task : pc[t] = "answered" => KnownTime(eventWatermarks[key[t]], answer[t])
    /\ \A t \in Task : pc[t] = "answered" /\ op[t] = "event" => KnownTime(eventTime[t], answer[t])

ShownInv == ReadInv /\ EventsAreShown /\ WatermarkIsReflected

LEMMA KnownTimeGrows ==
    ASSUME NEW m \in Nat, NEW n \in Nat, m <= n, NEW time, KnownTime(time, m)
    PROVE  KnownTime(time, n)
  BY DEF KnownTime

\* A task handles the event it was called with.
LEMMA EventTimeFrame ==
    ASSUME TypeOK, [Next]_vars, NEW u \in Task, op'[u] = "event"
    PROVE  \/ /\ op[u] = "event"
              /\ key'[u] = key[u] /\ eventTime'[u] = eventTime[u]
           \/ /\ key'[u] \in Id /\ pc'[u] # "answered"
              /\ \E v \in Reported(key'[u]) : eventTime'[u] = UpdatedAt[v]
<1> USE DEF TypeOK, CallTypeOK
<1>1. ASSUME NEW i \in Id, OrderChanges(i) \/ RestCatchesUp(i)
      PROVE  UNCHANGED <<op, key, eventTime>>
  BY <1>1 DEF OrderChanges, RestCatchesUp, calls
<1>2. ASSUME NEW i \in Id, NEW v \in Reported(i), ApplyUserEvent(u, i, UpdatedAt[v])
      PROVE  key'[u] = i /\ eventTime'[u] = UpdatedAt[v] /\ pc'[u] # "answered"
  BY <1>2 DEF ApplyUserEvent, EnterOrWait
<1>3. ASSUME NEW t \in Task, t # u, Call(t) \/ Granted(t) \/ Resumes(t) \/ CallFails(t)
      PROVE  op'[u] = op[u] /\ key'[u] = key[u] /\ eventTime'[u] = eventTime[u]
  <2>1. CASE Call(t)
    BY <1>3, <2>1 DEF Call, ApplyUserEvent, QueryLocked, RestoreOpenOrders, EnterOrWait
  <2>2. CASE Granted(t)
    BY <1>3, <2>2
    DEF Granted, EventGranted, RecoverGranted, RestoreGranted, StoreUntilBusy, Return
  <2>3. CASE Resumes(t)
    BY <1>3, <2>3
    DEF Resumes, EventAnswered, RecoverAnswered, RestoreListed, StoreUntilBusy, Return
  <2>4. CASE CallFails(t)
    BY <1>3, <2>4 DEF CallFails, Return
  <2> QED
    BY <1>3, <2>1, <2>2, <2>3, <2>4
<1>4. ASSUME NEW t \in Task, RestAnswers(t) \/ RestLists(t)
      PROVE  UNCHANGED <<op, key, eventTime>>
  BY <1>4 DEF RestAnswers, RestLists
<1>5. ASSUME EventGranted(u) PROVE op[u] = "event" /\ UNCHANGED <<key, eventTime>>
  BY <1>5 DEF EventGranted, Return
<1>6. ~(RestoreOpenOrders(u) \/ RecoverGranted(u) \/ RestoreGranted(u) \/ Resumes(u)
        \/ CallFails(u))
  BY DEF RestoreOpenOrders, RecoverGranted, RestoreGranted, StoreUntilBusy, Return,
         Resumes, EventAnswered, RecoverAnswered, RestoreListed, CallFails
<1>7. ASSUME NEW i \in Id, QueryLocked(u, i) PROVE FALSE
  BY <1>7 DEF QueryLocked
<1>8. CASE UNCHANGED vars
  BY <1>8 DEF vars, calls
<1> QED
  BY <1>1, <1>2, <1>3, <1>4, <1>5, <1>6, <1>7, <1>8 DEF Next, Call, Granted

\* Only the task that answers an event moves the watermark, and it leaves no
\* other task with an answer for that order.
LEMMA WatermarkMove ==
    ASSUME TypeOK, LockGuardsRefresh, [Next]_vars, NEW i \in Id,
           eventWatermarks'[i] # eventWatermarks[i]
    PROVE  \E t \in Task : /\ EventAnswered(t) /\ key[t] = i /\ pc'[t] = "idle"
                           /\ eventWatermarks'[i] = eventTime[t]
                           /\ \A u \in Task \ {t} : Refreshing(u) => key[u] # i
<1>1. PICK t \in Task : EventAnswered(t)
  BY WatermarkFrame DEF vars, cache
<1>2. key[t] = i /\ eventWatermarks'[i] = eventTime[t]
  BY <1>1 DEF EventAnswered, TypeOK, CacheTypeOK
<1>3. holder[i] = t /\ pc'[t] = "idle"
  BY <1>1, <1>2 DEF EventAnswered, LockGuardsRefresh, Refreshing, Return, TypeOK, CallTypeOK
<1> QED
  BY <1>1, <1>2, <1>3 DEF LockGuardsRefresh

LEMMA EventsAreShownStep ==
    ASSUME ~StaleReads, ~EventsAhead, ShownInv, [Next]_vars
    PROVE  EventsAreShown'
<1> USE DEF ShownInv, ReadInv
<1>0. /\ TypeOK' /\ ReadsAreOrdered'
      /\ \A i \in Id : rest[i] \in Nat /\ rest'[i] \in Nat /\ rest[i] <= rest'[i]
      /\ \A i \in Id : Readable(i) = {rest[i]} /\ Reported(i) = 1..rest[i]
  BY TypeStep, ReadInvStep, RestGrows DEF TypeOK, ServerTypeOK, Readable, Reported
<1>1. ASSUME NEW i \in Id PROVE KnownTime(eventWatermarks'[i], rest'[i])
  <2>1. CASE eventWatermarks'[i] = eventWatermarks[i]
    BY <1>0, <2>1, KnownTimeGrows DEF EventsAreShown
  <2>2. CASE eventWatermarks'[i] # eventWatermarks[i]
    BY <1>0, <2>2, WatermarkMove, KnownTimeGrows DEF EventsAreShown, EventAnswered
  <2> QED
    BY <2>1, <2>2
<1>2. ASSUME NEW u \in Task, op'[u] = "event"
      PROVE  KnownTime(eventTime'[u], rest'[key'[u]])
  <2>1. CASE op[u] = "event" /\ key'[u] = key[u] /\ eventTime'[u] = eventTime[u]
    <3>1. key[u] \in Id
      BY <2>1 DEF TypeOK, CallTypeOK
    <3> QED
      BY <1>0, <2>1, <3>1, KnownTimeGrows DEF EventsAreShown
  <2>2. CASE /\ key'[u] \in Id
             /\ \E v \in Reported(key'[u]) : eventTime'[u] = UpdatedAt[v]
    <3>1. KnownTime(eventTime'[u], rest[key'[u]])
      BY <1>0, <2>2 DEF KnownTime
    <3> QED
      BY <1>0, <2>2, <3>1, KnownTimeGrows
  <2> QED
    BY <1>2, <2>1, <2>2, EventTimeFrame
<1>3. ASSUME NEW u \in Task, pc'[u] = "answered"
      PROVE  /\ KnownTime(eventWatermarks'[key'[u]], answer'[u])
             /\ op'[u] = "event" => KnownTime(eventTime'[u], answer'[u])
  <2>1. key'[u] = key[u] /\ key[u] \in Id /\ Refreshing(u)
    BY <1>3, AnswerFrame DEF Refreshing, RestAnswers, TypeOK, CallTypeOK
  <2>2. eventWatermarks'[key[u]] = eventWatermarks[key[u]]
    BY <1>3, <2>1, WatermarkMove
  <2>3. op'[u] = "event" => op[u] = "event" /\ eventTime'[u] = eventTime[u]
    BY <1>3, EventTimeFrame
  <2>4. CASE pc[u] = "answered" /\ answer'[u] = answer[u]
    BY <2>1, <2>2, <2>3, <2>4 DEF EventsAreShown
  <2>5. CASE answer'[u] \in Readable(key[u])
    BY <1>0, <2>1, <2>2, <2>3, <2>5 DEF EventsAreShown
  <2> QED
    BY <1>3, <2>4, <2>5, AnswerFrame
<1> QED
  BY <1>1, <1>2, <1>3 DEF EventsAreShown

\* An answer that includes the state of a time stamp is at least as late.
LEMMA AnswerCoversTime ==
    ASSUME NEW v \in 0..MaxVersion, NEW time, time # NoTime, KnownTime(time, v)
    PROVE  v # NoOrder /\ SnapshotIsAtLeast(v, time)
<1>1. PICK w \in 1..v : UpdatedAt[w] = time
  BY DEF KnownTime
<1>2. w \in 0..MaxVersion /\ w <= v /\ w # NoOrder /\ v # NoOrder
  BY ConstantsAssumption DEF NoOrder
<1> QED
  BY <1>1, <1>2, LaterStateLaterTime DEF Time

LEMMA ReflectedStep ==
    ASSUME ShownInv, [Next]_vars
    PROVE  WatermarkIsReflected'
<1> USE DEF ShownInv, ReadInv, TypeOK, CacheTypeOK, CallTypeOK
<1> DEFINE Reflected(v, time) ==
             time # NoTime => v # NoOrder /\ SnapshotIsAtLeast(v, time)
<1> SUFFICES ASSUME NEW i \in Id PROVE Reflected(orders'[i], eventWatermarks'[i])
  BY DEF WatermarkIsReflected, SnapshotIsAtLeast, Time
<1>1. ASSUME NEW t \in Task, EventAnswered(t), key[t] = i
      PROVE  Reflected(orders'[i], eventWatermarks'[i])
  <2>1. /\ KnownTime(eventWatermarks[i], answer[t]) /\ KnownTime(eventTime[t], answer[t])
        /\ answer[t] \in 0..MaxVersion
    BY <1>1 DEF EventsAreShown, EventAnswered
  <2>2. CASE eventTime[t] # NoTime
    <3>1. answer[t] # NoOrder /\ SnapshotIsAtLeast(answer[t], eventTime[t])
      BY <2>1, <2>2, AnswerCoversTime
    <3> QED
      BY <1>1, <2>2, <3>1 DEF EventAnswered
  <2>3. CASE eventTime[t] = NoTime /\ eventWatermarks[i] # NoTime
    <3>1. answer[t] # NoOrder /\ SnapshotIsAtLeast(answer[t], eventWatermarks[i])
      BY <2>1, <2>3, AnswerCoversTime
    <3>2. SnapshotIsAtLeast(answer[t], eventTime[t])
      BY <2>3 DEF SnapshotIsAtLeast
    <3> QED
      BY <1>1, <2>3, <3>1, <3>2 DEF EventAnswered
  <2>4. CASE eventTime[t] = NoTime /\ eventWatermarks[i] = NoTime
    BY <1>1, <2>4 DEF EventAnswered
  <2> QED
    BY <2>2, <2>3, <2>4
<1>2. CASE eventWatermarks'[i] = eventWatermarks[i] /\ orders'[i] = orders[i]
  BY <1>2 DEF WatermarkIsReflected
<1>3. ASSUME eventWatermarks'[i] = eventWatermarks[i],
             NEW v, orders'[i] = v, Storable(i, v)
      PROVE  Reflected(orders'[i], eventWatermarks'[i])
  BY <1>3 DEF Storable
<1>4. ASSUME NEW t \in Task, RecoverAnswered(t), key[t] = i
      PROVE  Reflected(orders'[i], eventWatermarks'[i])
  BY <1>2, <1>3, <1>4 DEF RecoverAnswered
<1> QED
  BY <1>1, <1>2, <1>3, <1>4, StoreFrame, WatermarkMove

\* If reads do not go back and REST shows a state before the user stream
\* reports it, the cache covers every event that was processed.
THEOREM ProcessedEventsAreCached ==
    ~StaleReads /\ ~EventsAhead => (Spec => []WatermarkIsReflected)
<1> SUFFICES ASSUME ~StaleReads, ~EventsAhead PROVE Spec => []WatermarkIsReflected
  OBVIOUS
<1>1. Init => ShownInv
  <2> SUFFICES ASSUME Init PROVE ShownInv
    OBVIOUS
  <2>1. TypeOK /\ LockGuardsRefresh
    BY TypeInit, LockInit
  <2>2. ReadsAreOrdered
    BY ConstantsAssumption DEF Init, ReadsAreOrdered, Empty, NoOrder
  <2>3. EventsAreShown /\ WatermarkIsReflected
    BY DEF Init, EventsAreShown, WatermarkIsReflected, KnownTime
  <2> QED
    BY <2>1, <2>2, <2>3 DEF ShownInv, ReadInv
<1>2. ShownInv /\ [Next]_vars => ShownInv'
  <2> SUFFICES ASSUME ShownInv, [Next]_vars PROVE ShownInv'
    OBVIOUS
  <2>1. ReadInv'
    BY ReadInvStep DEF ShownInv
  <2> QED
    BY <2>1, EventsAreShownStep, ReflectedStep DEF ShownInv
<1>3. ShownInv => WatermarkIsReflected
  BY DEF ShownInv
<1> QED
  BY <1>1, <1>2, <1>3, PTL DEF Spec

-----------------------------------------------------------------------------
(* The queue of a lock holds each of its waiters once. *)

LEMMA AppendOnce ==
    ASSUME NEW s \in Seq(Task), NEW t \in Task, IsInjective(s), t \notin ToSet(s)
    PROVE  IsInjective(Append(s, t)) /\ ToSet(Append(s, t)) = ToSet(s) \cup {t}
<1>1. /\ DOMAIN s = 1..Len(s) /\ Len(s) \in Nat
      /\ DOMAIN Append(s, t) = 1..Len(s) + 1
      /\ \A n \in 1..Len(s) : Append(s, t)[n] = s[n]
      /\ Append(s, t)[Len(s) + 1] = t
  OBVIOUS
<1>2. ToSet(Append(s, t)) = ToSet(s) \cup {t}
  BY <1>1 DEF ToSet
<1>3. IsInjective(Append(s, t))
  BY <1>1 DEF IsInjective, ToSet
<1> QED
  BY <1>2, <1>3

LEMMA TailOnce ==
    ASSUME NEW s \in Seq(Task), IsInjective(s), s # <<>>
    PROVE  IsInjective(Tail(s)) /\ ToSet(Tail(s)) = ToSet(s) \ {Head(s)}
<1>1. /\ DOMAIN s = 1..Len(s) /\ Len(s) \in Nat \ {0}
      /\ Head(s) = s[1]
      /\ DOMAIN Tail(s) = 1..Len(s) - 1
      /\ \A n \in 1..Len(s) - 1 : Tail(s)[n] = s[n + 1]
  OBVIOUS
<1>2. IsInjective(Tail(s))
  BY <1>1 DEF IsInjective
<1>3. ASSUME NEW x \in ToSet(Tail(s)) PROVE x \in ToSet(s) \ {Head(s)}
  <2>1. PICK n \in 1..Len(s) - 1 : x = s[n + 1]
    BY <1>1 DEF ToSet
  <2>2. n + 1 \in DOMAIN s /\ 1 \in DOMAIN s /\ n + 1 # 1
    BY <1>1
  <2> QED
    BY <1>1, <2>1, <2>2 DEF ToSet, IsInjective
<1>4. ASSUME NEW x \in ToSet(s), x # Head(s) PROVE x \in ToSet(Tail(s))
  <2>1. PICK n \in 1..Len(s) : x = s[n]
    BY <1>1 DEF ToSet
  <2>2. n - 1 \in 1..Len(s) - 1 /\ (n - 1) + 1 = n
    BY <1>1, <1>4, <2>1
  <2> QED
    BY <1>1, <2>1, <2>2 DEF ToSet
<1> QED
  BY <1>2, <1>3, <1>4

LEMMA RemoveOnce ==
    ASSUME NEW s \in Seq(Task), IsInjective(s), NEW n \in DOMAIN s
    PROVE  IsInjective(RemoveAt(s, n)) /\ ToSet(RemoveAt(s, n)) = ToSet(s) \ {s[n]}
<1> DEFINE r == RemoveAt(s, n)
           old(m) == IF m < n THEN m ELSE m + 1
<1>1. DOMAIN s = 1..Len(s) /\ Len(s) \in Nat /\ n \in 1..Len(s)
  OBVIOUS
<1>2. /\ DOMAIN r = 1..Len(s) - 1
      /\ \A m \in 1..Len(s) - 1 : r[m] = s[old(m)]
  <2>1. SubSeq(s, 1, n - 1) \in Seq(Task) /\ Len(SubSeq(s, 1, n - 1)) = n - 1
        /\ \A m \in 1..n - 1 : SubSeq(s, 1, n - 1)[m] = s[m]
    BY <1>1
  <2>2. SubSeq(s, n + 1, Len(s)) \in Seq(Task) /\ Len(SubSeq(s, n + 1, Len(s))) = Len(s) - n
        /\ \A m \in 1..Len(s) - n : SubSeq(s, n + 1, Len(s))[m] = s[n + m]
    BY <1>1
  <2>3. r = SubSeq(s, 1, n - 1) \o SubSeq(s, n + 1, Len(s))
    BY DEF RemoveAt
  <2>4. /\ DOMAIN r = 1..(n - 1) + (Len(s) - n)
        /\ \A m \in 1..(n - 1) + (Len(s) - n) :
              r[m] = IF m <= n - 1 THEN SubSeq(s, 1, n - 1)[m]
                     ELSE SubSeq(s, n + 1, Len(s))[m - (n - 1)]
    <3>1. \A a, b \in Seq(Task) :
             /\ DOMAIN (a \o b) = 1..Len(a) + Len(b)
             /\ \A m \in 1..Len(a) + Len(b) :
                   (a \o b)[m] = IF m <= Len(a) THEN a[m] ELSE b[m - Len(a)]
      OBVIOUS
    <3> DEFINE a == SubSeq(s, 1, n - 1)
               b == SubSeq(s, n + 1, Len(s))
    <3>2. a \in Seq(Task) /\ b \in Seq(Task) /\ Len(a) = n - 1 /\ Len(b) = Len(s) - n /\ r = a \o b
      BY <2>1, <2>2, <2>3
    <3> HIDE DEF a, b, r
    <3>3. /\ DOMAIN r = 1..(n - 1) + (Len(s) - n)
          /\ \A m \in 1..(n - 1) + (Len(s) - n) :
                r[m] = IF m <= n - 1 THEN a[m] ELSE b[m - (n - 1)]
      BY <3>1, <3>2
    <3> QED
      BY <3>3 DEF a, b
  <2>5. (n - 1) + (Len(s) - n) = Len(s) - 1
    BY <1>1
  <2>6. ASSUME NEW m \in 1..Len(s) - 1 PROVE r[m] = s[old(m)]
    <3>1. CASE m < n
      BY <1>1, <2>1, <2>4, <2>5, <3>1
    <3>2. CASE m >= n
      <4>1. m - (n - 1) \in 1..Len(s) - n /\ n + (m - (n - 1)) = m + 1 /\ ~(m <= n - 1)
        BY <1>1, <3>2
      <4>2. r[m] = SubSeq(s, n + 1, Len(s))[m - (n - 1)]
        BY <2>4, <2>5, <4>1
      <4> HIDE DEF r
      <4> QED
        BY <2>2, <3>2, <4>1, <4>2
    <3> QED
      BY <1>1, <3>1, <3>2
  <2> QED
    BY <2>4, <2>5, <2>6
<1>3. /\ \A m \in 1..Len(s) - 1 : old(m) \in DOMAIN s \ {n}
      /\ \A k, m \in 1..Len(s) - 1 : old(k) = old(m) => k = m
  BY <1>1
<1>4. IsInjective(r)
  <2> HIDE DEF r, old
  <2> QED
    BY <1>2, <1>3 DEF IsInjective
<1>5. ASSUME NEW x \in ToSet(r) PROVE x \in ToSet(s) \ {s[n]}
  <2>1. PICK m \in 1..Len(s) - 1 : x = s[old(m)]
    BY <1>2 DEF ToSet
  <2> QED
    BY <1>3, <2>1 DEF ToSet, IsInjective
<1>6. ASSUME NEW x \in ToSet(s), x # s[n] PROVE x \in ToSet(r)
  <2>1. PICK m \in 1..Len(s) : x = s[m] /\ m # n
    BY <1>1, <1>6 DEF ToSet
  <2>2. PICK k \in 1..Len(s) - 1 : old(k) = m
    <3>1. CASE m < n
      <4>1. m \in 1..Len(s) - 1 /\ old(m) = m
        BY <1>1, <2>1, <3>1
      <4> QED
        BY <4>1
    <3>2. CASE m > n
      <4>1. m - 1 \in 1..Len(s) - 1 /\ old(m - 1) = m
        BY <1>1, <2>1, <3>2
      <4> QED
        BY <4>1
    <3> QED
      BY <1>1, <2>1, <3>1, <3>2
  <2> QED
    BY <1>2, <2>1, <2>2 DEF ToSet
<1> QED
  BY <1>4, <1>5, <1>6

Waits(t, i) == pc[t] = "waiting" /\ key[t] = i

LEMMA QueueAsSet ==
    QueueIsExact <=> \A i \in Id : /\ \A t \in Task : Waits(t, i) <=> t \in ToSet(waiters[i])
                                   /\ IsInjective(waiters[i])
BY DEF QueueIsExact, Waits, ToSet

\* A step of t, which is in the queues it should be in afterwards.
LEMMA QueueMove ==
    ASSUME QueueIsExact, NEW t \in Task,
           \A u \in Task \ {t} : pc'[u] = pc[u] /\ key'[u] = key[u],
           \A i \in Id : /\ IsInjective(waiters'[i])
                         /\ ToSet(waiters'[i]) \ {t} = ToSet(waiters[i]) \ {t}
                         /\ t \in ToSet(waiters'[i]) <=> Waits(t, i)'
    PROVE  QueueIsExact'
<1> SUFFICES ASSUME NEW i \in Id
             PROVE  /\ \A u \in Task : Waits(u, i)' <=> u \in ToSet(waiters'[i])
                    /\ IsInjective(waiters'[i])
  BY DEF QueueIsExact, Waits, ToSet
<1>1. ASSUME NEW u \in Task \ {t} PROVE Waits(u, i)' <=> u \in ToSet(waiters'[i])
  BY QueueAsSet DEF Waits
<1> QED
  BY <1>1

\* A task that neither waited nor will wait leaves the queues alone.
LEMMA QueueStill ==
    ASSUME QueueIsExact, NEW t \in Task, pc[t] # "waiting", pc'[t] # "waiting",
           \A u \in Task \ {t} : pc'[u] = pc[u] /\ key'[u] = key[u], UNCHANGED waiters
    PROVE  QueueIsExact'
BY QueueMove, QueueAsSet DEF Waits

\* A task joins one queue, or none, after it has left all.
LEMMA QueueJoin ==
    ASSUME QueueIsExact, NEW t \in Task, NEW i \in Id, NEW queue \in [Id -> Seq(Task)],
           \A j \in Id : IsInjective(queue[j]) /\ ToSet(queue[j]) = ToSet(waiters[j]) \ {t},
           waiters' = [queue EXCEPT ![i] = Append(@, t)],
           pc'[t] = "waiting", key'[t] = i,
           \A u \in Task \ {t} : pc'[u] = pc[u] /\ key'[u] = key[u]
    PROVE  QueueIsExact'
<1>1. ASSUME NEW j \in Id
      PROVE  /\ IsInjective(waiters'[j])
             /\ ToSet(waiters'[j]) \ {t} = ToSet(waiters[j]) \ {t}
             /\ t \in ToSet(waiters'[j]) <=> Waits(t, j)'
  <2>1. CASE j = i
    <3>1. waiters'[j] = Append(queue[j], t)
      BY <2>1
    <3>2. IsInjective(waiters'[j]) /\ ToSet(waiters'[j]) = ToSet(queue[j]) \cup {t}
      BY <3>1, AppendOnce
    <3> QED
      BY <2>1, <3>2 DEF Waits
  <2>2. CASE j # i
    BY <2>2 DEF Waits
  <2> QED
    BY <2>1, <2>2
<1> QED
  BY <1>1, QueueMove

LEMMA QueueLeave ==
    ASSUME QueueIsExact, NEW t \in Task, pc'[t] # "waiting",
           \A j \in Id : IsInjective(waiters'[j]) /\ ToSet(waiters'[j]) = ToSet(waiters[j]) \ {t},
           \A u \in Task \ {t} : pc'[u] = pc[u] /\ key'[u] = key[u]
    PROVE  QueueIsExact'
BY QueueMove DEF Waits

\* A task that is not waiting is in no queue.
LEMMA NotQueued ==
    ASSUME QueueIsExact, NEW t \in Task, pc[t] # "waiting"
    PROVE  \A j \in Id : IsInjective(waiters[j]) /\ ToSet(waiters[j]) = ToSet(waiters[j]) \ {t}
BY QueueAsSet DEF Waits

\* Without its head, which is t, the queue of t's lock is without t, and so
\* are the others.
LEMMA HeadLeaves ==
    ASSUME TypeOK, QueueIsExact, NEW t \in Task, HeadOfQueue(t),
           NEW queue, queue = [waiters EXCEPT ![key[t]] = Tail(@)]
    PROVE  /\ queue \in [Id -> Seq(Task)]
           /\ \A j \in Id : IsInjective(queue[j]) /\ ToSet(queue[j]) = ToSet(waiters[j]) \ {t}
<1>1. /\ key[t] \in Id /\ waiters[key[t]] \in Seq(Task) /\ waiters[key[t]] # <<>>
      /\ Head(waiters[key[t]]) = t
  BY DEF HeadOfQueue, TypeOK, LockTypeOK, CallTypeOK
<1>2. queue \in [Id -> Seq(Task)]
  BY <1>1, QueueOperations DEF TypeOK, LockTypeOK
<1>3. ASSUME NEW j \in Id
      PROVE  IsInjective(queue[j]) /\ ToSet(queue[j]) = ToSet(waiters[j]) \ {t}
  <2>1. CASE j = key[t]
    <3>1. queue[j] = Tail(waiters[j]) /\ IsInjective(waiters[j])
      BY <1>1, <2>1, QueueAsSet DEF TypeOK, LockTypeOK
    <3> QED
      BY <1>1, <2>1, <3>1, TailOnce
  <2>2. CASE j # key[t]
    <3>1. queue[j] = waiters[j]
      BY <2>2 DEF TypeOK, LockTypeOK
    <3>2. IsInjective(waiters[j]) /\ t \notin ToSet(waiters[j])
      BY <2>2, QueueAsSet DEF Waits
    <3> QED
      BY <3>1, <3>2
  <2> QED
    BY <2>1, <2>2
<1> QED
  BY <1>2, <1>3

LEMMA ReturnPlace ==
    ASSUME CallTypeOK, NEW t \in Task, Return(t)
    PROVE  pc'[t] = "idle" /\ \A u \in Task \ {t} : pc'[u] = pc[u] /\ key'[u] = key[u]
BY DEF Return, CallTypeOK

LEMMA EnterOrWaitQueue ==
    ASSUME TypeOK, QueueIsExact, NEW t \in Task, NEW i \in Id, pc[t] = "idle", EnterOrWait(t, i)
    PROVE  QueueIsExact'
<1>1. CASE UNCHANGED waiters /\ pc' = [pc EXCEPT ![t] = "querying"]
  <2>1. pc'[t] = "querying" /\ \A u \in Task \ {t} : pc'[u] = pc[u] /\ key'[u] = key[u]
    <3>1. key' = [key EXCEPT ![t] = i]
      BY DEF EnterOrWait
    <3> QED
      BY <1>1, <3>1, OthersStay DEF TypeOK
  <2> QED
    BY <1>1, <2>1, QueueStill
<1>2. CASE /\ waiters' = [waiters EXCEPT ![i] = Append(@, t)]
           /\ pc' = [pc EXCEPT ![t] = "waiting"]
  <2>1. /\ pc'[t] = "waiting" /\ key'[t] = i
        /\ \A u \in Task \ {t} : pc'[u] = pc[u] /\ key'[u] = key[u]
    <3>1. key' = [key EXCEPT ![t] = i]
      BY DEF EnterOrWait
    <3> QED
      BY <1>2, <3>1, OthersStay DEF TypeOK
  <2> QED
    BY <1>2, <2>1, NotQueued, QueueJoin DEF TypeOK, LockTypeOK
<1> QED
  BY <1>1, <1>2 DEF EnterOrWait

LEMMA GrantedQueue ==
    ASSUME TypeOK, QueueIsExact, NEW t \in Task, EventGranted(t) \/ RecoverGranted(t)
    PROVE  QueueIsExact'
<1>1. HeadOfQueue(t) /\ waiters' = [waiters EXCEPT ![key[t]] = Tail(@)]
  BY DEF EventGranted, RecoverGranted, Dequeue
<1>2. pc'[t] # "waiting" /\ \A u \in Task \ {t} : pc'[u] = pc[u] /\ key'[u] = key[u]
  <2>1. CASE Return(t)
    BY <2>1, ReturnPlace DEF TypeOK
  <2>2. CASE pc' = [pc EXCEPT ![t] = "querying"] /\ UNCHANGED key
    BY <2>2 DEF TypeOK, CallTypeOK
  <2> QED
    BY <2>1, <2>2 DEF EventGranted, RecoverGranted
<1> QED
  BY <1>1, <1>2, HeadLeaves, QueueLeave

LEMMA StoreUntilBusyQueue ==
    ASSUME TypeOK, QueueIsExact, NEW t \in Task, NEW done, NEW queue \in [Id -> Seq(Task)],
           \A j \in Id : IsInjective(queue[j]) /\ ToSet(queue[j]) = ToSet(waiters[j]) \ {t},
           StoreUntilBusy(t, done, queue)
    PROVE  QueueIsExact'
<1>1. CASE waiters' = queue /\ Return(t)
  BY <1>1, ReturnPlace, QueueLeave DEF TypeOK
<1>2. ASSUME NEW i \in Id,
             waiters' = [queue EXCEPT ![i] = Append(@, t)],
             key' = [key EXCEPT ![t] = i], pc' = [pc EXCEPT ![t] = "waiting"]
      PROVE  QueueIsExact'
  <2>1. /\ pc'[t] = "waiting" /\ key'[t] = i
        /\ \A u \in Task \ {t} : pc'[u] = pc[u] /\ key'[u] = key[u]
    BY <1>2, OthersStay DEF TypeOK
  <2> QED
    BY <1>2, <2>1, QueueJoin
<1> QED
  BY <1>1, <1>2 DEF StoreUntilBusy

LEMMA CallFailsQueue ==
    ASSUME TypeOK, QueueIsExact, NEW t \in Task, CallFails(t)
    PROVE  QueueIsExact'
<1>1. pc'[t] = "idle" /\ \A u \in Task \ {t} : pc'[u] = pc[u] /\ key'[u] = key[u]
  BY ReturnPlace DEF CallFails, TypeOK
<1>2. CASE pc[t] # "waiting"
  BY <1>1, <1>2, QueueStill DEF CallFails
<1>3. CASE pc[t] = "waiting"
  <2>1. key[t] \in Id /\ waiters[key[t]] \in Seq(Task)
    BY <1>3 DEF TypeOK, LockTypeOK, CallTypeOK
  <2>2. PICK n \in DOMAIN waiters[key[t]] :
           /\ waiters[key[t]][n] = t
           /\ waiters' = [waiters EXCEPT ![key[t]] = RemoveAt(@, n)]
    BY <1>3 DEF CallFails
  <2>3. ASSUME NEW j \in Id
        PROVE  IsInjective(waiters'[j]) /\ ToSet(waiters'[j]) = ToSet(waiters[j]) \ {t}
    <3>1. CASE j = key[t]
      <4>1. waiters'[j] = RemoveAt(waiters[j], n) /\ IsInjective(waiters[j])
        BY <2>1, <2>2, <3>1, QueueAsSet DEF TypeOK, LockTypeOK
      <4> QED
        BY <2>1, <2>2, <3>1, <4>1, RemoveOnce
    <3>2. CASE j # key[t]
      <4>1. waiters'[j] = waiters[j]
        BY <2>2, <3>2 DEF TypeOK, LockTypeOK
      <4>2. IsInjective(waiters[j]) /\ t \notin ToSet(waiters[j])
        BY <3>2, QueueAsSet DEF Waits
      <4> QED
        BY <4>1, <4>2
    <3> QED
      BY <3>1, <3>2
  <2> QED
    BY <1>1, <2>3, QueueLeave
<1> QED
  BY <1>2, <1>3

LEMMA QueueStep ==
    ASSUME TypeOK, QueueIsExact, [Next]_vars
    PROVE  QueueIsExact'
<1>1. ASSUME UNCHANGED <<pc, key, waiters>> PROVE QueueIsExact'
  BY <1>1 DEF QueueIsExact
<1>2. ASSUME NEW i \in Id, OrderChanges(i) \/ RestCatchesUp(i) PROVE QueueIsExact'
  BY <1>1, <1>2 DEF OrderChanges, RestCatchesUp, locks, calls
<1>3. ASSUME NEW t \in Task, Call(t) PROVE QueueIsExact'
  <2>1. CASE RestoreOpenOrders(t)
    BY <2>1, QueueStill DEF RestoreOpenOrders, locks, TypeOK, CallTypeOK
  <2> QED
    BY <1>3, <2>1, EnterOrWaitQueue DEF Call, ApplyUserEvent, QueryLocked
<1>4. ASSUME NEW t \in Task, RestAnswers(t) \/ RestLists(t) PROVE QueueIsExact'
  BY <1>4, QueueStill DEF RestAnswers, RestLists, locks, TypeOK, CallTypeOK
<1>5. ASSUME NEW t \in Task, RestoreGranted(t) PROVE QueueIsExact'
  <2>1. PICK done \in SUBSET FreeListed(t) :
           StoreUntilBusy(t, done \cup {key[t]}, [waiters EXCEPT ![key[t]] = Tail(@)])
    BY <1>5 DEF RestoreGranted
  <2> DEFINE queue == [waiters EXCEPT ![key[t]] = Tail(@)]
  <2>2. /\ queue \in [Id -> Seq(Task)]
        /\ \A j \in Id : IsInjective(queue[j]) /\ ToSet(queue[j]) = ToSet(waiters[j]) \ {t}
    BY <1>5, HeadLeaves DEF RestoreGranted
  <2> HIDE DEF queue
  <2>3. StoreUntilBusy(t, done \cup {key[t]}, queue)
    BY <2>1 DEF queue
  <2> QED
    BY <2>2, <2>3, StoreUntilBusyQueue
<1>6. ASSUME NEW t \in Task, RestoreListed(t) PROVE QueueIsExact'
  <2>1. PICK done \in SUBSET FreeListed(t) : StoreUntilBusy(t, done, waiters)
    BY <1>6 DEF RestoreListed
  <2>2. pc[t] # "waiting"
    BY <1>6 DEF RestoreListed
  <2> QED
    BY <2>1, <2>2, NotQueued, StoreUntilBusyQueue DEF TypeOK, LockTypeOK
<1>7. ASSUME NEW t \in Task, EventAnswered(t) \/ RecoverAnswered(t) PROVE QueueIsExact'
  BY <1>7, ReturnPlace, QueueStill DEF EventAnswered, RecoverAnswered, TypeOK
<1>8. CASE UNCHANGED vars
  BY <1>1, <1>8 DEF vars, locks, calls
<1> QED
  BY <1>2, <1>3, <1>4, <1>5, <1>6, <1>7, <1>8, GrantedQueue, CallFailsQueue
  DEF Next, Granted, Resumes

(***************************************************************************)
(* No wake-up is lost or owed to a call that has gone: a lock's queue is   *)
(* the tasks that are suspended on it, each once, also after cancellations *)
(* in the middle of the queue.                                             *)
(***************************************************************************)
THEOREM NoWakeUpIsLost == Spec => []QueueIsExact
<1>1. Init => QueueIsExact
  <2>1. DOMAIN <<>> = {}
    OBVIOUS
  <2> QED
    BY <2>1 DEF Init, QueueIsExact, IsInjective
<1>2. TypeOK /\ QueueIsExact /\ [Next]_vars => QueueIsExact'
  BY QueueStep
<1> QED
  BY <1>1, <1>2, TypeCorrect, PTL DEF Spec
=============================================================================
