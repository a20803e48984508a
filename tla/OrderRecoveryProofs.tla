------------------------- MODULE OrderRecoveryProofs -------------------------
(* Theorems about OrderRecovery: it uses the reconciler as a client does, so *)
(* what is proved of the reconciler holds in it, and a recovery only clears  *)
(* the requests whose own order it has queried and keeps the promise of      *)
(* PendingRequests.                                                          *)
EXTENDS OrderRecovery, OrderReconcilerProofs

-----------------------------------------------------------------------------
(* The recovery loop is a client of the reconciler. *)

LEMMA RecoveryStepIsReconcilerStep == [RecoveryNext]_rvars => [Next]_vars
<1> SUFFICES ASSUME [RecoveryNext]_rvars PROVE [Next]_vars
  OBVIOUS
<1>1. ASSUME NEW r \in Request, NEW c \in Id \cup {NoId}, Register(r, c)
      PROVE  [Next]_vars
  BY <1>1 DEF Register
<1>2. ASSUME NEW r \in Request, Respond(r) PROVE [Next]_vars
  BY <1>2 DEF Respond
<1>3. ASSUME NEW t \in Task, NEW r \in Request, NEW requests, requests[r] \in Id,
             Query(t, r, requests)
      PROVE  [Next]_vars
  BY <1>3 DEF Query, Next, Call
<1>4. ASSUME NEW t \in Task, StartRecovery(t) \/ NextRequest(t) PROVE [Next]_vars
  BY <1>3, <1>4 DEF StartRecovery, NextRequest, Correlated
<1>5. ASSUME NEW t \in Task, RecoveryAnswered(t) \/ RecoveryFails(t) PROVE [Next]_vars
  BY <1>5 DEF RecoveryAnswered, RecoveryFails, Next, Resumes
<1>6. ASSUME NEW t \in Task, OtherCalls(t) PROVE [Next]_vars
  BY <1>6 DEF OtherCalls, Next, Call, Resumes
<1>7. CASE Environment
  BY <1>7 DEF Environment, Next
<1>8. CASE UNCHANGED rvars
  BY <1>8 DEF rvars
<1> QED
  BY <1>1, <1>2, <1>4, <1>5, <1>6, <1>7, <1>8 DEF RecoveryNext

\* Recovering pending requests is nothing but concurrent calls of the
\* reconciler: OrderRecovery implements OrderReconciler.
THEOREM RecoveryImplementsReconciler == RecoverySpec => ReconcilerImplemented
<1>1. RecoveryInit => Init
  BY DEF RecoveryInit
<1>2. [RecoveryNext]_rvars => [Next]_vars
  BY RecoveryStepIsReconcilerStep
<1> QED
  BY <1>1, <1>2, PTL DEF RecoverySpec, ReconcilerImplemented, Spec

\* What the reconciler promises its callers therefore holds while requests are
\* recovered: one refresh of an order at a time, and no lost wake-up ...
THEOREM RecoveryKeepsLocks == RecoverySpec => [](LockGuardsRefresh /\ QueueIsExact)
BY RecoveryImplementsReconciler, RefreshIsExclusive, NoWakeUpIsLost, PTL
DEF ReconcilerImplemented

\* ... and a cache that does not go back, whatever the loop reads and stores.
THEOREM RecoveryKeepsOrders == ~StaleReads => (RecoverySpec => OrdersNeverRegress)
BY RecoveryImplementsReconciler, OrdersMonotone, PTL DEF ReconcilerImplemented

-----------------------------------------------------------------------------
(* What a recovery clears. *)

LEMMA RecoveryTypeStep ==
    ASSUME TypeOK, RecoveryTypeOK, [RecoveryNext]_rvars
    PROVE  RecoveryTypeOK'
<1> USE ConstantsAssumption, RequestAssumption
    DEF RecoveryTypeOK, TypeOK, CallTypeOK, stream, loops
<1>1. ASSUME NEW r \in Request, NEW c \in Id \cup {NoId}, Register(r, c)
      PROVE  RecoveryTypeOK'
  BY <1>1 DEF Register, vars, calls
<1>2. ASSUME NEW r \in Request, Respond(r) PROVE RecoveryTypeOK'
  BY <1>2 DEF Respond, vars, calls
<1>3. ASSUME NEW t \in Task, NEW r \in Request, NEW requests, requests[r] \in Id,
             Query(t, r, requests)
      PROVE  RecoveryTypeOK'
  <2>1. batch' \in [Task -> [Request -> Id \cup {Absent}]] /\ batch'[t][r] = requests[r]
    BY <1>3 DEF Query, Correlated
  <2>2. /\ op' = [op EXCEPT ![t] = "recover"]
        /\ key' = [key EXCEPT ![t] = requests[r]]
        /\ current' = [current EXCEPT ![t] = r]
        /\ UNCHANGED <<pending, issued>>
    BY <1>3 DEF Query, QueryLocked, EnterOrWait
  <2>3. \A u \in Task \ {t} : batch'[u] = batch[u]
    BY <1>3 DEF Query
  <2> QED
    BY <2>1, <2>2, <2>3
<1>4. ASSUME NEW t \in Task, StartRecovery(t) \/ NextRequest(t) PROVE RecoveryTypeOK'
  BY <1>3, <1>4 DEF StartRecovery, NextRequest, Correlated
<1>5. ASSUME NEW t \in Task, RecoveryAnswered(t) PROVE RecoveryTypeOK'
  <2>1. current[t] \in Request
    BY <1>5 DEF RecoveryAnswered, RecoverAnswered
  <2>2. batch' \in [Task -> [Request -> Id \cup {Absent}]]
    BY <1>5, <2>1 DEF RecoveryAnswered
  <2>3. /\ op' = [op EXCEPT ![t] = "none"]
        /\ key' = [key EXCEPT ![t] = NoId]
        /\ current' = [current EXCEPT ![t] = NoRequest]
        /\ UNCHANGED issued
        /\ \A u \in Task \ {t} : batch'[u] = batch[u]
    BY <1>5 DEF RecoveryAnswered, RecoverAnswered, Return
  <2>4. pending' \in [Request -> Id \cup {NoId, Absent}]
    BY <1>5, <2>1 DEF RecoveryAnswered
  <2> QED
    BY <2>2, <2>3, <2>4
<1>6. ASSUME NEW t \in Task, RecoveryFails(t) PROVE RecoveryTypeOK'
  <2>1. batch' \in [Task -> [Request -> Id \cup {Absent}]]
    BY <1>6 DEF RecoveryFails, EmptyBatch
  <2>2. /\ op' = [op EXCEPT ![t] = "none"]
        /\ key' = [key EXCEPT ![t] = NoId]
        /\ current' = [current EXCEPT ![t] = NoRequest]
        /\ UNCHANGED <<pending, issued>>
        /\ \A u \in Task \ {t} : batch'[u] = batch[u]
    BY <1>6 DEF RecoveryFails, CallFails, Return
  <2> QED
    BY <2>1, <2>2
<1>7. ASSUME NEW t \in Task, OtherCalls(t) PROVE RecoveryTypeOK'
  <2> SUFFICES ASSUME NEW u \in Task
               PROVE  /\ op'[u] = "recover" <=> op[u] = "recover"
                      /\ op[u] = "recover" => key'[u] = key[u]
    BY <1>7 DEF OtherCalls
  <2>1. ASSUME NEW i \in Id, NEW v, ApplyUserEvent(t, i, v)
        PROVE  /\ op'[u] = "recover" <=> op[u] = "recover"
               /\ op[u] = "recover" => key'[u] = key[u]
    BY <2>1 DEF ApplyUserEvent, EnterOrWait
  <2>2. CASE RestoreOpenOrders(t) \/ Granted(t)
    BY <2>2 DEF RestoreOpenOrders, Granted, EventGranted, RecoverGranted, RestoreGranted,
                StoreUntilBusy, Return
  <2>3. CASE EventAnswered(t) \/ RestoreListed(t)
    BY <2>3 DEF EventAnswered, RestoreListed, StoreUntilBusy, Return
  <2>4. CASE current[t] = NoRequest /\ CallFails(t)
    BY <2>4 DEF CallFails, Return
  <2> QED
    BY <1>7, <2>1, <2>2, <2>3, <2>4 DEF OtherCalls
<1>8. CASE Environment
  BY <1>8 DEF Environment, OrderChanges, RestCatchesUp, RestAnswers, RestLists, calls
<1>9. CASE UNCHANGED rvars
  BY <1>9 DEF rvars, vars, calls
<1> QED
  BY <1>1, <1>2, <1>4, <1>5, <1>6, <1>7, <1>8, <1>9 DEF RecoveryNext

LEMMA RecoveryTypeInit == RecoveryInit => RecoveryTypeOK
BY RequestAssumption DEF RecoveryInit, Init, RecoveryTypeOK, EmptyBatch

\* A recovery that is suspended queries an entry of its own copy of the map,
\* also when ids are reused and the map has moved on.
THEOREM RecoveryTypes == RecoverySpec => []RecoveryTypeOK
<1>1. RecoveryInit => RecoveryTypeOK
  BY RecoveryTypeInit
<1>2. TypeOK /\ RecoveryTypeOK /\ [RecoveryNext]_rvars => RecoveryTypeOK'
  BY RecoveryTypeStep
<1>3. RecoverySpec => []TypeOK
  BY RecoveryImplementsReconciler, TypeCorrect, PTL DEF ReconcilerImplemented
<1> QED
  BY <1>1, <1>2, <1>3, PTL DEF RecoverySpec

\* An id that is not reused names the same request in every copy of the map.
CopiesAgree ==
    /\ \A r \in Request : pending[r] # Absent => r \in issued
    /\ \A t \in Task : \A r \in Request : batch[t][r] # Absent =>
          r \in issued /\ pending[r] \in {Absent, batch[t][r]}

RecoveryInv == TypeOK /\ RecoveryTypeOK /\ CopiesAgree

LEMMA RecoveryInvInit == RecoveryInit => RecoveryInv
<1> SUFFICES ASSUME RecoveryInit PROVE RecoveryInv
  OBVIOUS
<1>1. TypeOK
  BY TypeInit DEF RecoveryInit
<1>2. RecoveryTypeOK /\ CopiesAgree
  BY RecoveryTypeInit, RequestAssumption DEF RecoveryInit, CopiesAgree, EmptyBatch
<1> QED
  BY <1>1, <1>2 DEF RecoveryInv

LEMMA RecoveryInvStep == ~ReuseIds /\ RecoveryInv /\ [RecoveryNext]_rvars => RecoveryInv'
<1> SUFFICES ASSUME ~ReuseIds, TypeOK, RecoveryTypeOK, CopiesAgree, [RecoveryNext]_rvars
             PROVE  CopiesAgree'
  BY RecoveryStepIsReconcilerStep, RecoveryTypeStep, TypeStep DEF RecoveryInv
<1> USE RequestAssumption DEF RecoveryTypeOK, CopiesAgree, stream, loops
<1>1. ASSUME NEW r \in Request, NEW c \in Id \cup {NoId}, Register(r, c)
      PROVE  CopiesAgree'
  BY <1>1 DEF Register
<1>2. ASSUME NEW r \in Request, Respond(r) PROVE CopiesAgree'
  BY <1>2 DEF Respond
<1>3. ASSUME NEW t \in Task, NEW r \in Request, NEW requests, Query(t, r, requests),
             \A q \in Request : requests[q] # Absent =>
                q \in issued /\ pending[q] \in {Absent, requests[q]}
      PROVE  CopiesAgree'
  <2>1. \A q \in Request : batch'[t][q] # Absent => batch'[t][q] = requests[q]
    BY <1>3 DEF Query
  <2>2. \A u \in Task \ {t} : batch'[u] = batch[u]
    BY <1>3 DEF Query
  <2> QED
    BY <1>3, <2>1, <2>2 DEF Query
<1>4. ASSUME NEW t \in Task, StartRecovery(t) PROVE CopiesAgree'
  BY <1>3, <1>4 DEF StartRecovery, Correlated
<1>5. ASSUME NEW t \in Task, NextRequest(t) PROVE CopiesAgree'
  BY <1>3, <1>5 DEF NextRequest, Correlated
<1>6. ASSUME NEW t \in Task, RecoveryAnswered(t) PROVE CopiesAgree'
  BY <1>6 DEF RecoveryAnswered
<1>7. ASSUME NEW t \in Task, RecoveryFails(t) PROVE CopiesAgree'
  BY <1>7 DEF RecoveryFails, EmptyBatch
<1>8. ASSUME UNCHANGED <<stream, loops>> PROVE CopiesAgree'
  BY <1>8
<1> QED
  BY <1>1, <1>2, <1>4, <1>5, <1>6, <1>7, <1>8
  DEF RecoveryNext, OtherCalls, Environment, rvars

LEMMA ResolvedStep ==
    ASSUME RecoveryInv, [RecoveryNext]_rvars, NEW r \in Request,
           pending[r] # Absent, pending'[r] = Absent
    PROVE  \/ Respond(r)
           \/ \E t \in Task : /\ current[t] = r
                              /\ key[t] = pending[r]
                              /\ LockedResult(t) # NoOrder
<1> USE RequestAssumption DEF RecoveryInv, RecoveryTypeOK
<1>1. ASSUME NEW q \in Request, NEW c \in Id \cup {NoId}, Register(q, c) PROVE FALSE
  BY <1>1, ConstantsAssumption DEF Register
<1>2. ASSUME NEW q \in Request, Respond(q) PROVE Respond(r)
  BY <1>2 DEF Respond
<1>3. ASSUME NEW t \in Task, RecoveryAnswered(t)
      PROVE  current[t] = r /\ key[t] = pending[r] /\ LockedResult(t) # NoOrder
  <2>1. current[t] \in Request /\ batch[t][current[t]] = key[t] /\ key[t] # Absent
    BY <1>3 DEF RecoveryAnswered, RecoverAnswered, TypeOK, CallTypeOK
  <2>2. LockedResult(t) # NoOrder /\ current[t] = r
    BY <1>3, <2>1 DEF RecoveryAnswered
  <2> QED
    BY <2>1, <2>2 DEF CopiesAgree
<1>4. ASSUME UNCHANGED pending PROVE FALSE
  BY <1>4
<1> QED
  BY <1>1, <1>2, <1>3, <1>4
  DEF RecoveryNext, StartRecovery, NextRequest, Query, RecoveryFails, OtherCalls,
      Environment, rvars, stream

\* If request ids are not reused, a request stops being pending only by a
\* response or by a snapshot of its own order, however many recoveries, event
\* handlers and senders run at once.
THEOREM RecoveryIsCorrelated == ~ReuseIds => (RecoverySpec => ResolvedByItsOwnOrder)
<1> SUFFICES ASSUME ~ReuseIds PROVE RecoverySpec => ResolvedByItsOwnOrder
  OBVIOUS
<1>1. RecoveryInit => RecoveryInv
  BY RecoveryInvInit
<1>2. RecoveryInv /\ [RecoveryNext]_rvars => RecoveryInv'
  BY RecoveryInvStep
<1>3. RecoveryInv /\ [RecoveryNext]_rvars
         => [\A r \in Request : pending[r] # Absent /\ pending'[r] = Absent =>
                \/ Respond(r)
                \/ \E t \in Task : /\ current[t] = r
                                   /\ key[t] = pending[r]
                                   /\ LockedResult(t) # NoOrder]_rvars
  BY ResolvedStep
<1> QED
  BY <1>1, <1>2, <1>3, PTL DEF RecoverySpec, ResolvedByItsOwnOrder

-----------------------------------------------------------------------------
(* The promise of PendingRequests. *)

Waiting == {r \in Request : pending[r] # Absent}

LEMMA RecoveryKeepsPromise ==
    ASSUME ~ReuseIds, RecoveryInv, [RecoveryNext]_rvars
    PROVE  [Requests!Next]_(Requests!requests)
<1> USE RequestAssumption
    DEF RecoveryInv, RecoveryTypeOK, CopiesAgree, Requests!Next, Requests!requests
<1>1. ASSUME NEW r \in Request, NEW c \in Id \cup {NoId}, Register(r, c)
      PROVE  Requests!Ask(r)
  <2>1. /\ pending[r] = Absent /\ r \notin issued
        /\ c # Absent /\ pending' = [pending EXCEPT ![r] = c]
        /\ issued' = issued \cup {r}
    BY <1>1 DEF Register
  <2>2. Waiting' = Waiting \cup {r}
    BY <2>1 DEF Waiting
  <2>3. {q \in issued : pending[q] = Absent}' = {q \in issued : pending[q] = Absent}
    BY <2>1
  <2>4. [q \in Request |-> IF q \in issued THEN 1 ELSE 0]'
           = [[q \in Request |-> IF q \in issued THEN 1 ELSE 0] EXCEPT ![r] = 1]
    BY <2>1
  <2> QED
    BY <2>1, <2>2, <2>3, <2>4 DEF Requests!Ask, Waiting
<1>2. ASSUME NEW r \in Request, pending[r] # Absent,
             pending' = [pending EXCEPT ![r] = Absent], UNCHANGED issued
      PROVE  Requests!Learn(r)
  <2>1. r \in issued
    BY <1>2
  <2>2. Waiting' = Waiting \ {r}
    BY <1>2 DEF Waiting
  <2>3. {q \in issued : pending[q] = Absent}' = {q \in issued : pending[q] = Absent} \cup {r}
    BY <1>2, <2>1
  <2> QED
    BY <1>2, <2>2, <2>3 DEF Requests!Learn, Waiting
<1>3. ASSUME UNCHANGED <<pending, issued>>
      PROVE  UNCHANGED Requests!requests
  BY <1>3
<1>4. ASSUME NEW r \in Request, Respond(r)
      PROVE  Requests!Learn(r)
  BY <1>2, <1>4 DEF Respond
<1>5. ASSUME NEW t \in Task, RecoveryAnswered(t)
      PROVE  (\E r \in Request : Requests!Learn(r)) \/ UNCHANGED Requests!requests
  <2>1. current[t] \in Request
    BY <1>5 DEF RecoveryAnswered, RecoverAnswered
  <2>2. CASE UNCHANGED <<pending, issued>>
    BY <1>3, <2>2
  <2>3. CASE pending' # pending
    BY <1>2, <1>5, <2>1, <2>3 DEF RecoveryAnswered
  <2> QED
    BY <1>5, <2>2, <2>3 DEF RecoveryAnswered
<1> QED
  BY <1>1, <1>3, <1>4, <1>5
  DEF RecoveryNext, StartRecovery, NextRequest, Query, RecoveryFails, OtherCalls,
      Environment, rvars, stream

\* Also when recover_pending runs under the locks of the reconciler, beside event
\* handlers and restores, a request is registered once and ends once: the module
\* implements the same promise as the session of the stream.
THEOREM RecoveryKeepsRequests == ~ReuseIds => (RecoverySpec => RequestsImplemented)
<1> SUFFICES ASSUME ~ReuseIds PROVE RecoverySpec => RequestsImplemented
  OBVIOUS
<1>1. RecoveryInit => Requests!Init
  BY DEF RecoveryInit, EmptyBatch, Requests!Init
<1>2. RecoveryInv /\ [RecoveryNext]_rvars => RecoveryInv'
  BY RecoveryInvStep
<1>3. RecoveryInv /\ [RecoveryNext]_rvars => [Requests!Next]_(Requests!requests)
  BY RecoveryKeepsPromise
<1> QED
  BY <1>1, <1>2, <1>3, RecoveryInvInit, PTL
  DEF RecoverySpec, RequestsImplemented, Requests!Spec
=============================================================================
