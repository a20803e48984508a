------------------------- MODULE OrderSessionProofs -------------------------
(***************************************************************************)
(* Proofs about OrderResponseSession, for any tasks, connections and       *)
(* requests: what is known of a request that was sent, the promise of      *)
(* PendingRequests, and the winding down of a closed stream.               *)
(***************************************************************************)
EXTENDS OrderResponseSession, TLAPS

-----------------------------------------------------------------------------
(* Types. *)

LEMMA TypeInit == Init => TypeOK
<1> SUFFICES ASSUME Init PROVE TypeOK
  OBVIOUS
<1>1. <<>> \in Seq([id : Request, valid : BOOLEAN])
  OBVIOUS
<1>2. StreamTypeOK /\ ConnectionTypeOK
  BY <1>1 DEF Init, StreamTypeOK, ConnectionTypeOK
<1>3. TaskTypeOK
  BY OrderSessionAssumption DEF Init, TaskTypeOK, Place, Operation
<1> QED
  BY <1>2, <1>3 DEF TypeOK

LEMMA SuspendType ==
    ASSUME TaskTypeOK, NEW t \in Task, NEW place \in Place, NEW call \in Operation,
           NEW c \in Conn \cup {NoConn}, NEW n \in 0..MaxAttempts,
           Suspend(t, place, call, c, n), UNCHANGED <<own, batch>>,
           pc[t] \notin {"login", "querying"}, place \notin {"login", "querying"},
           place \in {"closing", "receiving"} => c # NoConn
    PROVE  TaskTypeOK'
BY DEF Suspend, TaskTypeOK

LEMMA ReturnType ==
    ASSUME TaskTypeOK, NEW t \in Task, Return(t)
    PROVE  TaskTypeOK'
BY OrderSessionAssumption DEF Return, Suspend, NothingInHand, TaskTypeOK, Place, Operation

\* A request that is sent is one, and goes out on a connection.
LEMMA SendType ==
    ASSUME StreamTypeOK, ConnectionTypeOK, NEW r \in Request, Register(r), Transmit(r),
           UNCHANGED <<closed, connection, open, unread, known>>
    PROVE  StreamTypeOK' /\ ConnectionTypeOK'
<1>1. StreamTypeOK'
  BY DEF StreamTypeOK, Register, Transmit
<1>2. ConnectionTypeOK'
  BY DEF ConnectionTypeOK, Transmit
<1> QED
  BY <1>1, <1>2

LEMMA AuthenticateType ==
    ASSUME TypeOK, NEW t \in Task, NEW r \in Login, Authenticate(t, r)
    PROVE  TypeOK'
<1>1. StreamTypeOK' /\ ConnectionTypeOK'
  <2>1. r \in Request
    BY DEF Request
  <2> QED
    BY <2>1, SendType DEF Authenticate, TypeOK
<1>2. CASE UNCHANGED task
  BY <1>1, <1>2 DEF TypeOK, TaskTypeOK, task
<1>3. CASE /\ connection \in open
           /\ Suspend(t, "login", "authenticate", connection, 0)
           /\ own' = [own EXCEPT ![t] = r]
           /\ UNCHANGED batch
  <2>1. connection \in Conn /\ connection # NoConn /\ r \in Request /\ r # NoRequest
    BY <1>3, OrderSessionAssumption DEF TypeOK, ConnectionTypeOK, Request
  <2>2. TaskTypeOK'
    BY <1>3, <2>1, OrderSessionAssumption DEF TypeOK, TaskTypeOK, Suspend, Place, Operation
  <2> QED
    BY <1>1, <2>2 DEF TypeOK
<1> QED
  BY <1>2, <1>3 DEF Authenticate

\* A response that is read is to a request.
LEMMA ReadsType ==
    ASSUME TypeOK, NEW t \in Task, Reads(t)
    PROVE  TypeOK'
<1>1. conn[t] \in Conn /\ unread[conn[t]] # <<>> /\ Return(t)
  BY OrderSessionAssumption DEF Reads, TypeOK, TaskTypeOK
<1>2. /\ Head(unread[conn[t]]) \in [id : Request, valid : BOOLEAN]
      /\ Tail(unread[conn[t]]) \in Seq([id : Request, valid : BOOLEAN])
  <2>1. unread[conn[t]] \in Seq([id : Request, valid : BOOLEAN])
    BY <1>1 DEF TypeOK, ConnectionTypeOK
  <2>2. \A S : \A s \in Seq(S) : s # <<>> => Head(s) \in S /\ Tail(s) \in Seq(S)
    OBVIOUS
  <2> QED
    BY <1>1, <2>1, <2>2
<1>3. pending' \subseteq Request /\ known' \subseteq Request
  BY <1>2 DEF Reads, Decode, Resolve, TypeOK, StreamTypeOK
<1>4. StreamTypeOK'
  BY <1>3 DEF Reads, TypeOK, StreamTypeOK, TaskTypeOK
<1>5. ConnectionTypeOK'
  BY <1>1, <1>2 DEF Reads, TypeOK, ConnectionTypeOK
<1> QED
  BY <1>1, <1>4, <1>5, ReturnType DEF TypeOK

\* Steps of a task that connects, closes or reads, and leaves the requests alone.
LEMMA MoveType ==
    ASSUME TypeOK, NEW t \in Task,
           \/ \E n \in {1, MaxAttempts} : Connect(t, n)
           \/ Receive(t) \/ ReadFails(t) \/ Reconnect(t) \/ CloseAsync(t) \/ CloseDone(t)
           \/ ConnectFails(t) \/ PauseOver(t) \/ Cancel(t)
    PROVE  TypeOK'
<1> USE OrderSessionAssumption DEF Place, Operation
<1>1. StreamTypeOK' /\ ConnectionTypeOK'
  BY DEF Connect, Receive, ReadFails, Reconnect, CloseAsync, CloseTransport, CloseDone,
         ConnectFails, PauseOver, Cancel, TypeOK, StreamTypeOK, ConnectionTypeOK,
         stream, wire, history
<1>2. CASE Return(t)
  BY <1>1, <1>2, ReturnType DEF TypeOK
<1>3. CASE ~Return(t)
  <2>1. /\ pc[t] \in {"idle", "closing", "connecting", "pausing"}
        /\ UNCHANGED <<own, batch>>
    BY <1>3 DEF Connect, Receive, ReadFails, Reconnect, CloseAsync, CloseDone, ConnectFails,
                PauseOver, Cancel
  <2>2. op[t] \in Operation /\ attempts[t] \in 0..MaxAttempts
        /\ connection \in Conn \cup {NoConn}
    BY DEF TypeOK, TaskTypeOK, ConnectionTypeOK
  <2>3. PICK place \in Place \ {"login", "querying"}, call \in Operation,
             c \in Conn \cup {NoConn}, n \in 0..MaxAttempts :
                /\ Suspend(t, place, call, c, n)
                /\ place \in {"closing", "receiving"} => c # NoConn
    <3>1. CASE \E n \in {1, MaxAttempts} : Connect(t, n)
      BY <3>1 DEF Connect
    <3>2. CASE Receive(t)
      BY <2>2, <3>2 DEF Receive
    <3>3. CASE Reconnect(t) \/ CloseAsync(t)
      BY <2>2, <3>3 DEF Reconnect, CloseAsync, CloseTransport
    <3>4. CASE CloseDone(t)
      BY <3>4 DEF CloseDone
    <3>5. CASE ConnectFails(t) \/ PauseOver(t)
      <4>1. attempts[t] > 1 => attempts[t] - 1 \in 0..MaxAttempts
        BY <2>2
      <4> QED
        BY <2>2, <3>5, <4>1 DEF ConnectFails, PauseOver
    <3> QED
      BY <1>3, <3>1, <3>2, <3>3, <3>4, <3>5 DEF ReadFails, Cancel
  <2>4. TaskTypeOK'
    BY <2>1, <2>3, SuspendType DEF TypeOK
  <2> QED
    BY <1>1, <2>4 DEF TypeOK
<1> QED
  BY <1>2, <1>3

LEMMA QueryType ==
    ASSUME TaskTypeOK, NEW t \in Task, NEW requests \in SUBSET Order, Query(t, requests)
    PROVE  TaskTypeOK'
<1>1. PICK r \in requests :
         /\ Suspend(t, "querying", "recover", NoConn, 0)
         /\ own' = [own EXCEPT ![t] = r]
         /\ batch' = [batch EXCEPT ![t] = requests \ {r}]
  BY DEF Query
<1>2. r \in Request /\ r # NoRequest
  BY OrderSessionAssumption DEF Request
<1> QED
  BY <1>1, <1>2, OrderSessionAssumption DEF TaskTypeOK, Suspend, Place, Operation

LEMMA TypeStep == TypeOK /\ [Next]_vars => TypeOK'
<1> SUFFICES ASSUME TypeOK, [Next]_vars PROVE TypeOK'
  OBVIOUS
<1>1. CASE UNCHANGED vars
  BY <1>1 DEF vars, stream, wire, task, history, TypeOK, StreamTypeOK, ConnectionTypeOK,
              TaskTypeOK
<1>2. ASSUME NEW r \in Request, SendRequest(r) PROVE TypeOK'
  <2>1. TaskTypeOK'
    BY <1>2 DEF SendRequest, task, TypeOK, TaskTypeOK
  <2> QED
    BY <1>2, <2>1, SendType DEF SendRequest, TypeOK
<1>3. ASSUME NEW r \in Request, NEW valid \in BOOLEAN, Respond(r, valid) PROVE TypeOK'
  <2>1. asked[r] \in Conn
    BY <1>3 DEF Respond, TypeOK, ConnectionTypeOK
  <2>2. Append(unread[asked[r]], [id |-> r, valid |-> valid])
           \in Seq([id : Request, valid : BOOLEAN])
    <3>1. unread[asked[r]] \in Seq([id : Request, valid : BOOLEAN])
      BY <2>1 DEF TypeOK, ConnectionTypeOK
    <3>2. [id |-> r, valid |-> valid] \in [id : Request, valid : BOOLEAN]
      OBVIOUS
    <3>3. \A S : \A s \in Seq(S), x \in S : Append(s, x) \in Seq(S)
      OBVIOUS
    <3> QED
      BY <3>1, <3>2, <3>3
  <2>3. ConnectionTypeOK'
    BY <1>3, <2>1, <2>2 DEF Respond, TypeOK, ConnectionTypeOK
  <2>4. StreamTypeOK' /\ TaskTypeOK'
    BY <1>3 DEF Respond, stream, task, history, TypeOK, StreamTypeOK, TaskTypeOK
  <2> QED
    BY <2>3, <2>4 DEF TypeOK
<1>4. CASE Close
  BY <1>4 DEF Close, wire, task, history, TypeOK, StreamTypeOK, ConnectionTypeOK,
              TaskTypeOK
<1>5. ASSUME NEW c \in Conn, Drop(c) PROVE TypeOK'
  BY <1>5 DEF Drop, stream, wire, task, history, TypeOK, StreamTypeOK, ConnectionTypeOK,
              TaskTypeOK
<1>6. ASSUME NEW t \in Task, ConnectDone(t) PROVE TypeOK'
  <2>1. <<>> \in Seq([id : Request, valid : BOOLEAN])
    OBVIOUS
  <2>2. ConnectionTypeOK'
    BY <1>6, <2>1 DEF ConnectDone, TypeOK, ConnectionTypeOK
  <2>3. StreamTypeOK' /\ Return(t)
    BY <1>6 DEF ConnectDone, stream, history, TypeOK, StreamTypeOK
  <2> QED
    BY <2>2, <2>3, ReturnType DEF TypeOK
<1>7. ASSUME NEW t \in Task, RecoverPending(t) PROVE TypeOK'
  <2>1. StreamTypeOK' /\ ConnectionTypeOK'
    BY <1>7 DEF RecoverPending, stream, wire, history, TypeOK, StreamTypeOK, ConnectionTypeOK
  <2>2. TaskTypeOK'
    BY <1>7, QueryType DEF RecoverPending, TypeOK
  <2> QED
    BY <2>1, <2>2 DEF TypeOK
<1>8. ASSUME NEW t \in Task, Queried(t) PROVE TypeOK'
  <2>1. own[t] \in Request /\ batch[t] \in SUBSET Order
    BY <1>8 DEF Queried, TypeOK, TaskTypeOK
  <2>2. StreamTypeOK' /\ ConnectionTypeOK'
    BY <1>8, <2>1 DEF Queried, Resolve, wire, TypeOK, StreamTypeOK, ConnectionTypeOK
  <2>3. TaskTypeOK'
    BY <1>8, <2>1, QueryType, ReturnType DEF Queried, TypeOK
  <2> QED
    BY <2>2, <2>3 DEF TypeOK
<1> QED
  BY <1>1, <1>2, <1>3, <1>4, <1>5, <1>6, <1>7, <1>8, AuthenticateType, ReadsType, MoveType
  DEF Next

\* Whatever callers, server and network do: attempts stay within their number,
\* a task has a request in hand exactly while it logs in or queries, and
\* whoever closes or reads knows a connection.
THEOREM SessionTypes == Spec => []TypeOK
BY TypeInit, TypeStep, PTL DEF Spec

-----------------------------------------------------------------------------
(* Requests.  Neither property is inductive alone: that a request is not   *)
(* sent twice rests on its being pending or known once it has been sent,   *)
(* and the types tell a request that was not sent.                         *)

SendsTypeOK == sends \in [Request -> Nat]

RequestInv == SendsTypeOK /\ UnknownIsPending /\ NothingIsResent

\* Every step does one of three things to the requests: it sends one that was
\* neither pending nor known, it makes one known that it no longer keeps
\* pending, or it leaves them alone.
LEMMA SendKeeps ==
    ASSUME RequestInv, NEW r \in Request, Register(r), Transmit(r), UNCHANGED known
    PROVE  RequestInv'
<1>1. sends[r] = 0
  BY DEF RequestInv, SendsTypeOK, UnknownIsPending, Register
<1>2. /\ sends' \in [Request -> Nat]
      /\ sends'[r] \in {0, 1}
      /\ \A q \in Request \ {r} : sends'[q] = sends[q]
  BY <1>1 DEF RequestInv, SendsTypeOK, Transmit
<1>3. pending' = pending \cup {r} /\ known' = known
  BY DEF Register
<1> QED
  BY <1>2, <1>3 DEF RequestInv, SendsTypeOK, UnknownIsPending, NothingIsResent

LEMMA ResolveKeeps ==
    ASSUME RequestInv, NEW r, Resolve(r), UNCHANGED sends
    PROVE  RequestInv'
BY DEF RequestInv, Resolve, SendsTypeOK, UnknownIsPending, NothingIsResent

LEMMA OthersKeep ==
    ASSUME RequestInv, UNCHANGED <<pending, known, sends>>
    PROVE  RequestInv'
BY DEF RequestInv, SendsTypeOK, UnknownIsPending, NothingIsResent

LEMMA RequestStep ==
    ASSUME RequestInv, [Next]_vars
    PROVE  RequestInv'
<1>1. CASE UNCHANGED vars
  BY <1>1, OthersKeep DEF vars, stream, history
<1>2. ASSUME NEW r \in Request, SendRequest(r) PROVE RequestInv'
  BY <1>2, SendKeeps DEF SendRequest
<1>3. ASSUME NEW r \in Request, NEW valid \in BOOLEAN, Respond(r, valid) PROVE RequestInv'
  BY <1>3, OthersKeep DEF Respond, stream, history
<1>4. CASE Close
  BY <1>4, OthersKeep DEF Close, history
<1>5. ASSUME NEW c \in Conn, Drop(c) PROVE RequestInv'
  BY <1>5, OthersKeep DEF Drop, stream, history
<1>6. ASSUME NEW t \in Task, NEW r \in Login, Authenticate(t, r)
      PROVE  RequestInv'
  <2>1. r \in Request /\ Register(r) /\ Transmit(r) /\ UNCHANGED known
    BY <1>6 DEF Authenticate, Request
  <2> QED
    BY <2>1, SendKeeps
<1>7. ASSUME NEW t \in Task, Reads(t) PROVE RequestInv'
  <2>1. Decode(Head(unread[conn[t]])) /\ UNCHANGED sends
    BY <1>7 DEF Reads
  <2> QED
    BY <2>1, ResolveKeeps, OthersKeep DEF Decode
<1>8. ASSUME NEW t \in Task, Queried(t) PROVE RequestInv'
  <2>1. (Resolve(own[t]) \/ UNCHANGED <<pending, known>>) /\ UNCHANGED sends
    BY <1>8 DEF Queried
  <2> QED
    BY <2>1, ResolveKeeps, OthersKeep
<1>9. ASSUME NEW t \in Task, Receive(t) \/ ReadFails(t) \/ Reconnect(t) \/ CloseDone(t)
      PROVE  RequestInv'
  BY <1>9, OthersKeep DEF Receive, ReadFails, Reconnect, CloseDone, stream, history
<1>10. ASSUME NEW t \in Task, NEW n \in {1, MaxAttempts}, Connect(t, n)
       PROVE  RequestInv'
  BY <1>10, OthersKeep DEF Connect, stream, history
<1>11. ASSUME NEW t \in Task, ConnectDone(t) \/ ConnectFails(t) \/ PauseOver(t) \/ Cancel(t)
       PROVE  RequestInv'
  BY <1>11, OthersKeep DEF ConnectDone, ConnectFails, PauseOver, Cancel, stream, history
<1>12. ASSUME NEW t \in Task, CloseAsync(t) \/ RecoverPending(t)
       PROVE  RequestInv'
  BY <1>12, OthersKeep DEF CloseAsync, RecoverPending, stream, history
<1> QED
  BY <1>1, <1>2, <1>3, <1>4, <1>5, <1>6, <1>7, <1>8, <1>9, <1>10, <1>11, <1>12 DEF Next

\* Requests that were sent are pending or their outcome is known, and because
\* of that none is sent again by send_request().
THEOREM RequestInvariant == Spec => []RequestInv
<1>1. Init => RequestInv
  BY DEF Init, RequestInv, SendsTypeOK, UnknownIsPending, NothingIsResent
<1>2. RequestInv /\ [Next]_vars => RequestInv'
  BY RequestStep
<1> QED
  BY <1>1, <1>2, PTL DEF Spec

(***************************************************************************)
(* No request reaches the server twice, whatever the interleaving of       *)
(* retries, reconnects, recoveries and cancelled calls.                    *)
(***************************************************************************)
THEOREM RequestsAreSentOnce == Spec => []NothingIsResent
<1>1. RequestInv => NothingIsResent
  BY DEF RequestInv
<1> QED
  BY <1>1, RequestInvariant, PTL

(***************************************************************************)
(* A request that went out stays pending until a valid response to it was  *)
(* read or its order was found.                                            *)
(***************************************************************************)
THEOREM RequestsAreNotForgotten == Spec => []UnknownIsPending
<1>1. RequestInv => UnknownIsPending
  BY DEF RequestInv
<1> QED
  BY <1>1, RequestInvariant, PTL

-----------------------------------------------------------------------------
(* The promise of PendingRequests.  A step that makes an outcome known has *)
(* to be about a request that was registered.  That is not evident where   *)
(* it happens, for the id comes out of a response that whoever reads next  *)
(* takes, or out of a copy that a recovery made long before.               *)

Registered == pending \cup known

\* Wherever the server, the network or a task holds a request, it was registered.
ServerIsAsked == \A r \in Request : asked[r] # NoConn => r \in Registered

ResponsesAreOurs ==
    \A c \in Conn : \A n \in DOMAIN unread[c] : unread[c][n].id \in Registered

TasksHoldOurs ==
    \A t \in Task : own[t] \in Registered \cup {NoRequest} /\ batch[t] \subseteq Registered

HeldInv == ServerIsAsked /\ ResponsesAreOurs /\ TasksHoldOurs

\* What a step does to the requests: nothing, or one is registered, or its
\* outcome is known; none is forgotten.
Registers(r) == Register(r) /\ Transmit(r) /\ UNCHANGED known

RequestEffect ==
    \/ UNCHANGED <<pending, known, sends>>
    \/ \E r \in Request : Registers(r)
    \/ \E r \in Registered : Resolve(r) /\ UNCHANGED sends

LEMMA RegisteredGrows ==
    ASSUME RequestEffect
    PROVE  Registered \subseteq Registered'
BY DEF RequestEffect, Registers, Register, Resolve, Registered

\* A response in a connection's queue, wherever it stands, is to one of ours.
LEMMA HeadIsOurs ==
    ASSUME TypeOK, ResponsesAreOurs, NEW c \in Conn, unread[c] # <<>>
    PROVE  /\ Head(unread[c]).id \in Registered
           /\ \A n \in DOMAIN Tail(unread[c]) : Tail(unread[c])[n].id \in Registered
<1>1. unread[c] \in Seq([id : Request, valid : BOOLEAN])
  BY DEF TypeOK, ConnectionTypeOK
<1> DEFINE s == unread[c]
<1>2. Len(s) \in Nat /\ Len(s) > 0 /\ DOMAIN s = 1..Len(s)
  BY <1>1
<1>3. /\ Head(s) = s[1]
      /\ DOMAIN Tail(s) = 1..(Len(s) - 1)
      /\ \A n \in 1..(Len(s) - 1) : Tail(s)[n] = s[n + 1]
  BY <1>1
<1>4. \A n \in 1..(Len(s) - 1) : n + 1 \in DOMAIN s
  BY <1>2
<1> QED
  BY <1>2, <1>3, <1>4 DEF ResponsesAreOurs

LEMMA EffectStep ==
    ASSUME TypeOK, HeldInv, [Next]_vars
    PROVE  RequestEffect
<1>1. ASSUME NEW r \in Request, SendRequest(r) PROVE RequestEffect
  BY <1>1 DEF SendRequest, Registers, RequestEffect
<1>2. ASSUME NEW t \in Task, NEW r \in Login, Authenticate(t, r)
      PROVE  RequestEffect
  BY <1>2 DEF Authenticate, Registers, RequestEffect, Request
<1>3. ASSUME NEW t \in Task, Reads(t) PROVE RequestEffect
  <2>1. conn[t] \in Conn
    BY <1>3 DEF Reads, TypeOK, TaskTypeOK
  <2>2. Head(unread[conn[t]]).id \in Registered
    BY <1>3, <2>1, HeadIsOurs DEF Reads, HeldInv
  <2> QED
    BY <1>3, <2>2 DEF Reads, Decode, RequestEffect
<1>4. ASSUME NEW t \in Task, Queried(t) PROVE RequestEffect
  <2>1. own[t] \in Registered
    BY <1>4 DEF Queried, TypeOK, TaskTypeOK, HeldInv, TasksHoldOurs
  <2> QED
    BY <1>4, <2>1 DEF Queried, RequestEffect
<1> QED
  BY <1>1, <1>2, <1>3, <1>4
  DEF Next, vars, stream, history, RequestEffect, Respond, Close, Drop, Receive,
      ReadFails, Connect, Reconnect, CloseAsync, CloseDone, ConnectDone, ConnectFails,
      PauseOver, RecoverPending, Cancel

\* A step that gives no task a request.
LEMMA TasksKeep ==
    ASSUME TasksHoldOurs, Registered \subseteq Registered', TaskTypeOK,
           UNCHANGED <<own, batch>> \/ \E t \in Task : NothingInHand(t)
    PROVE  TasksHoldOurs'
BY DEF TasksHoldOurs, NothingInHand, TaskTypeOK

\* A step that neither asks the server nor brings a response.
LEMMA WireKeeps ==
    ASSUME ServerIsAsked, ResponsesAreOurs, Registered \subseteq Registered', UNCHANGED wire
    PROVE  ServerIsAsked' /\ ResponsesAreOurs'
BY DEF ServerIsAsked, ResponsesAreOurs, wire

\* A recovery takes a request, and the rest of its copy, from requests of ours.
LEMMA QueryHolds ==
    ASSUME TasksHoldOurs, TaskTypeOK, Registered \subseteq Registered', NEW t \in Task,
           NEW S \in SUBSET Registered, Query(t, S)
    PROVE  TasksHoldOurs'
BY DEF TasksHoldOurs, TaskTypeOK, Query

LEMMA RegisterHolds ==
    ASSUME TypeOK, ServerIsAsked, ResponsesAreOurs, Registered \subseteq Registered',
           NEW r \in Request, Registers(r), UNCHANGED unread
    PROVE  ServerIsAsked' /\ ResponsesAreOurs' /\ r \in Registered'
<1>1. r \in Registered'
  BY DEF Registers, Register, Registered
<1>2. \A q \in Request : asked'[q] # NoConn => q = r \/ asked[q] # NoConn
  BY DEF Registers, Transmit, TypeOK, ConnectionTypeOK
<1> QED
  BY <1>1, <1>2 DEF ServerIsAsked, ResponsesAreOurs

LEMMA HeldStep ==
    ASSUME TypeOK, HeldInv, [Next]_vars
    PROVE  HeldInv'
<1> USE DEF HeldInv
<1>0. Registered \subseteq Registered'
  BY EffectStep, RegisteredGrows
<1>1. TaskTypeOK
  BY DEF TypeOK
<1>2. ASSUME NEW r \in Request, SendRequest(r) PROVE HeldInv'
  <2>1. Registers(r) /\ UNCHANGED <<unread, own, batch>>
    BY <1>2 DEF SendRequest, Registers, task
  <2> QED
    BY <1>0, <1>1, <2>1, RegisterHolds, TasksKeep
<1>3. ASSUME NEW t \in Task, NEW r \in Login, Authenticate(t, r)
      PROVE  HeldInv'
  <2>1. r \in Request /\ Registers(r) /\ UNCHANGED unread
    BY <1>3 DEF Authenticate, Registers, Request
  <2>2. ServerIsAsked' /\ ResponsesAreOurs' /\ r \in Registered'
    BY <1>0, <2>1, RegisterHolds
  <2>3. CASE UNCHANGED task
    BY <1>0, <1>1, <2>2, <2>3, TasksKeep DEF task
  <2>4. CASE own' = [own EXCEPT ![t] = r] /\ UNCHANGED batch
    BY <1>0, <1>1, <2>2, <2>4 DEF TasksHoldOurs, TaskTypeOK
  <2> QED
    BY <1>3, <2>3, <2>4 DEF Authenticate
<1>4. ASSUME NEW r \in Request, NEW valid \in BOOLEAN, Respond(r, valid) PROVE HeldInv'
  <2> DEFINE c == asked[r]
             s == unread[c]
  <2>1. c \in Conn /\ c # NoConn /\ s \in Seq([id : Request, valid : BOOLEAN])
    BY <1>4, OrderSessionAssumption DEF Respond, TypeOK, ConnectionTypeOK
  <2>2. unread' = [unread EXCEPT ![c] = Append(s, [id |-> r, valid |-> valid])]
    BY <1>4 DEF Respond
  <2>3. r \in Registered
    BY <2>1 DEF ServerIsAsked
  <2>4. \A n \in DOMAIN unread'[c] : unread'[c][n].id \in Registered
    <3>1. unread'[c] = Append(s, [id |-> r, valid |-> valid])
      BY <2>1, <2>2 DEF TypeOK, ConnectionTypeOK
    <3>2. /\ DOMAIN Append(s, [id |-> r, valid |-> valid]) = 1..(Len(s) + 1)
          /\ Len(s) \in Nat /\ DOMAIN s = 1..Len(s)
          /\ \A n \in 1..Len(s) : Append(s, [id |-> r, valid |-> valid])[n] = s[n]
          /\ Append(s, [id |-> r, valid |-> valid])[Len(s) + 1] = [id |-> r, valid |-> valid]
      BY <2>1
    <3>3. \A n \in 1..Len(s) : s[n].id \in Registered
      BY <2>1, <3>2 DEF ResponsesAreOurs
    <3>4. \A n \in 1..(Len(s) + 1) : n \in 1..Len(s) \/ n = Len(s) + 1
      BY <3>2
    <3> QED
      BY <2>3, <3>1, <3>2, <3>3, <3>4
  <2>5. \A d \in Conn \ {c} : unread'[d] = unread[d]
    BY <2>2 DEF TypeOK, ConnectionTypeOK
  <2>6. ResponsesAreOurs'
    BY <1>0, <2>4, <2>5 DEF ResponsesAreOurs
  <2>7. ServerIsAsked'
    BY <1>0, <1>4 DEF Respond, ServerIsAsked, TypeOK, ConnectionTypeOK
  <2> QED
    BY <1>0, <1>1, <1>4, <2>6, <2>7, TasksKeep DEF Respond, task
<1>5. ASSUME NEW t \in Task, Reads(t) PROVE HeldInv'
  <2>1. conn[t] \in Conn /\ unread[conn[t]] # <<>>
    BY <1>5 DEF Reads, TypeOK, TaskTypeOK
  <2>2. unread'[conn[t]] = Tail(unread[conn[t]])
        /\ \A d \in Conn \ {conn[t]} : unread'[d] = unread[d]
    BY <1>5, <2>1 DEF Reads, TypeOK, ConnectionTypeOK
  <2>3. ResponsesAreOurs'
    BY <1>0, <2>1, <2>2, HeadIsOurs DEF ResponsesAreOurs
  <2>4. ServerIsAsked'
    BY <1>0, <1>5 DEF Reads, ServerIsAsked
  <2> QED
    BY <1>0, <1>1, <1>5, <2>3, <2>4, TasksKeep DEF Reads, Return
<1>6. ASSUME NEW t \in Task, ConnectDone(t) PROVE HeldInv'
  <2>1. PICK c \in Conn :
           /\ asked' = [r \in Request |-> IF asked[r] = c THEN NoConn ELSE asked[r]]
           /\ unread' = [unread EXCEPT ![c] = <<>>]
    BY <1>6 DEF ConnectDone
  <2>2. ServerIsAsked'
    BY <1>0, <2>1 DEF ServerIsAsked
  <2>3. /\ unread'[c] = <<>> /\ DOMAIN <<>> = {}
        /\ \A d \in Conn \ {c} : unread'[d] = unread[d]
    BY <2>1 DEF TypeOK, ConnectionTypeOK
  <2>4. ResponsesAreOurs'
    BY <1>0, <2>3 DEF ResponsesAreOurs
  <2> QED
    BY <1>0, <1>1, <1>6, <2>2, <2>4, TasksKeep DEF ConnectDone, Return
<1>7. ASSUME NEW t \in Task, RecoverPending(t) PROVE HeldInv'
  <2>1. pending \cap Order \in SUBSET Registered
    BY DEF Registered
  <2> QED
    BY <1>0, <1>1, <1>7, <2>1, QueryHolds, WireKeeps DEF RecoverPending
<1>8. ASSUME NEW t \in Task, Queried(t) PROVE HeldInv'
  <2>1. batch[t] \in SUBSET Registered
    BY DEF TasksHoldOurs
  <2>2. TasksHoldOurs'
    BY <1>0, <1>1, <1>8, <2>1, QueryHolds, TasksKeep DEF Queried, Return
  <2> QED
    BY <1>0, <1>8, <2>2, WireKeeps DEF Queried
<1>9. ASSUME UNCHANGED wire,
             UNCHANGED <<own, batch>> \/ \E t \in Task : NothingInHand(t)
      PROVE  HeldInv'
  BY <1>0, <1>1, <1>9, WireKeeps, TasksKeep
<1>10. CASE UNCHANGED vars
  BY <1>9, <1>10 DEF vars, task
<1>11. CASE Close
  BY <1>9, <1>11 DEF Close, task
<1>12. ASSUME NEW c \in Conn, Drop(c) PROVE HeldInv'
  BY <1>9, <1>12 DEF Drop, task
<1>13. ASSUME NEW t \in Task, ReadFails(t) \/ Cancel(t) PROVE HeldInv'
  BY <1>9, <1>13 DEF ReadFails, Cancel, Return
<1>14. ASSUME NEW t \in Task,
              \/ \E n \in {1, MaxAttempts} : Connect(t, n)
              \/ Receive(t) \/ Reconnect(t) \/ CloseAsync(t) \/ CloseDone(t)
              \/ ConnectFails(t) \/ PauseOver(t)
       PROVE  HeldInv'
  BY <1>9, <1>14 DEF Connect, Receive, Reconnect, CloseAsync, CloseDone, ConnectFails, PauseOver
<1> QED
  BY <1>2, <1>3, <1>4, <1>5, <1>6, <1>7, <1>8, <1>10, <1>11, <1>12, <1>13, <1>14 DEF Next

LEMMA HeldInit == Init => HeldInv
<1> SUFFICES ASSUME Init PROVE HeldInv
  OBVIOUS
<1>1. DOMAIN <<>> = {}
  OBVIOUS
<1> QED
  BY <1>1 DEF Init, HeldInv, ServerIsAsked, ResponsesAreOurs, TasksHoldOurs, Registered

\* What a step does to the requests is a step of the promise, or none.
LEMMA EffectIsPromised ==
    ASSUME RequestInv, StreamTypeOK, RequestEffect
    PROVE  [Requests!Next]_(Requests!requests)
<1> USE DEF Requests!Next, Requests!requests
<1>1. CASE UNCHANGED <<pending, known, sends>>
  BY <1>1
<1>2. ASSUME NEW r \in Request, Registers(r)
      PROVE  Requests!Ask(r)
  <2>1. sends[r] = 0
    BY <1>2 DEF RequestInv, SendsTypeOK, UnknownIsPending, Registers, Register
  <2>2. sends' \in {sends, [sends EXCEPT ![r] = 1]}
    BY <1>2, <2>1 DEF Registers, Transmit
  <2> QED
    BY <1>2, <2>2 DEF Registers, Register, Requests!Ask
<1>3. ASSUME NEW r \in Registered, Resolve(r), UNCHANGED sends
      PROVE  Requests!Learn(r) \/ UNCHANGED <<pending, known, sends>>
  BY <1>3 DEF Resolve, Registered, Requests!Learn
<1>4. Registered \subseteq Request
  BY DEF StreamTypeOK, Registered
<1> QED
  BY <1>1, <1>2, <1>3, <1>4 DEF RequestEffect

(***************************************************************************)
(* The stream implements PendingRequests: whoever reads a response, and    *)
(* however old the copy a recovery works on, what becomes known is the     *)
(* outcome of a request that was registered, once.                         *)
(***************************************************************************)
THEOREM StreamKeepsRequests == Spec => RequestsImplemented
<1>1. Init => Requests!Init
  BY DEF Init, Requests!Init
<1>2. TypeOK /\ HeldInv /\ RequestInv /\ [Next]_vars => [Requests!Next]_(Requests!requests)
  BY EffectStep, EffectIsPromised DEF TypeOK
<1>3. TypeOK /\ HeldInv /\ [Next]_vars => HeldInv'
  BY HeldStep
<1> QED
  BY <1>1, <1>2, <1>3, HeldInit, SessionTypes, RequestInvariant, PTL
  DEF Spec, RequestsImplemented, Requests!Spec

-----------------------------------------------------------------------------
(* Closing, whatever the callers do.                                       *)

LEMMA SuspendMoves ==
    ASSUME TaskTypeOK, NEW t \in Task, NEW place, NEW call, NEW c, NEW n,
           Suspend(t, place, call, c, n)
    PROVE  pc'[t] = place /\ \A u \in Task \ {t} : pc'[u] = pc[u]
BY DEF Suspend, TaskTypeOK

\* A task that goes anywhere but to an attempt adds none.
LEMMA CalmMove ==
    ASSUME TaskTypeOK, NEW t \in Task, NEW place, NEW call, NEW c, NEW n,
           Suspend(t, place, call, c, n), place # "connecting"
    PROVE  Attempting' \subseteq Attempting \ {t}
BY SuspendMoves DEF Attempting

LEMMA CalmReturn ==
    ASSUME TaskTypeOK, NEW t \in Task, Return(t)
    PROVE  Attempting' \subseteq Attempting \ {t}
BY CalmMove DEF Return

\* Once a stream is closed its connection can only be replaced by an attempt, and
\* requests go out on an open one only.
LEMMA WindingDown ==
    ASSUME TypeOK, closed, [Next]_vars
    PROVE  /\ Attempting' \subseteq Attempting
           /\ \/ open' \subseteq open
              \/ \E t \in Attempting \ Attempting', c \in Conn : open' = open \cup {c}
           /\ Silent => Silent' /\ sends' = sends
<1> DEFINE Calm == /\ Attempting' \subseteq Attempting
                   /\ open' \subseteq open
                   /\ connection' \in {connection, NoConn}
                   /\ connection \notin open => sends' = sends
<1> USE DEF TypeOK
<1>1. ASSUME Calm
      PROVE  /\ Attempting' \subseteq Attempting
             /\ \/ open' \subseteq open
                \/ \E t \in Attempting \ Attempting', c \in Conn : open' = open \cup {c}
             /\ Silent => Silent' /\ sends' = sends
  BY <1>1, OrderSessionAssumption DEF Silent, ConnectionTypeOK
<1>2. ASSUME NEW t \in Task, ConnectDone(t)
      PROVE  /\ Attempting' \subseteq Attempting
             /\ \E c \in Conn : open' = open \cup {c}
             /\ t \in Attempting \ Attempting'
  <2>1. t \in Attempting /\ Return(t) /\ \E c \in Conn : open' = open \cup {c}
    BY <1>2 DEF ConnectDone, Attempting
  <2> QED
    BY <2>1, CalmReturn
<1>3. \A r \in Request : Transmit(r) => (connection \notin open => sends' = sends)
  BY DEF Transmit
<1>4. ASSUME UNCHANGED pc PROVE Attempting' = Attempting
  BY <1>4 DEF Attempting
<1>5. ASSUME NEW r \in Request, SendRequest(r) \/ (\E valid \in BOOLEAN : Respond(r, valid))
      PROVE  Calm
  BY <1>3, <1>4, <1>5 DEF SendRequest, Respond, stream, task, history
<1>6. CASE Close \/ UNCHANGED vars \/ \E c \in Conn : Drop(c)
  <2>1. Calm
    BY <1>4, <1>6 DEF Close, vars, Drop, stream, task, history
  <2> QED
    BY <1>1, <2>1
<1>7. ASSUME NEW t \in Task, NEW r \in Login, Authenticate(t, r) PROVE Calm
  <2>1. r \in Request /\ Transmit(r) /\ UNCHANGED <<open, connection>>
    BY <1>7 DEF Authenticate, Request
  <2>2. CASE UNCHANGED task
    BY <1>3, <1>4, <2>1, <2>2 DEF task
  <2>3. CASE Suspend(t, "login", "authenticate", connection, 0)
    BY <1>3, <2>1, <2>3, CalmMove
  <2> QED
    BY <1>7, <2>2, <2>3 DEF Authenticate
<1>8. ASSUME NEW t \in Task,
             \/ Reads(t) \/ ReadFails(t) \/ Cancel(t) \/ Receive(t) \/ CloseAsync(t)
             \/ CloseDone(t) \/ ConnectFails(t) \/ PauseOver(t) \/ RecoverPending(t) \/ Queried(t)
      PROVE  Calm
  <2>1. /\ open' \subseteq open /\ sends' = sends
        /\ connection' \in {connection, NoConn}
    BY <1>8 DEF Reads, ReadFails, Cancel, Receive, CloseAsync, CloseTransport, CloseDone,
                ConnectFails, PauseOver, RecoverPending, Queried, stream, history
  <2>2. \/ Return(t)
        \/ \E place \in Place \ {"connecting"} : \E call, c, n : Suspend(t, place, call, c, n)
    <3>1. ASSUME Reads(t) \/ ReadFails(t) \/ Cancel(t) PROVE Return(t)
      BY <3>1 DEF Reads, ReadFails, Cancel
    <3>2. ASSUME NEW place \in Place \ {"connecting"}, NEW call, NEW c, NEW n,
                 Suspend(t, place, call, c, n)
          PROVE  \E where \in Place \ {"connecting"} : \E v, d, m : Suspend(t, where, v, d, m)
      BY <3>2
    <3>3. CASE Receive(t) \/ CloseAsync(t)
      BY <3>2, <3>3 DEF Receive, CloseAsync, CloseTransport, Place
    <3>4. CASE CloseDone(t) \/ ConnectFails(t) \/ PauseOver(t)
      BY <3>2, <3>4 DEF CloseDone, ConnectFails, PauseOver, Place
    <3>5. CASE RecoverPending(t) \/ Queried(t)
      BY <3>2, <3>5 DEF RecoverPending, Queried, Query, Place
    <3> QED
      BY <1>8, <3>1, <3>3, <3>4, <3>5
  <2> QED
    BY <2>1, <2>2, CalmMove, CalmReturn
<1>9. \A t \in Task : ~Reconnect(t) /\ \A n : ~Connect(t, n)
  BY DEF Reconnect, Connect
<1>10. CASE \E t \in Task : ConnectDone(t)
  BY <1>2, <1>10 DEF Silent
<1> QED
  BY <1>1, <1>5, <1>6, <1>7, <1>8, <1>9, <1>10 DEF Next

(***************************************************************************)
(* Once it is closed a stream begins no attempt to connect, wherever its   *)
(* calls stand, opens at most one connection for each attempt that was     *)
(* under way, and sends nothing when these and its connection are gone.    *)
(***************************************************************************)
THEOREM ClosedSessionWindsDown == Spec => ClosedWindsDown
<1>1. TypeOK /\ [Next]_vars =>
         [closed => /\ Attempting' \subseteq Attempting
                    /\ \/ open' \subseteq open
                       \/ \E t \in Attempting \ Attempting', c \in Conn :
                             open' = open \cup {c}
                    /\ Silent => Silent' /\ sends' = sends]_vars
  BY WindingDown
<1> QED
  BY <1>1, SessionTypes, PTL DEF Spec, ClosedWindsDown

=============================================================================
