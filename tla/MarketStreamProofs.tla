------------------------- MODULE MarketStreamProofs -------------------------
(***************************************************************************)
(* Proofs about MarketStream, for any tasks, connections, tokens, channels *)
(* and numbers of attempts: its types, its subscriptions and the winding   *)
(* down of a closed stream whatever the callers do, and for callers with   *)
(* one connector its connections and its authentication.                   *)
(***************************************************************************)
EXTENDS MarketStream, TLAPS

-----------------------------------------------------------------------------
(* Types. *)

LEMMA TypeInit == Init => TypeOK
<1> SUFFICES ASSUME Init PROVE TypeOK
  OBVIOUS
<1>1. StreamTypeOK
  <2>1. DOMAIN <<>> = {} /\ <<>> \in Seq(Channel)
    OBVIOUS
  <2>2. IsInjective(<<>>)
    BY <2>1 DEF IsInjective
  <2> QED
    BY <2>1, <2>2 DEF Init, StreamTypeOK
<1>2. ConnectionTypeOK
  <2>1. doubtful \in BOOLEAN
    BY DEF Init
  <2> QED
    BY <2>1 DEF Init, ConnectionTypeOK
<1>3. TaskTypeOK
  BY StreamAssumption DEF Init, TaskTypeOK, Place, Operation
<1> QED
  BY <1>1, <1>2, <1>3 DEF TypeOK

LEMMA SuspendType ==
    ASSUME TaskTypeOK, NEW t \in Task, NEW where \in Place, NEW call \in Operation,
           NEW c \in Conn \cup {NoConn}, NEW k \in Token \cup {NoToken},
           NEW n \in 0..MaxAttempts, Suspend(t, where, call, c, k, n),
           where = "idle" <=> call = "none",
           where \in {"closing", "authenticating", "receiving"} => c # NoConn
    PROVE  TaskTypeOK'
BY DEF Suspend, TaskTypeOK

LEMMA ReturnType ==
    ASSUME TaskTypeOK, NEW t \in Task, Return(t)
    PROVE  TaskTypeOK'
BY StreamAssumption, SuspendType DEF Return, Place, Operation

\* A new channel goes to the end of the list.
LEMMA AppendNew ==
    ASSUME NEW S, NEW s \in Seq(S), NEW x \in S
    PROVE  /\ Append(s, x) \in Seq(S)
           /\ ToSet(Append(s, x)) = ToSet(s) \cup {x}
           /\ IsInjective(s) /\ ~Contains(s, x) => IsInjective(Append(s, x))
<1>1. /\ Append(s, x) \in Seq(S)
      /\ DOMAIN Append(s, x) = 1..Len(s) + 1
      /\ \A i \in 1..Len(s) : Append(s, x)[i] = s[i]
      /\ Append(s, x)[Len(s) + 1] = x
      /\ DOMAIN s = 1..Len(s)
      /\ Len(s) \in Nat
  OBVIOUS
<1>2. ToSet(Append(s, x)) = ToSet(s) \cup {x}
  BY <1>1 DEF ToSet
<1>3. ASSUME IsInjective(s), ~Contains(s, x) PROVE IsInjective(Append(s, x))
  BY <1>1, <1>3 DEF IsInjective, Contains
<1> QED
  BY <1>1, <1>2, <1>3

LEMMA SubscribeType ==
    ASSUME TypeOK, NEW ch \in Channel, Subscribe(ch)
    PROVE  TypeOK'
<1>1. StreamTypeOK'
  <2>1. Append(subscriptions, ch) \in Seq(Channel)
    BY AppendNew DEF TypeOK, StreamTypeOK
  <2>2. ~Contains(subscriptions, ch) => IsInjective(Append(subscriptions, ch))
    BY AppendNew DEF TypeOK, StreamTypeOK
  <2> QED
    BY <2>1, <2>2 DEF Subscribe, TypeOK, StreamTypeOK
<1>2. ConnectionTypeOK' /\ TaskTypeOK'
  BY DEF Subscribe, TypeOK, ConnectionTypeOK, TaskTypeOK, task, history
<1> QED
  BY <1>1, <1>2 DEF TypeOK

\* An authentication is sent and awaited, or cannot be sent.
LEMMA StartAuthType ==
    ASSUME TypeOK, NEW t \in Task, NEW k \in Token, NEW c \in Conn \cup {NoConn},
           NEW isOpen \in BOOLEAN, isOpen => c \in Conn,
           NEW call \in {"authenticate", "reauthenticate", "reconnect"},
           StartAuth(t, k, c, isOpen, call), UNCHANGED <<closed, subscriptions>>
    PROVE  /\ StreamTypeOK' /\ TaskTypeOK'
           /\ accepted' \in [Conn -> Token \cup {NoToken}]
           /\ answers' \in [Conn -> Seq({"accepted", "refused"})]
           /\ doubtful' \in BOOLEAN
<1>1. StreamTypeOK'
  BY DEF StartAuth, TypeOK, StreamTypeOK
<1>2. /\ accepted' \in [Conn -> Token \cup {NoToken}]
      /\ answers' \in [Conn -> Seq({"accepted", "refused"})]
      /\ doubtful' \in BOOLEAN
  <2>0. doubtful' \in BOOLEAN
    BY DEF StartAuth, Ambiguous, TypeOK, ConnectionTypeOK
  <2>1. CASE ~isOpen
    BY <2>0, <2>1 DEF StartAuth, TypeOK, ConnectionTypeOK
  <2>2. CASE isOpen
    <3>1. PICK reply \in {"accepted", "refused"} :
             /\ answers' = [answers EXCEPT ![c] = Append(@, reply)]
             /\ accepted' = [accepted EXCEPT
                               ![c] = IF reply = "accepted" THEN k ELSE NoToken]
      BY <2>2 DEF StartAuth
    <3>2. c \in Conn /\ Append(answers[c], reply) \in Seq({"accepted", "refused"})
      BY <2>2 DEF TypeOK, ConnectionTypeOK
    <3> QED
      BY <2>0, <3>1, <3>2 DEF TypeOK, ConnectionTypeOK
  <2> QED
    BY <2>1, <2>2
<1>3. CASE Return(t)
  BY <1>1, <1>2, <1>3, ReturnType DEF TypeOK
<1>4. CASE isOpen /\ Suspend(t, "authenticating", call, c, k, 0)
  <2>1. c # NoConn
    BY <1>4, StreamAssumption
  <2>2. TaskTypeOK'
    BY <1>4, <2>1, StreamAssumption, SuspendType DEF TypeOK, Place, Operation
  <2> QED
    BY <1>1, <1>2, <2>2
<1> QED
  BY <1>3, <1>4 DEF StartAuth

LEMMA ReplayType ==
    ASSUME TypeOK, NEW t \in Task, NEW c \in Conn \cup {NoConn}, NEW isOpen \in BOOLEAN,
           isOpen => c \in Conn, NEW auth \in BOOLEAN, Replay(t, c, isOpen, auth)
    PROVE  /\ subscribed' \in [Conn -> SUBSET Channel]
           /\ restored' \in Conn \cup {NoConn}
           /\ TaskTypeOK'
<1>1. Replayed(auth) \subseteq Channel
  BY DEF Replayed, TypeOK, StreamTypeOK
<1>2. subscribed' \in [Conn -> SUBSET Channel]
  BY <1>1 DEF Replay, TypeOK, ConnectionTypeOK
<1>3. restored' \in Conn \cup {NoConn}
  BY DEF Replay
<1>4. TaskTypeOK'
  BY ReturnType DEF Replay, TypeOK
<1> QED
  BY <1>2, <1>3, <1>4

LEMMA ConnectDoneType ==
    ASSUME TypeOK, NEW t \in Task, ConnectDone(t)
    PROVE  TypeOK'
<1>1. PICK c \in Conn :
         /\ connection' = c
         /\ open' = open \cup {c}
         /\ \/ /\ Return(t)
               /\ restored' = IF subscriptions = <<>> THEN c ELSE NoConn
               /\ doubtful' = authenticated
               /\ UNCHANGED <<authenticated, context, server>>
            \/ /\ context # NoToken
               /\ StartAuth(t, context, c, TRUE, "reconnect")
               /\ restored' = NoConn
               /\ UNCHANGED subscribed
            \/ /\ Replay(t, c, TRUE, authenticated)
               /\ doubtful' = authenticated
               /\ UNCHANGED <<authenticated, context, accepted, answers>>
  BY DEF ConnectDone
<1>2. UNCHANGED <<closed, subscriptions>>
  BY DEF ConnectDone
<1>3. CASE /\ Return(t)
           /\ restored' = IF subscriptions = <<>> THEN c ELSE NoConn
           /\ doubtful' = authenticated
           /\ UNCHANGED <<authenticated, context, server>>
  <2>1. StreamTypeOK' /\ ConnectionTypeOK'
    BY <1>1, <1>2, <1>3 DEF TypeOK, StreamTypeOK, ConnectionTypeOK, server
  <2> QED
    BY <1>3, <2>1, ReturnType DEF TypeOK
<1>4. CASE /\ context # NoToken
           /\ StartAuth(t, context, c, TRUE, "reconnect")
           /\ restored' = NoConn
           /\ UNCHANGED subscribed
  <2>1. context \in Token
    BY <1>4 DEF TypeOK, StreamTypeOK
  <2>2. /\ StreamTypeOK' /\ TaskTypeOK'
        /\ accepted' \in [Conn -> Token \cup {NoToken}]
        /\ answers' \in [Conn -> Seq({"accepted", "refused"})]
        /\ doubtful' \in BOOLEAN
    BY <1>2, <1>4, <2>1, StartAuthType
  <2>3. ConnectionTypeOK'
    BY <1>1, <1>4, <2>2 DEF TypeOK, ConnectionTypeOK
  <2> QED
    BY <2>2, <2>3 DEF TypeOK
<1>5. CASE /\ Replay(t, c, TRUE, authenticated)
           /\ doubtful' = authenticated
           /\ UNCHANGED <<authenticated, context, accepted, answers>>
  <2>1. authenticated \in BOOLEAN
    BY DEF TypeOK, StreamTypeOK
  <2>2. /\ subscribed' \in [Conn -> SUBSET Channel]
        /\ restored' \in Conn \cup {NoConn}
        /\ TaskTypeOK'
    BY <1>5, <2>1, ReplayType
  <2>3. StreamTypeOK' /\ ConnectionTypeOK'
    BY <1>1, <1>2, <1>5, <2>2 DEF TypeOK, StreamTypeOK, ConnectionTypeOK
  <2> QED
    BY <2>2, <2>3 DEF TypeOK
<1> QED
  BY <1>1, <1>3, <1>4, <1>5

\* Closing the connection, or going on without one.
LEMMA CloseOrGoOnType ==
    ASSUME TypeOK, NEW t \in Task, NEW call \in {"reconnect", "close"}, CloseOrGoOn(t, call),
           UNCHANGED <<connection, history, server>>
    PROVE  ConnectionTypeOK' /\ TaskTypeOK'
<1>1. ConnectionTypeOK'
  BY DEF CloseOrGoOn, TypeOK, ConnectionTypeOK, server, history
<1>2. CASE connection # NoConn /\ Suspend(t, "closing", call, connection, NoToken, 0)
  <2>1. connection \in Conn \cup {NoConn}
    BY DEF TypeOK, ConnectionTypeOK
  <2>2. TaskTypeOK'
    BY <1>2, <2>1, StreamAssumption, SuspendType DEF TypeOK, Place, Operation
  <2> QED
    BY <1>1, <2>2
<1>3. CASE Return(t)
  BY <1>1, <1>3, ReturnType DEF TypeOK
<1>4. CASE Suspend(t, "connecting", call, NoConn, NoToken, 1)
  BY <1>1, <1>4, StreamAssumption, SuspendType DEF TypeOK, Place, Operation
<1> QED
  BY <1>2, <1>3, <1>4 DEF CloseOrGoOn

\* Steps that move a task and nothing else.
LEMMA MoveType ==
    ASSUME TypeOK, NEW t \in Task,
           \/ \E n \in {1, MaxAttempts} : Connect(t, n)
           \/ Refused(t) \/ ConnectFails(t) \/ PauseOver(t)
           \/ Receive(t) \/ ReadFails(t) \/ Cancel(t)
    PROVE  TypeOK'
<1> USE StreamAssumption DEF Place, Operation
<1>1. StreamTypeOK' /\ ConnectionTypeOK'
  BY DEF Connect, Refused, ConnectFails, PauseOver, Receive, ReadFails, Cancel,
         TypeOK, StreamTypeOK, ConnectionTypeOK, stream, server, history
<1>2. CASE Return(t)
  BY <1>1, <1>2, ReturnType DEF TypeOK
<1>3. ASSUME NEW n \in {1, MaxAttempts}, Connect(t, n) PROVE TypeOK'
  <2>1. Suspend(t, "connecting", "connect", NoConn, NoToken, n)
    BY <1>3 DEF Connect
  <2> QED
    BY <1>1, <2>1, SuspendType DEF TypeOK
<1>4. CASE ConnectFails(t) /\ ~Return(t)
  <2>1. /\ pc[t] = "connecting" /\ attempts[t] > 1
        /\ Suspend(t, "pausing", op[t], NoConn, NoToken, attempts[t] - 1)
    BY <1>4 DEF ConnectFails
  <2>2. op[t] \in Operation \ {"none"} /\ attempts[t] - 1 \in 0..MaxAttempts
    BY <2>1 DEF TypeOK, TaskTypeOK
  <2> QED
    BY <1>1, <2>1, <2>2, SuspendType DEF TypeOK
<1>5. CASE PauseOver(t) /\ ~Return(t)
  <2>1. /\ pc[t] = "pausing"
        /\ Suspend(t, "connecting", op[t], NoConn, NoToken, attempts[t])
    BY <1>5 DEF PauseOver
  <2>2. op[t] \in Operation \ {"none"} /\ attempts[t] \in 0..MaxAttempts
    BY <2>1 DEF TypeOK, TaskTypeOK
  <2> QED
    BY <1>1, <2>1, <2>2, SuspendType DEF TypeOK
<1>6. CASE Receive(t)
  <2>1. Suspend(t, "receiving", "receive", connection, NoToken, 0) /\ connection # NoConn
    BY <1>6 DEF Receive
  <2>2. connection \in Conn \cup {NoConn}
    BY DEF TypeOK, ConnectionTypeOK
  <2> QED
    BY <1>1, <2>1, <2>2, SuspendType DEF TypeOK
<1> QED
  BY <1>2, <1>3, <1>4, <1>5, <1>6 DEF Refused, ReadFails, Cancel

LEMMA TypeStep == TypeOK /\ [Next]_vars => TypeOK'
<1> SUFFICES ASSUME TypeOK, [Next]_vars PROVE TypeOK'
  OBVIOUS
<1>1. ASSUME NEW t \in Task, NEW k \in Token, NEW call \in {"authenticate", "reauthenticate"},
             Authenticate(t, k, call)
      PROVE  TypeOK'
  <2>1. /\ StartAuth(t, k, connection, connection \in open, call)
        /\ UNCHANGED <<closed, subscriptions, connection, open, subscribed, restored>>
    BY <1>1 DEF Authenticate
  <2>2. connection \in open => connection \in Conn
    BY DEF TypeOK, ConnectionTypeOK
  <2>3. /\ StreamTypeOK' /\ TaskTypeOK'
        /\ accepted' \in [Conn -> Token \cup {NoToken}]
        /\ answers' \in [Conn -> Seq({"accepted", "refused"})]
        /\ doubtful' \in BOOLEAN
    <3>1. PICK isOpen \in BOOLEAN :
             (isOpen <=> connection \in open) /\ StartAuth(t, k, connection, isOpen, call)
      <4>1. CASE connection \in open
        BY <2>1, <4>1 DEF StartAuth
      <4>2. CASE connection \notin open
        BY <2>1, <4>2 DEF StartAuth
      <4> QED
        BY <4>1, <4>2
    <3>2. connection \in Conn \cup {NoConn}
      BY DEF TypeOK, ConnectionTypeOK
    <3> QED
      BY <2>1, <2>2, <3>1, <3>2, StartAuthType
  <2>4. ConnectionTypeOK'
    BY <2>1, <2>3 DEF TypeOK, ConnectionTypeOK
  <2> QED
    BY <2>3, <2>4 DEF TypeOK
<1>2. ASSUME NEW t \in Task, Reconnect(t) \/ CloseAsync(t) PROVE TypeOK'
  <2>1. PICK call \in {"reconnect", "close"} : CloseOrGoOn(t, call)
    BY <1>2 DEF Reconnect, CloseAsync
  <2>2. /\ closed' \in {closed, TRUE} /\ authenticated' = FALSE
        /\ UNCHANGED <<context, subscriptions, connection, server, history>>
    BY <1>2 DEF Reconnect, CloseAsync
  <2>3. StreamTypeOK'
    BY <2>2 DEF TypeOK, StreamTypeOK
  <2> QED
    BY <2>1, <2>2, <2>3, CloseOrGoOnType DEF TypeOK
<1>3. ASSUME NEW t \in Task, CloseDone(t) PROVE TypeOK'
  <2>1. StreamTypeOK' /\ ConnectionTypeOK'
    BY <1>3 DEF CloseDone, TypeOK, StreamTypeOK, ConnectionTypeOK, stream, server
  <2>2. CASE Return(t)
    BY <2>1, <2>2, ReturnType DEF TypeOK
  <2>3. CASE Suspend(t, "connecting", op[t], NoConn, NoToken, 1)
    <3>1. op[t] \in Operation \ {"none"}
      BY <1>3 DEF CloseDone, TypeOK, TaskTypeOK
    <3> QED
      BY <2>1, <2>3, <3>1, StreamAssumption, SuspendType DEF TypeOK, Place
  <2> QED
    BY <1>3, <2>2, <2>3 DEF CloseDone
<1>4. ASSUME NEW t \in Task, AuthReceives(t) PROVE TypeOK'
  <2>1. conn[t] \in Conn /\ pc[t] = "authenticating"
    BY <1>4, StreamAssumption DEF AuthReceives, TypeOK, TaskTypeOK
  <2>2. answers[conn[t]] # <<>> =>
           /\ Head(answers[conn[t]]) \in {"accepted", "refused"}
           /\ Tail(answers[conn[t]]) \in Seq({"accepted", "refused"})
    BY <2>1 DEF TypeOK, ConnectionTypeOK
  <2>3. PICK p \in {"accepted", "refused"} : pc' = [pc EXCEPT ![t] = p]
    BY <1>4, <2>2 DEF AuthReceives
  <2>4. TaskTypeOK'
    BY <1>4, <2>1, <2>3 DEF AuthReceives, TypeOK, TaskTypeOK, Place
  <2>5. answers' \in [Conn -> Seq({"accepted", "refused"})]
    BY <1>4, <2>1, <2>2 DEF AuthReceives, TypeOK, ConnectionTypeOK
  <2>6. StreamTypeOK' /\ ConnectionTypeOK'
    BY <1>4, <2>5 DEF AuthReceives, TypeOK, StreamTypeOK, ConnectionTypeOK, stream, history
  <2> QED
    BY <2>4, <2>6 DEF TypeOK
<1>5. ASSUME NEW t \in Task, Accepted(t) PROVE TypeOK'
  <2>1. /\ authenticated' = TRUE /\ context' = token[t]
        /\ UNCHANGED <<closed, subscriptions, connection, open, accepted, answers, doubtful>>
    BY <1>5 DEF Accepted
  <2>2. StreamTypeOK'
    BY <2>1 DEF TypeOK, StreamTypeOK, TaskTypeOK
  <2>3. /\ subscribed' \in [Conn -> SUBSET Channel]
        /\ restored' \in Conn \cup {NoConn}
        /\ TaskTypeOK'
    <3>1. CASE Replay(t, connection, connection \in open, TRUE)
      <4>1. connection \in Conn \cup {NoConn} /\ (connection \in open => connection \in Conn)
        BY DEF TypeOK, ConnectionTypeOK
      <4>2. CASE connection \in open
        <5>1. Replay(t, connection, TRUE, TRUE)
          BY <3>1, <4>2 DEF Replay
        <5> QED
          BY <4>1, <4>2, <5>1, ReplayType
      <4>3. CASE connection \notin open
        <5>1. Replay(t, connection, FALSE, TRUE)
          BY <3>1, <4>3 DEF Replay
        <5> QED
          BY <4>1, <5>1, ReplayType
      <4> QED
        BY <4>2, <4>3
    <3>2. CASE Return(t) /\ UNCHANGED <<subscribed, restored>>
      BY <3>2, ReturnType DEF TypeOK, ConnectionTypeOK
    <3> QED
      BY <1>5, <3>1, <3>2 DEF Accepted
  <2>4. ConnectionTypeOK'
    BY <2>1, <2>3 DEF TypeOK, ConnectionTypeOK
  <2> QED
    BY <2>2, <2>3, <2>4 DEF TypeOK
<1>6. ASSUME NEW t \in Task, Received(t) PROVE TypeOK'
  <2>1. conn[t] \in Conn
    BY <1>6, StreamAssumption DEF Received, TypeOK, TaskTypeOK
  <2>2. answers[conn[t]] # <<>> => Tail(answers[conn[t]]) \in Seq({"accepted", "refused"})
    BY <2>1 DEF TypeOK, ConnectionTypeOK
  <2>3. answers' \in [Conn -> Seq({"accepted", "refused"})]
    BY <1>6, <2>1, <2>2 DEF Received, TypeOK, ConnectionTypeOK
  <2>4. StreamTypeOK' /\ ConnectionTypeOK' /\ Return(t)
    BY <1>6, <2>3 DEF Received, TypeOK, StreamTypeOK, ConnectionTypeOK, stream, history
  <2> QED
    BY <2>4, ReturnType DEF TypeOK
<1>7. ASSUME NEW c \in Conn, Drop(c) \/ Forget(c) PROVE TypeOK'
  <2>1. StreamTypeOK' /\ TaskTypeOK'
    BY <1>7 DEF Drop, Forget, TypeOK, StreamTypeOK, TaskTypeOK, stream, task
  <2>2. CASE Drop(c)
    BY <2>1, <2>2 DEF Drop, TypeOK, ConnectionTypeOK, server, history
  <2>3. CASE Forget(c)
    <3>1. <<>> \in Seq({"accepted", "refused"})
      OBVIOUS
    <3> QED
      BY <2>1, <2>3, <3>1 DEF Forget, TypeOK, ConnectionTypeOK, history
  <2> QED
    BY <1>7, <2>2, <2>3
<1>8. CASE UNCHANGED vars
  BY <1>8
     DEF vars, TypeOK, StreamTypeOK, ConnectionTypeOK, TaskTypeOK, stream, server, task, history
<1>9. CASE Close
  BY <1>9
     DEF Close, TypeOK, StreamTypeOK, ConnectionTypeOK, TaskTypeOK, server, task, history
<1> QED
  BY <1>1, <1>2, <1>3, <1>4, <1>5, <1>6, <1>7, <1>8, <1>9, MoveType, ConnectDoneType, SubscribeType
  DEF Next, Call, Progress

\* Whatever the callers do: a channel is recorded once, attempts stay within
\* their number, and whoever closes or reads knows a connection.
THEOREM MarketTypes == Spec => []TypeOK
BY TypeInit, TypeStep, PTL DEF Spec

-----------------------------------------------------------------------------
(* Subscriptions, whatever the callers do.                                 *)

\* A replay that restores all does so on the connection it is given.
LEMMA ReplayRestores ==
    ASSUME TypeOK, NEW t \in Task, NEW c \in Conn \cup {NoConn}, NEW isOpen \in BOOLEAN,
           isOpen => c \in Conn, NEW auth \in BOOLEAN, Replay(t, c, isOpen, auth),
           connection' = c, UNCHANGED subscriptions
    PROVE  SubscriptionsRestored'
<1> SUFFICES ASSUME restored' # NoConn, restored' = c
             PROVE  ToSet(subscriptions) \subseteq subscribed'[c]
  BY DEF SubscriptionsRestored
<1>1. isOpen /\ c \in Conn /\ Replayed(auth) = ToSet(subscriptions)
  BY DEF Replay
<1>2. subscribed'[c] = subscribed[c] \cup Replayed(auth)
  BY <1>1 DEF Replay, TypeOK, ConnectionTypeOK
<1> QED
  BY <1>1, <1>2

LEMMA SubscribeRestores ==
    ASSUME TypeOK, SubscriptionsRestored, NEW ch \in Channel, Subscribe(ch)
    PROVE  SubscriptionsRestored'
<1>1. /\ connection \in Conn
      /\ subscribed'[connection] = subscribed[connection] \cup {ch}
      /\ UNCHANGED <<connection, restored>>
  BY DEF Subscribe, TypeOK, ConnectionTypeOK, history
<1>2. ToSet(subscriptions') \subseteq ToSet(subscriptions) \cup {ch}
  <2>1. ToSet(Append(subscriptions, ch)) = ToSet(subscriptions) \cup {ch}
    BY AppendNew DEF TypeOK, StreamTypeOK
  <2> QED
    BY <2>1 DEF Subscribe
<1> QED
  BY <1>1, <1>2 DEF SubscriptionsRestored

LEMMA AcceptedRestores ==
    ASSUME TypeOK, SubscriptionsRestored, NEW t \in Task, Accepted(t)
    PROVE  SubscriptionsRestored'
<1>1. UNCHANGED <<subscriptions, connection>>
  BY DEF Accepted
<1>2. CASE Replay(t, connection, connection \in open, TRUE)
  <2>1. PICK isOpen \in BOOLEAN :
           (isOpen <=> connection \in open) /\ Replay(t, connection, isOpen, TRUE)
    <3>1. CASE connection \in open
      BY <1>2, <3>1 DEF Replay
    <3>2. CASE connection \notin open
      BY <1>2, <3>2 DEF Replay
    <3> QED
      BY <3>1, <3>2
  <2> QED
    BY <1>1, <2>1, ReplayRestores DEF TypeOK, ConnectionTypeOK
<1>3. CASE UNCHANGED <<subscribed, restored>>
  BY <1>1, <1>3 DEF SubscriptionsRestored
<1> QED
  BY <1>2, <1>3 DEF Accepted

LEMMA ForgetRestores ==
    ASSUME TypeOK, SubscriptionsRestored, NEW c \in Conn, Forget(c)
    PROVE  SubscriptionsRestored'
<1>1. c # restored /\ UNCHANGED <<subscriptions, connection, restored>>
  BY DEF Forget, stream, history
<1>2. restored # NoConn => subscribed'[restored] = subscribed[restored]
  BY <1>1 DEF Forget, TypeOK, ConnectionTypeOK
<1> QED
  BY <1>1, <1>2 DEF SubscriptionsRestored

LEMMA ConnectDoneRestores ==
    ASSUME TypeOK, NEW t \in Task, ConnectDone(t)
    PROVE  SubscriptionsRestored'
<1>1. PICK c \in Conn :
         /\ connection' = c
         /\ \/ restored' = IF subscriptions = <<>> THEN c ELSE NoConn
            \/ restored' = NoConn
            \/ Replay(t, c, TRUE, authenticated)
  BY DEF ConnectDone
<1>2. UNCHANGED subscriptions
  BY DEF ConnectDone
<1>3. CASE restored' = IF subscriptions = <<>> THEN c ELSE NoConn
  <2>1. DOMAIN <<>> = {}
    OBVIOUS
  <2>2. ToSet(<<>>) = {}
    BY <2>1 DEF ToSet
  <2> QED
    BY <1>2, <1>3, <2>2 DEF SubscriptionsRestored
<1>4. CASE restored' = NoConn
  BY <1>4 DEF SubscriptionsRestored
<1>5. CASE Replay(t, c, TRUE, authenticated)
  <2>1. authenticated \in BOOLEAN
    BY DEF TypeOK, StreamTypeOK
  <2> QED
    BY <1>1, <1>2, <1>5, <2>1, ReplayRestores
<1> QED
  BY <1>1, <1>3, <1>4, <1>5

LEMMA RestoreStep ==
    ASSUME TypeOK, SubscriptionsRestored, [Next]_vars
    PROVE  SubscriptionsRestored'
<1>1. ASSUME UNCHANGED <<subscriptions, connection, subscribed, restored>>
      PROVE  SubscriptionsRestored'
  BY <1>1 DEF SubscriptionsRestored
<1>2. ASSUME NEW t \in Task,
             \/ \E n \in {1, MaxAttempts} : Connect(t, n)
             \/ Reconnect(t) \/ CloseAsync(t) \/ Receive(t) \/ ConnectFails(t) \/ PauseOver(t)
             \/ AuthReceives(t) \/ Refused(t) \/ ReadFails(t) \/ Received(t) \/ Cancel(t)
      PROVE  SubscriptionsRestored'
  BY <1>1, <1>2
     DEF Connect, Reconnect, CloseAsync, Receive, ConnectFails, PauseOver, AuthReceives, Refused,
         ReadFails, Received, Cancel, stream, server, history
<1>3. ASSUME NEW t \in Task, NEW k \in Token, NEW call \in {"authenticate", "reauthenticate"},
             Authenticate(t, k, call)
      PROVE  SubscriptionsRestored'
  BY <1>1, <1>3 DEF Authenticate
<1>4. ASSUME NEW t \in Task, CloseDone(t) PROVE SubscriptionsRestored'
  BY <1>4 DEF CloseDone, SubscriptionsRestored
<1>5. CASE Close \/ UNCHANGED vars \/ \E c \in Conn : Drop(c)
  BY <1>1, <1>5 DEF Close, vars, Drop, stream, server, history
<1> QED
  BY <1>2, <1>3, <1>4, <1>5, SubscribeRestores, AcceptedRestores, ForgetRestores,
     ConnectDoneRestores
  DEF Next, Call, Progress

(***************************************************************************)
(* A reconnect that succeeds loses no subscription, not even one that is   *)
(* made while the new connection is authenticating, whoever else connects, *)
(* closes or is cancelled meanwhile.                                       *)
(***************************************************************************)
THEOREM SubscriptionsSurviveReconnects == Spec => []SubscriptionsRestored
<1>1. Init => SubscriptionsRestored
  BY DEF Init, SubscriptionsRestored
<1>2. TypeOK /\ SubscriptionsRestored /\ [Next]_vars => SubscriptionsRestored'
  BY RestoreStep
<1> QED
  BY <1>1, <1>2, MarketTypes, PTL DEF Spec

-----------------------------------------------------------------------------
(* Connections of a stream that is not closed, for callers with one        *)
(* connector.  That the transport knows every open connection is not       *)
(* inductive: it forgets its connection when some close() ends, so that    *)
(* nothing may be open while anybody closes or connects.  After a close    *)
(* none of this need hold.                                                 *)

Connector(t) == op[t] \in {"connect", "reconnect"}

\* What a task knows where it is.
TaskInLine(t) ==
    /\ op[t] # "close"
    /\ pc[t] \in {"connecting", "pausing"} => Connector(t)
    /\ pc[t] = "closing" => op[t] = "reconnect" /\ conn[t] = connection
    /\ pc[t] \in {"connecting", "pausing", "closing"} => open = {}

OneConnects == \A t, u \in Task : Connector(t) /\ Connector(u) => t = u

ConnectionInv ==
    ~closed => /\ \A t \in Task : TaskInLine(t)
               /\ OneConnects
               /\ NoOrphanConnection

LEMMA SuspendMoves ==
    ASSUME TaskTypeOK, NEW t \in Task, NEW where, NEW call, NEW c, NEW k, NEW n,
           Suspend(t, where, call, c, k, n)
    PROVE  /\ pc'[t] = where /\ op'[t] = call /\ conn'[t] = c /\ token'[t] = k
           /\ \A u \in Task \ {t} :
                 pc'[u] = pc[u] /\ op'[u] = op[u] /\ conn'[u] = conn[u] /\ token'[u] = token[u]
BY DEF Suspend, TaskTypeOK

LEMMA ReturnMoves ==
    ASSUME TaskTypeOK, NEW t \in Task, Return(t)
    PROVE  /\ pc'[t] = "idle" /\ op'[t] = "none" /\ conn'[t] = NoConn /\ token'[t] = NoToken
           /\ \A u \in Task \ {t} :
                 pc'[u] = pc[u] /\ op'[u] = op[u] /\ conn'[u] = conn[u] /\ token'[u] = token[u]
BY SuspendMoves DEF Return

LEMMA StartAuthMoves ==
    ASSUME TaskTypeOK, NEW t \in Task, NEW k, NEW c, NEW isOpen \in BOOLEAN, NEW call,
           StartAuth(t, k, c, isOpen, call)
    PROVE  /\ \/ pc'[t] = "idle" /\ op'[t] = "none" /\ conn'[t] = NoConn
              \/ /\ isOpen /\ ~Read(c)
                 /\ pc'[t] = "authenticating" /\ op'[t] = call
                 /\ conn'[t] = c /\ token'[t] = k
           /\ \A u \in Task \ {t} :
                 pc'[u] = pc[u] /\ op'[u] = op[u] /\ conn'[u] = conn[u] /\ token'[u] = token[u]
<1>1. CASE Return(t)
  BY <1>1, ReturnMoves
<1>2. CASE isOpen /\ ~Read(c) /\ Suspend(t, "authenticating", call, c, k, 0)
  BY <1>2, SuspendMoves
<1> QED
  BY <1>1, <1>2 DEF StartAuth

\* Where a call goes whose connection has been made.
LEMMA ConnectDoneMoves ==
    ASSUME TypeOK, NEW t \in Task, ConnectDone(t)
    PROVE  /\ \/ pc'[t] = "idle" /\ op'[t] = "none"
              \/ pc'[t] = "authenticating" /\ op'[t] = "reconnect"
           /\ \A u \in Task \ {t} :
                 pc'[u] = pc[u] /\ op'[u] = op[u] /\ conn'[u] = conn[u] /\ token'[u] = token[u]
<1>1. PICK c \in Conn, isOpen \in BOOLEAN :
         \/ Return(t)
         \/ StartAuth(t, context, c, isOpen, "reconnect")
         \/ Replay(t, c, TRUE, authenticated)
  BY DEF ConnectDone
<1>2. CASE StartAuth(t, context, c, isOpen, "reconnect")
  BY <1>2, StartAuthMoves DEF TypeOK
<1> QED
  BY <1>1, <1>2, ReturnMoves DEF Replay, TypeOK

\* A step that keeps the connection, and opens none, keeps the invariant if the
\* task that moves does not begin to close or to connect.
LEMMA CalmKeeps ==
    ASSUME ConnectionInv, UNCHANGED <<closed, connection>>, open' \subseteq open,
           NEW t \in Task, ~closed => TaskInLine(t)', Connector(t)' => Connector(t),
           \A u \in Task \ {t} : pc'[u] = pc[u] /\ op'[u] = op[u] /\ conn'[u] = conn[u]
    PROVE  ConnectionInv'
<1> SUFFICES ASSUME ~closed PROVE ConnectionInv'
  BY DEF ConnectionInv
<1>1. ASSUME NEW u \in Task PROVE TaskInLine(u)'
  BY <1>1 DEF ConnectionInv, TaskInLine, Connector
<1>2. \A u \in Task : Connector(u)' => Connector(u)
  BY DEF Connector
<1>3. OneConnects'
  BY <1>2 DEF ConnectionInv, OneConnects
<1>4. NoOrphanConnection'
  BY DEF ConnectionInv, NoOrphanConnection
<1> QED
  BY <1>1, <1>3, <1>4 DEF ConnectionInv

LEMMA StillKeeps ==
    ASSUME ConnectionInv, UNCHANGED <<closed, connection, task>>, open' \subseteq open
    PROVE  ConnectionInv'
BY DEF ConnectionInv, TaskInLine, Connector, OneConnects, NoOrphanConnection, task

LEMMA ReturnKeeps ==
    ASSUME TypeOK, ConnectionInv, UNCHANGED <<closed, connection>>, open' \subseteq open,
           NEW t \in Task, Return(t)
    PROVE  ConnectionInv'
BY ReturnMoves, CalmKeeps DEF TypeOK, TaskInLine, Connector

LEMMA ConnectKeeps ==
    ASSUME TypeOK, ConnectionInv, OneConnector, NEW t \in Task, NEW n, Connect(t, n)
    PROVE  ConnectionInv'
<1>1. /\ ~closed /\ ~Connecting /\ connection \notin open
      /\ UNCHANGED <<closed, connection, open>>
      /\ Suspend(t, "connecting", "connect", NoConn, NoToken, n)
  BY DEF Connect, MayConnect, stream
<1>2. open = {}
  BY <1>1 DEF ConnectionInv, NoOrphanConnection
<1>3. /\ pc'[t] = "connecting" /\ op'[t] = "connect"
      /\ \A u \in Task \ {t} : pc'[u] = pc[u] /\ op'[u] = op[u] /\ conn'[u] = conn[u]
  BY <1>1, SuspendMoves DEF TypeOK
<1>4. ASSUME NEW u \in Task PROVE TaskInLine(u)'
  BY <1>1, <1>2, <1>3 DEF ConnectionInv, TaskInLine, Connector
<1>5. OneConnects' /\ NoOrphanConnection'
  BY <1>1, <1>2, <1>3 DEF ConnectionInv, OneConnects, NoOrphanConnection, Connecting, Connector
<1> QED
  BY <1>4, <1>5 DEF ConnectionInv

\* close() of the transport closes whatever is open.
LEMMA ReconnectKeeps ==
    ASSUME TypeOK, ConnectionInv, OneConnector, NEW t \in Task, Reconnect(t)
    PROVE  ConnectionInv'
<1>1. /\ ~closed /\ ~Connecting /\ UNCHANGED <<closed, connection>>
      /\ CloseOrGoOn(t, "reconnect")
  BY DEF Reconnect, MayConnect
<1>2. open \subseteq {connection} /\ open \subseteq Conn
  BY <1>1 DEF ConnectionInv, NoOrphanConnection, TypeOK, ConnectionTypeOK
<1>3. /\ open' = {}
      /\ op'[t] = "reconnect"
      /\ \/ pc'[t] = "closing" /\ conn'[t] = connection
         \/ pc'[t] = "connecting"
      /\ \A u \in Task \ {t} : pc'[u] = pc[u] /\ op'[u] = op[u] /\ conn'[u] = conn[u]
  <2>1. CASE connection # NoConn /\ open' = open \ {connection}
             /\ Suspend(t, "closing", "reconnect", connection, NoToken, 0)
    BY <1>2, <2>1, SuspendMoves DEF TypeOK
  <2>2. CASE connection = NoConn /\ open' = open
             /\ Suspend(t, "connecting", "reconnect", NoConn, NoToken, 1)
    BY <1>2, <2>2, StreamAssumption, SuspendMoves DEF TypeOK
  <2> QED
    BY <1>1, <2>1, <2>2 DEF CloseOrGoOn
<1>4. ASSUME NEW u \in Task PROVE TaskInLine(u)'
  BY <1>1, <1>3 DEF ConnectionInv, TaskInLine, Connector
<1>5. OneConnects' /\ NoOrphanConnection'
  BY <1>1, <1>3 DEF ConnectionInv, OneConnects, NoOrphanConnection, Connecting, Connector
<1> QED
  BY <1>4, <1>5 DEF ConnectionInv

\* What the transport forgets is not open any more.
LEMMA CloseDoneKeeps ==
    ASSUME TypeOK, ConnectionInv, NEW t \in Task, CloseDone(t)
    PROVE  ConnectionInv'
<1>1. UNCHANGED <<closed, open>> /\ connection' = NoConn
  BY DEF CloseDone, stream
<1> SUFFICES ASSUME ~closed PROVE ConnectionInv'
  BY <1>1 DEF ConnectionInv
<1>2. pc[t] = "closing" /\ open = {} /\ op[t] = "reconnect"
  BY DEF CloseDone, ConnectionInv, TaskInLine
<1>3. Suspend(t, "connecting", op[t], NoConn, NoToken, 1)
  BY <1>2 DEF CloseDone
<1>4. /\ pc'[t] = "connecting" /\ op'[t] = "reconnect"
      /\ \A u \in Task \ {t} : pc'[u] = pc[u] /\ op'[u] = op[u] /\ conn'[u] = conn[u]
  BY <1>2, <1>3, SuspendMoves DEF TypeOK
<1>5. \A u \in Task \ {t} : pc[u] # "closing"
  BY <1>2 DEF ConnectionInv, TaskInLine, OneConnects, Connector
<1>6. ASSUME NEW u \in Task PROVE TaskInLine(u)'
  BY <1>1, <1>2, <1>4, <1>5 DEF ConnectionInv, TaskInLine, Connector
<1>7. OneConnects' /\ NoOrphanConnection'
  BY <1>1, <1>2, <1>4 DEF ConnectionInv, OneConnects, NoOrphanConnection, Connector
<1> QED
  BY <1>6, <1>7 DEF ConnectionInv

\* Nobody else is closing or connecting when a connection is made.
LEMMA ConnectDoneKeeps ==
    ASSUME TypeOK, ConnectionInv, NEW t \in Task, ConnectDone(t)
    PROVE  ConnectionInv'
<1>1. closed' = closed /\ pc[t] = "connecting"
  BY DEF ConnectDone
<1> SUFFICES ASSUME ~closed PROVE ConnectionInv'
  BY <1>1 DEF ConnectionInv
<1>2. Connector(t) /\ open = {}
  BY <1>1 DEF ConnectionInv, TaskInLine
<1>3. open' = {connection'}
  BY <1>2 DEF ConnectDone
<1>4. /\ \/ pc'[t] = "idle" /\ op'[t] = "none"
         \/ pc'[t] = "authenticating" /\ op'[t] = "reconnect"
      /\ \A u \in Task \ {t} : pc'[u] = pc[u] /\ op'[u] = op[u] /\ conn'[u] = conn[u]
  BY ConnectDoneMoves
<1>5. \A u \in Task \ {t} : ~Connector(u)
  BY <1>2 DEF ConnectionInv, OneConnects
<1>6. \A u \in Task \ {t} : pc[u] \notin {"connecting", "pausing", "closing"}
  BY <1>5 DEF ConnectionInv, TaskInLine, Connector
<1>7. ASSUME NEW u \in Task PROVE TaskInLine(u)'
  BY <1>1, <1>3, <1>4, <1>6 DEF ConnectionInv, TaskInLine, Connector
<1>8. OneConnects' /\ NoOrphanConnection'
  BY <1>3, <1>4, <1>5 DEF OneConnects, NoOrphanConnection, Connector
<1> QED
  BY <1>7, <1>8 DEF ConnectionInv

LEMMA ConnectionStep ==
    ASSUME TypeOK, ConnectionInv, OneConnector, [Next]_vars
    PROVE  ConnectionInv'
<1>1. CASE UNCHANGED vars
  BY <1>1, StillKeeps DEF vars, stream
<1>2. ASSUME NEW ch \in Channel, Subscribe(ch) PROVE ConnectionInv'
  BY <1>2, StillKeeps DEF Subscribe
<1>3. ASSUME NEW c \in Conn, Drop(c) \/ Forget(c) PROVE ConnectionInv'
  BY <1>3, StillKeeps DEF Drop, Forget, stream
<1>4. ASSUME NEW t \in Task, NEW k \in Token, NEW call \in {"authenticate", "reauthenticate"},
             Authenticate(t, k, call)
      PROVE  ConnectionInv'
  <2>1. PICK isOpen \in BOOLEAN : StartAuth(t, k, connection, isOpen, call)
    <3>1. CASE connection \in open
      BY <1>4, <3>1 DEF Authenticate, StartAuth
    <3>2. CASE connection \notin open
      BY <1>4, <3>2 DEF Authenticate, StartAuth
    <3> QED
      BY <3>1, <3>2
  <2>2. /\ \/ pc'[t] = "idle" /\ op'[t] = "none"
           \/ pc'[t] = "authenticating" /\ op'[t] = call
        /\ \A u \in Task \ {t} : pc'[u] = pc[u] /\ op'[u] = op[u] /\ conn'[u] = conn[u]
    BY <2>1, StartAuthMoves DEF TypeOK
  <2>3. TaskInLine(t)' /\ ~Connector(t)'
    BY <2>2 DEF TaskInLine, Connector
  <2> QED
    BY <1>4, <2>2, <2>3, CalmKeeps DEF Authenticate
<1>5. ASSUME NEW t \in Task, AuthReceives(t) PROVE ConnectionInv'
  <2>1. /\ pc[t] = "authenticating" /\ UNCHANGED <<op, conn>>
        /\ \A u \in Task \ {t} : pc'[u] = pc[u]
    BY <1>5 DEF AuthReceives, TypeOK, TaskTypeOK
  <2>2. pc'[t] \in {"accepted", "refused"}
    <3>1. conn[t] \in Conn
      BY <1>5, StreamAssumption DEF AuthReceives, TypeOK, TaskTypeOK
    <3>2. answers[conn[t]] # <<>> => Head(answers[conn[t]]) \in {"accepted", "refused"}
      BY <3>1 DEF TypeOK, ConnectionTypeOK
    <3> QED
      BY <1>5, <3>2 DEF AuthReceives, TypeOK, TaskTypeOK
  <2>3. (~closed => TaskInLine(t)') /\ (Connector(t)' => Connector(t))
    BY <1>5, <2>1, <2>2 DEF AuthReceives, stream, ConnectionInv, TaskInLine, Connector
  <2> QED
    BY <1>5, <2>1, <2>3, CalmKeeps DEF AuthReceives, stream
<1>6. ASSUME NEW t \in Task, Accepted(t) \/ Refused(t) \/ Received(t) \/ ReadFails(t) \/ Cancel(t)
      PROVE  ConnectionInv'
  BY <1>6, ReturnKeeps DEF Accepted, Replay, Refused, Received, ReadFails, Cancel, stream
<1>7. ASSUME NEW t \in Task, ConnectFails(t) \/ PauseOver(t) PROVE ConnectionInv'
  <2>1. UNCHANGED <<closed, connection, open>> /\ pc[t] \in {"connecting", "pausing"}
    BY <1>7 DEF ConnectFails, PauseOver, stream
  <2>2. CASE Return(t)
    BY <2>1, <2>2, ReturnKeeps
  <2>3. CASE \E where \in {"connecting", "pausing"}, n \in Nat :
                Suspend(t, where, op[t], NoConn, NoToken, n)
    <3>1. /\ pc'[t] \in {"connecting", "pausing"} /\ op'[t] = op[t]
          /\ \A u \in Task \ {t} : pc'[u] = pc[u] /\ op'[u] = op[u] /\ conn'[u] = conn[u]
      BY <2>3, SuspendMoves DEF TypeOK
    <3>2. (~closed => TaskInLine(t)') /\ (Connector(t)' => Connector(t))
      BY <2>1, <3>1 DEF ConnectionInv, TaskInLine, Connector
    <3> QED
      BY <2>1, <3>1, <3>2, CalmKeeps
  <2>4. attempts[t] \in Nat /\ (attempts[t] > 1 => attempts[t] - 1 \in Nat)
    BY DEF TypeOK, TaskTypeOK
  <2> QED
    BY <1>7, <2>2, <2>3, <2>4 DEF ConnectFails, PauseOver
<1>8. ASSUME NEW t \in Task, Receive(t) PROVE ConnectionInv'
  <2>1. /\ pc'[t] = "receiving" /\ op'[t] = "receive"
        /\ \A u \in Task \ {t} : pc'[u] = pc[u] /\ op'[u] = op[u] /\ conn'[u] = conn[u]
    BY <1>8, SuspendMoves DEF Receive, TypeOK
  <2>2. TaskInLine(t)' /\ ~Connector(t)'
    BY <2>1 DEF TaskInLine, Connector
  <2> QED
    BY <1>8, <2>1, <2>2, CalmKeeps DEF Receive, stream
<1>9. ASSUME Close \/ \E t \in Task : CloseAsync(t) PROVE ConnectionInv'
  BY <1>9 DEF Close, CloseAsync, ConnectionInv
<1> QED
  BY <1>1, <1>2, <1>3, <1>4, <1>5, <1>6, <1>7, <1>8, <1>9, ConnectKeeps, ReconnectKeeps,
     CloseDoneKeeps, ConnectDoneKeeps
  DEF Next, Call, Progress

LEMMA ConnectionInit == Init => ConnectionInv
BY StreamAssumption
   DEF Init, ConnectionInv, TaskInLine, OneConnects, Connector, NoOrphanConnection

\* With one connector, until the stream is closed: each task is where the transport's
\* connection lets it be, and nothing is open that the transport has forgotten.
THEOREM ConnectionInvariant == OneConnector => (Spec => []ConnectionInv)
<1> SUFFICES ASSUME OneConnector PROVE Spec => []ConnectionInv
  OBVIOUS
<1>1. Init => ConnectionInv
  BY ConnectionInit
<1>2. TypeOK /\ ConnectionInv /\ [Next]_vars => ConnectionInv'
  BY ConnectionStep
<1> QED
  BY <1>1, <1>2, MarketTypes, PTL DEF Spec

(***************************************************************************)
(* No connection of a stream in use stays open that the transport has      *)
(* forgotten, whatever reconnects, cancellations and drops do: close() of  *)
(* the transport will find it.                                             *)
(***************************************************************************)
THEOREM NoConnectionIsOrphaned == OneConnector => (Spec => []NoOrphanConnection)
<1> SUFFICES ASSUME OneConnector PROVE Spec => []NoOrphanConnection
  OBVIOUS
<1>1. ConnectionInv => NoOrphanConnection
  BY DEF ConnectionInv, NoOrphanConnection
<1>2. Spec => []ConnectionInv
  BY ConnectionInvariant
<1> QED
  BY <1>1, <1>2, PTL

-----------------------------------------------------------------------------
(* Authentication, for callers with one connector.  An answer is read by   *)
(* the call it is for as long as the connection is not doubtful: there is  *)
(* one call that waits then, and at most one answer, its own.  That it is  *)
(* acted on before the connection it came from is replaced is the event    *)
(* loop's doing.                                                           *)

\* What the caller of authenticate() on the transport's connection may rely on: an
\* answer that is yet to be read, or was read, is its own.
OwnAnswer(t) ==
    /\ pc[t] = "authenticating" =>
          \/ answers[connection] \in {<<>>, <<"refused">>}
          \/ answers[connection] = <<"accepted">> /\ accepted[connection] = token[t]
    /\ pc[t] = "accepted" => accepted[connection] = token[t]

AuthInv ==
    ~closed =>
       /\ \A t \in Task : pc[t] = "accepted" => conn[t] = connection
       /\ connection \in open /\ ~doubtful =>
             /\ \A t, u \in Waiters(connection) : t = u
             /\ \A t \in Waiters(connection) : OwnAnswer(t)
             /\ AuthenticatedIsLive


Waits(t) == pc[t] \in {"authenticating", "accepted", "refused"}

\* A step that neither sends nor reads an authentication, and lets nobody wait who
\* did not.
LEMMA QuietAuth ==
    ASSUME AuthInv, UNCHANGED <<closed, connection, doubtful>>, open' \subseteq open,
           connection \in open => /\ accepted'[connection] = accepted[connection]
                                  /\ answers'[connection] = answers[connection],
           authenticated' => authenticated /\ context' = context,
           \A u \in Task : Waits(u)' => /\ pc'[u] = pc[u] /\ conn'[u] = conn[u]
                                        /\ token'[u] = token[u]
    PROVE  AuthInv'
<1> SUFFICES ASSUME ~closed PROVE AuthInv'
  BY DEF AuthInv
<1>1. \A t \in Task : pc'[t] = "accepted" => conn'[t] = connection
  BY DEF AuthInv, Waits
<1>2. ASSUME connection \in open', ~doubtful
      PROVE  /\ \A t, u \in Waiters(connection)' : t = u
             /\ \A t \in Waiters(connection)' : OwnAnswer(t)'
             /\ AuthenticatedIsLive'
  <2>1. Waiters(connection)' \subseteq Waiters(connection)
    BY DEF Waiters, Waits
  <2>2. \A t \in Waiters(connection)' : OwnAnswer(t)'
    BY <1>2, <2>1 DEF AuthInv, OwnAnswer, Waiters, Waits
  <2>3. AuthenticatedIsLive'
    BY <1>2 DEF AuthInv, AuthenticatedIsLive
  <2> QED
    BY <1>2, <2>1, <2>2, <2>3 DEF AuthInv
<1> QED
  BY <1>1, <1>2 DEF AuthInv

LEMMA MovedAuth ==
    ASSUME AuthInv, UNCHANGED <<closed, connection, doubtful, accepted, answers>>,
           open' \subseteq open, authenticated' => authenticated /\ context' = context,
           NEW t \in Task, ~Waits(t)',
           \A u \in Task \ {t} : pc'[u] = pc[u] /\ conn'[u] = conn[u] /\ token'[u] = token[u]
    PROVE  AuthInv'
BY QuietAuth

\* An authentication on connection c, which becomes or stays the transport's.
LEMMA StartAuthAuth ==
    ASSUME TypeOK, NEW t \in Task, NEW k, NEW c \in Conn, NEW call,
           StartAuth(t, k, c, TRUE, call), connection' = c,
           \A u \in Task \ {t} : pc[u] = "accepted" => conn[u] = c, ~Waits(t)
    PROVE  AuthInv'
<1>1. PICK reply \in {"accepted", "refused"} :
         /\ answers' = [answers EXCEPT ![c] = Append(@, reply)]
         /\ accepted' = [accepted EXCEPT ![c] = IF reply = "accepted" THEN k ELSE NoToken]
  BY DEF StartAuth
<1>2. authenticated' = FALSE /\ doubtful' = Ambiguous(c)
  BY DEF StartAuth
<1>3. /\ \/ pc'[t] = "idle"
         \/ pc'[t] = "authenticating" /\ conn'[t] = c /\ token'[t] = k
      /\ \A u \in Task \ {t} :
            pc'[u] = pc[u] /\ op'[u] = op[u] /\ conn'[u] = conn[u] /\ token'[u] = token[u]
  <2>1. CASE Return(t)
    BY <2>1, ReturnMoves DEF TypeOK
  <2>2. CASE Suspend(t, "authenticating", call, c, k, 0)
    BY <2>2, SuspendMoves DEF TypeOK
  <2> QED
    BY <2>1, <2>2 DEF StartAuth
<1>4. \A u \in Task : pc'[u] = "accepted" => conn'[u] = c
  BY <1>3
<1>5. AuthenticatedIsLive'
  BY <1>2 DEF AuthenticatedIsLive
<1>6. ASSUME ~doubtful' PROVE \A u \in Waiters(c)' : u = t /\ OwnAnswer(u)'
  <2>1. answers[c] = <<>> /\ Waiters(c) = {}
    BY <1>2, <1>6 DEF Ambiguous
  <2>2. answers'[c] = <<reply>>
    BY <1>1, <2>1 DEF TypeOK, ConnectionTypeOK
  <2>3. accepted'[c] = IF reply = "accepted" THEN k ELSE NoToken
    BY <1>1 DEF TypeOK, ConnectionTypeOK
  <2>4. \A u \in Waiters(c)' : u = t
    BY <1>3, <2>1 DEF Waiters
  <2> QED
    BY <1>3, <2>2, <2>3, <2>4 DEF OwnAnswer, Waiters
<1> QED
  BY <1>4, <1>5, <1>6 DEF AuthInv

LEMMA AuthenticateAuth ==
    ASSUME TypeOK, AuthInv, ~closed, NEW t \in Task, NEW k,
           NEW call \in {"authenticate", "reauthenticate"}, Authenticate(t, k, call)
    PROVE  AuthInv'
<1>1. pc[t] = "idle" /\ UNCHANGED <<closed, connection, open>>
  BY DEF Authenticate
<1>2. CASE connection \in open
  <2>1. StartAuth(t, k, connection, TRUE, call)
    BY <1>2 DEF Authenticate, StartAuth
  <2>2. connection \in Conn /\ ~Waits(t)
    BY <1>1, <1>2 DEF TypeOK, ConnectionTypeOK, Waits
  <2>3. \A u \in Task \ {t} : pc[u] = "accepted" => conn[u] = connection
    BY DEF AuthInv
  <2> QED
    BY <1>1, <2>1, <2>2, <2>3, StartAuthAuth
<1>3. CASE connection \notin open
  <2>1. Return(t) /\ authenticated' = FALSE /\ UNCHANGED <<answers, accepted, doubtful>>
    BY <1>3 DEF Authenticate, StartAuth
  <2>2. /\ ~Waits(t)'
        /\ \A u \in Task \ {t} : pc'[u] = pc[u] /\ conn'[u] = conn[u] /\ token'[u] = token[u]
    BY <2>1, ReturnMoves DEF TypeOK, Waits
  <2> QED
    BY <1>1, <2>1, <2>2, MovedAuth
<1> QED
  BY <1>2, <1>3

\* What is read comes from the connection of the transport.
LEMMA AuthReceivesAuth ==
    ASSUME TypeOK, ConnectionInv, AuthInv, ~closed, NEW t \in Task, AuthReceives(t)
    PROVE  AuthInv'
<1>1. /\ pc[t] = "authenticating" /\ conn[t] \in Conn
      /\ UNCHANGED <<closed, authenticated, context, connection, open, accepted, conn, token,
                     doubtful>>
      /\ \A u \in Task \ {t} : pc'[u] = pc[u]
  BY StreamAssumption DEF AuthReceives, TypeOK, TaskTypeOK, stream, history
<1>2. conn[t] = connection
  BY DEF AuthReceives, ConnectionInv, TaskInLine, NoOrphanConnection
<1>3. \A u \in Task : Waits(u)' => Waits(u)
  BY <1>1 DEF Waits
<1>4. Waiters(connection)' \subseteq Waiters(connection)
  BY <1>1, <1>3 DEF Waiters, Waits
<1>5. \A u \in Task : pc'[u] = "accepted" => conn'[u] = connection
  BY <1>1, <1>2 DEF AuthInv
<1>6. AuthInv => (connection \in open /\ ~doubtful => AuthenticatedIsLive')
  BY <1>1 DEF AuthInv, AuthenticatedIsLive
<1>7. ASSUME connection \in open, ~doubtful
      PROVE  \A u \in Waiters(connection)' : OwnAnswer(u)'
  <2>1. t \in Waiters(connection)
    BY <1>1, <1>2 DEF Waiters
  <2>2. \A u \in Waiters(connection)' : u = t
    BY <1>4, <1>7, <2>1 DEF AuthInv
  <2>3. OwnAnswer(t)
    BY <1>7, <2>1 DEF AuthInv
  <2>4. CASE answers[connection] = <<"accepted">> /\ pc'[t] = Head(answers[connection])
    BY <1>1, <1>2, <2>2, <2>3, <2>4 DEF OwnAnswer
  <2>5. CASE pc'[t] = "refused"
    BY <1>1, <2>2, <2>5 DEF OwnAnswer
  <2>6. \A v : Head(<<v>>) = v
    OBVIOUS
  <2>7. answers[connection] # <<>> =>
           answers[connection] = <<"accepted">> \/ Head(answers[connection]) = "refused"
    BY <1>1, <2>3, <2>6 DEF OwnAnswer
  <2> QED
    BY <1>1, <1>2, <2>4, <2>5, <2>7 DEF AuthReceives, TypeOK, TaskTypeOK
<1> QED
  BY <1>1, <1>4, <1>5, <1>6, <1>7 DEF AuthInv

LEMMA AcceptedAuth ==
    ASSUME TypeOK, AuthInv, ~closed, NEW t \in Task, Accepted(t)
    PROVE  AuthInv'
<1>1. /\ pc[t] = "accepted" /\ context' = token[t]
      /\ UNCHANGED <<closed, connection, open, accepted, answers, doubtful>>
      /\ Return(t)
  BY DEF Accepted, Replay
<1>2. /\ ~Waits(t)'
      /\ \A u \in Task \ {t} : pc'[u] = pc[u] /\ conn'[u] = conn[u] /\ token'[u] = token[u]
  BY <1>1, ReturnMoves DEF TypeOK, Waits
<1>3. Waiters(connection)' \subseteq Waiters(connection)
  BY <1>1, <1>2 DEF Waiters, Waits
<1>4. \A u \in Task : pc'[u] = "accepted" => conn'[u] = connection
  BY <1>2 DEF AuthInv, Waits
<1>5. ASSUME connection \in open, ~doubtful
      PROVE  (\A u \in Waiters(connection)' : OwnAnswer(u)') /\ AuthenticatedIsLive'
  <2>1. OwnAnswer(t)
    BY <1>1, <1>5 DEF AuthInv, Waiters
  <2>2. AuthenticatedIsLive'
    BY <1>1, <2>1 DEF AuthenticatedIsLive, OwnAnswer
  <2>3. \A u \in Waiters(connection)' : OwnAnswer(u)'
    BY <1>1, <1>2, <1>3, <1>5 DEF AuthInv, OwnAnswer, Waiters, Waits
  <2> QED
    BY <2>2, <2>3
<1> QED
  BY <1>1, <1>3, <1>4, <1>5 DEF AuthInv

\* A reader may take the answer that another call waits for.
LEMMA ReceivedAuth ==
    ASSUME TypeOK, AuthInv, ~closed, NEW t \in Task, Received(t)
    PROVE  AuthInv'
<1>1. /\ UNCHANGED <<closed, authenticated, context, connection, open, accepted, doubtful>>
      /\ Return(t)
  BY DEF Received, stream, history
<1>2. /\ ~Waits(t)'
      /\ \A u \in Task \ {t} : pc'[u] = pc[u] /\ conn'[u] = conn[u] /\ token'[u] = token[u]
  BY <1>1, ReturnMoves DEF TypeOK, Waits
<1>3. CASE UNCHANGED answers
  BY <1>1, <1>2, <1>3, MovedAuth
<1>4. CASE /\ answers[conn[t]] # <<>>
           /\ answers' = [answers EXCEPT ![conn[t]] = Tail(@)]
  <2>1. Waiters(connection)' \subseteq Waiters(connection)
    BY <1>1, <1>2 DEF Waiters, Waits
  <2>2. \A u \in Task : pc'[u] = "accepted" => conn'[u] = connection
    BY <1>2 DEF AuthInv, Waits
  <2>3. ASSUME connection \in open, ~doubtful
        PROVE  \A u \in Waiters(connection)' : OwnAnswer(u)'
    <3>1. connection \in Conn
      BY <2>3 DEF TypeOK, ConnectionTypeOK
    <3>2. \A v : Tail(<<v>>) = <<>>
      OBVIOUS
    <3>3. answers'[connection] \in {answers[connection], Tail(answers[connection])}
      BY <1>4, <3>1 DEF TypeOK, ConnectionTypeOK
    <3>4. answers'[connection] # answers[connection] => answers[connection] # <<>>
      BY <1>4, <3>1 DEF TypeOK, ConnectionTypeOK
    <3> SUFFICES ASSUME NEW u \in Waiters(connection)' PROVE OwnAnswer(u)'
      OBVIOUS
    <3>5. OwnAnswer(u) /\ u # t /\ pc'[u] = pc[u] /\ token'[u] = token[u]
      BY <1>2, <2>1, <2>3 DEF AuthInv, Waiters, Waits
    <3>6. CASE answers'[connection] = answers[connection]
      BY <1>1, <3>5, <3>6 DEF OwnAnswer
    <3>7. CASE answers'[connection] # answers[connection]
      <4>1. answers'[connection] = Tail(answers[connection]) /\ answers[connection] # <<>>
        BY <3>3, <3>4, <3>7
      <4>2. pc[u] = "authenticating" => answers'[connection] = <<>>
        BY <3>2, <3>5, <4>1 DEF OwnAnswer
      <4> QED
        BY <1>1, <3>5, <4>2 DEF OwnAnswer
    <3> QED
      BY <3>6, <3>7
  <2>4. AuthenticatedIsLive' \/ ~(connection \in open /\ ~doubtful)
    BY <1>1 DEF AuthInv, AuthenticatedIsLive
  <2> QED
    BY <1>1, <2>1, <2>2, <2>3, <2>4 DEF AuthInv
<1> QED
  BY <1>3, <1>4 DEF Received

\* No answer that was read is still to be acted on when the connection changes.
LEMMA CloseDoneAuth ==
    ASSUME TypeOK, NEW t \in Task, CloseDone(t)
    PROVE  AuthInv'
<1>1. connection' = NoConn /\ NoConn \notin open'
  BY StreamAssumption DEF CloseDone, TypeOK, ConnectionTypeOK
<1>2. \A u \in Task : pc'[u] # "accepted"
  <2>1. \A u \in Task : pc[u] # "accepted"
    BY DEF CloseDone, Settled
  <2>2. CASE Return(t)
    BY <2>1, <2>2, ReturnMoves DEF TypeOK
  <2>3. CASE Suspend(t, "connecting", op[t], NoConn, NoToken, 1)
    BY <2>1, <2>3, SuspendMoves DEF TypeOK
  <2> QED
    BY <2>2, <2>3 DEF CloseDone
<1> QED
  BY <1>1, <1>2 DEF AuthInv

LEMMA ConnectDoneAuth ==
    ASSUME TypeOK, NEW t \in Task, ConnectDone(t)
    PROVE  AuthInv'
<1>1. PICK c \in Conn :
         /\ Fresh(c) /\ connection' = c
         /\ \/ /\ doubtful' = authenticated /\ UNCHANGED authenticated
               /\ Return(t)
            \/ StartAuth(t, context, c, TRUE, "reconnect")
  BY DEF ConnectDone, Replay
<1>2. /\ pc[t] = "connecting"
      /\ \A u \in Task : pc[u] # "accepted"
  BY DEF ConnectDone, Settled
<1>3. CASE StartAuth(t, context, c, TRUE, "reconnect")
  BY <1>1, <1>2, <1>3, StartAuthAuth DEF Waits
<1>4. CASE doubtful' = authenticated /\ UNCHANGED authenticated /\ Return(t)
  <2>1. /\ pc'[t] = "idle"
        /\ \A u \in Task \ {t} : pc'[u] = pc[u] /\ conn'[u] = conn[u]
    BY <1>4, ReturnMoves DEF TypeOK
  <2>2. \A u \in Task : pc'[u] # "accepted"
    BY <1>2, <2>1
  <2>3. Waiters(c)' = {}
    BY <1>1, <2>1 DEF Waiters, Fresh
  <2>4. ~doubtful' => AuthenticatedIsLive'
    BY <1>4 DEF AuthenticatedIsLive
  <2> QED
    BY <1>1, <2>2, <2>3, <2>4 DEF AuthInv
<1> QED
  BY <1>1, <1>3, <1>4

LEMMA AuthStep ==
    ASSUME TypeOK, ConnectionInv, AuthInv, [Next]_vars
    PROVE  AuthInv'
<1> SUFFICES ASSUME ~closed, ~closed' PROVE AuthInv'
  <2>1. closed => closed'
    BY DEF Next, vars, stream, Close, Call, Progress, Connect, Authenticate, Reconnect,
           CloseAsync, Receive, CloseDone, ConnectDone, ConnectFails, PauseOver, AuthReceives,
           Accepted, Refused, ReadFails, Received, Cancel, Subscribe, Drop, Forget
  <2> QED
    BY <2>1 DEF AuthInv
<1>1. ASSUME NEW t \in Task, NEW where \in Place \ {"authenticating", "accepted", "refused"},
             NEW call, NEW c, NEW n,
             Suspend(t, where, call, c, NoToken, n),
             UNCHANGED <<closed, connection, doubtful, server>>,
             open' \subseteq open, authenticated' => authenticated /\ context' = context
      PROVE  AuthInv'
  <2>1. /\ ~Waits(t)'
        /\ \A u \in Task \ {t} : pc'[u] = pc[u] /\ conn'[u] = conn[u] /\ token'[u] = token[u]
    BY <1>1, SuspendMoves DEF TypeOK, Waits
  <2> QED
    BY <1>1, <2>1, MovedAuth DEF server
<1>2. ASSUME NEW t \in Task, Return(t), UNCHANGED <<stream, connection, open, server, history>>
      PROVE  AuthInv'
  BY <1>1, <1>2 DEF Return, Place, stream, history
<1>3. ASSUME NEW t \in Task, NEW n, Connect(t, n) PROVE AuthInv'
  BY <1>1, <1>3 DEF Connect, Place, stream, history
<1>4. ASSUME NEW t \in Task, Reconnect(t) PROVE AuthInv'
  <2>1. CASE connection # NoConn /\ open' = open \ {connection}
             /\ Suspend(t, "closing", "reconnect", connection, NoToken, 0)
    BY <1>1, <1>4, <2>1 DEF Reconnect, Place, history
  <2>2. CASE connection = NoConn /\ open' = open
             /\ Suspend(t, "connecting", "reconnect", NoConn, NoToken, 1)
    BY <1>1, <1>4, <2>2 DEF Reconnect, Place, history
  <2> QED
    BY <1>4, <2>1, <2>2 DEF Reconnect, CloseOrGoOn
<1>5. ASSUME NEW t \in Task, ConnectFails(t) \/ PauseOver(t) PROVE AuthInv'
  <2>1. CASE Return(t)
    BY <1>2, <1>5, <2>1 DEF ConnectFails, PauseOver
  <2>2. CASE \E where \in {"connecting", "pausing"}, n \in Nat :
                Suspend(t, where, op[t], NoConn, NoToken, n)
    BY <1>1, <1>5, <2>2 DEF ConnectFails, PauseOver, Place, stream, history
  <2>3. attempts[t] \in Nat /\ (attempts[t] > 1 => attempts[t] - 1 \in Nat)
    BY DEF TypeOK, TaskTypeOK
  <2> QED
    BY <1>5, <2>1, <2>2, <2>3 DEF ConnectFails, PauseOver
<1>6. ASSUME NEW t \in Task, Receive(t) PROVE AuthInv'
  BY <1>1, <1>6 DEF Receive, Place, stream, history
<1>7. ASSUME NEW t \in Task, Refused(t) \/ ReadFails(t) \/ Cancel(t) PROVE AuthInv'
  BY <1>2, <1>7 DEF Refused, ReadFails, Cancel
<1>8. ASSUME UNCHANGED <<closed, authenticated, context, connection, task, doubtful>>,
             open' \subseteq open,
             connection \in open => /\ accepted'[connection] = accepted[connection]
                                    /\ answers'[connection] = answers[connection]
      PROVE  AuthInv'
  BY <1>8, QuietAuth DEF task
<1>9. ASSUME NEW ch \in Channel, Subscribe(ch) PROVE AuthInv'
  BY <1>8, <1>9 DEF Subscribe, history
<1>10. ASSUME NEW c \in Conn, Drop(c) PROVE AuthInv'
  BY <1>8, <1>10 DEF Drop, stream, server, history
<1>11. ASSUME NEW c \in Conn, Forget(c) PROVE AuthInv'
  <2>1. connection \in open => /\ accepted'[connection] = accepted[connection]
                               /\ answers'[connection] = answers[connection]
    BY <1>11 DEF Forget, TypeOK, ConnectionTypeOK
  <2> QED
    BY <1>8, <1>11, <2>1 DEF Forget, stream, history
<1>12. CASE UNCHANGED vars
  BY <1>8, <1>12 DEF vars, stream, server, history
<1>13. ASSUME NEW t \in Task, CloseAsync(t) \/ Close PROVE AuthInv'
  BY <1>13 DEF CloseAsync, Close
<1> QED
  BY <1>3, <1>4, <1>5, <1>6, <1>7, <1>9, <1>10, <1>11, <1>12, <1>13, AuthenticateAuth,
     AuthReceivesAuth, AcceptedAuth, ReceivedAuth, CloseDoneAuth, ConnectDoneAuth
  DEF Next, Call, Progress, Close

\* With one connector, until the stream is closed: an accepted answer that was read
\* comes from the transport's connection, and on one that is not doubtful there is
\* one call at most that waits, whose answer, if it is there, is its own.
THEOREM AuthInvariant == OneConnector => (Spec => []AuthInv)
<1> SUFFICES ASSUME OneConnector PROVE Spec => []AuthInv
  OBVIOUS
<1>1. Init => AuthInv
  BY StreamAssumption DEF Init, AuthInv
<1>2. TypeOK /\ ConnectionInv /\ AuthInv /\ [Next]_vars => AuthInv'
  BY AuthStep
<1>3. Spec => []ConnectionInv
  BY ConnectionInvariant
<1> QED
  BY <1>1, <1>2, <1>3, MarketTypes, PTL DEF Spec

(***************************************************************************)
(* A stream that calls itself authenticated has been accepted, with the    *)
(* token it would reconnect with, on the connection it has now, whatever   *)
(* data the server sends first, whoever takes the answer and whatever is   *)
(* cancelled; except on a connection where two answers can be confused or  *)
(* that a plain connect() put in the place of an authenticated one.        *)
(***************************************************************************)
THEOREM AuthenticatedStreamIsLive == OneConnector => (Spec => []AuthenticatedIsLive)
<1> SUFFICES ASSUME OneConnector PROVE Spec => []AuthenticatedIsLive
  OBVIOUS
<1>1. AuthInv => AuthenticatedIsLive
  BY DEF AuthInv, AuthenticatedIsLive
<1>2. Spec => []AuthInv
  BY AuthInvariant
<1> QED
  BY <1>1, <1>2, PTL

-----------------------------------------------------------------------------
(* A closed stream, whatever its callers do.                               *)

LEMMA WindingDown ==
    ASSUME TypeOK, closed, [Next]_vars
    PROVE  /\ Attempting' \subseteq Attempting
           /\ \/ open' \subseteq open
              \/ \E t \in Attempting \ Attempting', c \in Conn : open' = open \cup {c}
<1>1. ASSUME NEW t \in Task, pc'[t] # "connecting", \A u \in Task \ {t} : pc'[u] = pc[u]
      PROVE  Attempting' \subseteq Attempting \ {t}
  BY <1>1 DEF Attempting
<1>2. ASSUME NEW t \in Task, Return(t) PROVE Attempting' \subseteq Attempting \ {t}
  BY <1>1, <1>2, ReturnMoves DEF TypeOK
<1>3. ASSUME NEW t \in Task, ConnectDone(t)
      PROVE  /\ Attempting' \subseteq Attempting \ {t} /\ t \in Attempting
             /\ \E c \in Conn : open' = open \cup {c}
  <2>1. Attempting' \subseteq Attempting \ {t}
    BY <1>1, <1>3, ConnectDoneMoves
  <2> QED
    BY <1>3, <2>1 DEF ConnectDone, Attempting
<1>4. ASSUME NEW t \in Task, CloseAsync(t)
      PROVE  Attempting' \subseteq Attempting /\ open' \subseteq open
  <2>1. CloseOrGoOn(t, "close")
    BY <1>4 DEF CloseAsync
  <2>2. CASE Suspend(t, "closing", "close", connection, NoToken, 0)
    BY <1>1, <2>1, <2>2, SuspendMoves DEF CloseOrGoOn, TypeOK
  <2> QED
    BY <1>2, <2>1, <2>2 DEF CloseOrGoOn
<1>5. ASSUME NEW t \in Task, NEW k \in Token, NEW call \in {"authenticate", "reauthenticate"},
             Authenticate(t, k, call)
      PROVE  Attempting' \subseteq Attempting /\ open' \subseteq open
  <2>1. PICK isOpen \in BOOLEAN : StartAuth(t, k, connection, isOpen, call)
    <3>1. CASE connection \in open
      BY <1>5, <3>1 DEF Authenticate, StartAuth
    <3>2. CASE connection \notin open
      BY <1>5, <3>2 DEF Authenticate, StartAuth
    <3> QED
      BY <3>1, <3>2
  <2> QED
    BY <1>1, <1>5, <2>1, StartAuthMoves DEF Authenticate, TypeOK
<1>6. ASSUME NEW t \in Task, ConnectFails(t)
      PROVE  Attempting' \subseteq Attempting /\ open' \subseteq open
  <2>1. CASE Suspend(t, "pausing", op[t], NoConn, NoToken, attempts[t] - 1)
    BY <1>1, <1>6, <2>1, SuspendMoves DEF ConnectFails, TypeOK
  <2> QED
    BY <1>2, <1>6, <2>1 DEF ConnectFails
<1>7. ASSUME NEW t \in Task, Receive(t)
      PROVE  Attempting' \subseteq Attempting /\ open' \subseteq open
  BY <1>1, <1>7, SuspendMoves DEF Receive, TypeOK
<1>8. ASSUME NEW t \in Task, AuthReceives(t)
      PROVE  Attempting' \subseteq Attempting /\ open' \subseteq open
  <2>1. conn[t] \in Conn
    BY <1>8, StreamAssumption DEF AuthReceives, TypeOK, TaskTypeOK
  <2>2. answers[conn[t]] # <<>> => Head(answers[conn[t]]) \in {"accepted", "refused"}
    BY <2>1 DEF TypeOK, ConnectionTypeOK
  <2>3. pc'[t] # "connecting" /\ \A u \in Task \ {t} : pc'[u] = pc[u]
    BY <1>8, <2>2 DEF AuthReceives, TypeOK, TaskTypeOK
  <2> QED
    BY <1>1, <1>8, <2>3 DEF AuthReceives
<1>9. ASSUME NEW t \in Task, \/ CloseDone(t) \/ PauseOver(t) \/ Accepted(t) \/ Refused(t)
                             \/ ReadFails(t) \/ Received(t) \/ Cancel(t)
      PROVE  Attempting' \subseteq Attempting /\ open' \subseteq open
  <2>1. Return(t)
    BY <1>9 DEF CloseDone, PauseOver, Accepted, Replay, Refused, ReadFails, Received, Cancel
  <2> QED
    BY <1>2, <1>9, <2>1 DEF CloseDone, PauseOver, Accepted, Refused, ReadFails, Received, Cancel
<1>10. ASSUME \/ Close \/ UNCHANGED vars
              \/ \E ch \in Channel : Subscribe(ch)
              \/ \E c \in Conn : Drop(c) \/ Forget(c)
       PROVE  Attempting' \subseteq Attempting /\ open' \subseteq open
  BY <1>10 DEF Close, vars, Subscribe, Drop, Forget, task, Attempting
<1>11. \A t \in Task : ~Reconnect(t) /\ \A n : ~Connect(t, n)
  BY DEF Reconnect, Connect, MayConnect
<1>12. CASE \E t \in Task : ConnectDone(t)
  BY <1>3, <1>12
<1>13. CASE /\ Attempting' \subseteq Attempting
            /\ open' \subseteq open
  BY <1>13
<1> QED
  BY <1>4, <1>5, <1>6, <1>7, <1>8, <1>9, <1>10, <1>11, <1>12, <1>13 DEF Next, Call, Progress

(***************************************************************************)
(* Once it is closed a stream begins no attempt to connect, wherever its   *)
(* calls stand, and opens at most one connection for each attempt that was *)
(* under way.                                                              *)
(***************************************************************************)
THEOREM ClosedStreamWindsDown == Spec => ClosedWindsDown
<1>1. TypeOK /\ [Next]_vars =>
         [closed => /\ Attempting' \subseteq Attempting
                    /\ \/ open' \subseteq open
                       \/ \E t \in Attempting \ Attempting', c \in Conn :
                             open' = open \cup {c}]_vars
  BY WindingDown
<1> QED
  BY <1>1, MarketTypes, PTL DEF Spec, ClosedWindsDown

=============================================================================
