---------------------------- MODULE MarketStream ----------------------------
(***************************************************************************)
(* The connection, authentication and subscriptions of MarketStream        *)
(* (streams/market.py) over WebSocketTransport (transport/websocket.py),   *)
(* used by several tasks of one event loop: one that keeps the connection, *)
(* one that reads, others that authenticate, subscribe or close.           *)
(*                                                                         *)
(* Concurrency.  A task suspends while a connection is opened, closed or   *)
(* read and while it pauses between attempts.  send() does not suspend     *)
(* (the write buffer is not full), so a replay of subscriptions is one     *)
(* step.  A message that is read makes its task ready; what the task does  *)
(* with it is a step of its own, and tasks that start a call may come in   *)
(* between, but the loop serves ready tasks before it polls the network.   *)
(*                                                                         *)
(* Data.  token, impersonate and streams of an authentication are stored   *)
(* and cleared together: one value.  A connection object is one of Conn,   *)
(* reused when nothing refers to it any more.                              *)
(***************************************************************************)
EXTENDS Naturals, SequencesExt

CONSTANTS
    Task,
    Conn,               \* WebSocket connections
    Token,              \* authentication contexts
    Public, User,       \* channels, by whether they need authentication
    MaxAttempts,        \* max_attempts of connect_with_backoff
    MaxAnswers,         \* bound: unread answers to authentication on a connection
    OneConnector,       \* TRUE: one task at a time connects, and only if no connection is open
    NoConn, NoToken

ASSUME StreamAssumption ==
    /\ MaxAttempts \in Nat \ {0}
    /\ MaxAnswers \in Nat \ {0}
    /\ OneConnector \in BOOLEAN
    /\ NoConn \notin Conn
    /\ NoToken \notin Token

Channel == Public \cup User

VARIABLES
    closed,         \* _closed
    authenticated,  \* _authenticated
    context,        \* _auth_token, _impersonate and _auth_streams, or NoToken
    subscriptions,  \* _subscriptions
    connection,     \* transport.connection
    open,           \* the connections that are open
    accepted,       \* server: the token of the last authentication, NoToken if it was refused
    subscribed,     \* server: the channels it was asked for
    answers,        \* server: its answers to authentications, not yet read
    pc,             \* where a task is suspended
    op,             \* the call it is in
    conn,           \* the connection it closes or reads
    token,          \* the token it authenticates with
    attempts,       \* attempts to connect it has left
    restored,       \* history: the connection last given all subscriptions there were
    doubtful        \* history: the stream cannot tell what was accepted on its connection

stream == <<closed, authenticated, context, subscriptions>>
server == <<accepted, subscribed, answers>>
task == <<pc, op, conn, token, attempts>>
history == <<restored, doubtful>>
vars == <<stream, connection, open, server, task, history>>

Init ==
    /\ closed = FALSE
    /\ authenticated = FALSE
    /\ context = NoToken
    /\ subscriptions = <<>>
    /\ connection = NoConn
    /\ open = {}
    /\ accepted = [c \in Conn |-> NoToken]
    /\ subscribed = [c \in Conn |-> {}]
    /\ answers = [c \in Conn |-> <<>>]
    /\ pc = [t \in Task |-> "idle"]
    /\ op = [t \in Task |-> "none"]
    /\ conn = [t \in Task |-> NoConn]
    /\ token = [t \in Task |-> NoToken]
    /\ attempts = [t \in Task |-> 0]
    /\ restored = NoConn
    /\ doubtful = FALSE

-----------------------------------------------------------------------------
(* Tasks. *)

Suspend(t, where, call, c, k, n) ==
    /\ pc' = [pc EXCEPT ![t] = where]
    /\ op' = [op EXCEPT ![t] = call]
    /\ conn' = [conn EXCEPT ![t] = c]
    /\ token' = [token EXCEPT ![t] = k]
    /\ attempts' = [attempts EXCEPT ![t] = n]

\* The call returns or raises.
Return(t) == Suspend(t, "idle", "none", NoConn, NoToken, 0)

\* No task has read a message that it has not handled.
Settled == \A t \in Task : pc[t] \notin {"accepted", "refused"}

Connecting == \E t \in Task : op[t] \in {"connect", "reconnect"}

\* The tasks that authenticate on connection c.
Waiters(c) == {t \in Task : pc[t] \in {"authenticating", "accepted", "refused"} /\ conn[t] = c}

\* recv() of a connection serves one caller; a second one gets ConcurrencyError.
Read(c) == \E t \in Task : pc[t] \in {"authenticating", "receiving"} /\ conn[t] = c

-----------------------------------------------------------------------------
(* Subscriptions. *)

\* Mutant: every call is recorded, also of a channel that is recorded already.
SubscribeTwice(ch) ==
    /\ ch \in User => authenticated
    /\ connection \in open
    /\ subscribed' = [subscribed EXCEPT ![connection] = @ \cup {ch}]
    /\ subscriptions' = Append(subscriptions, ch)
    /\ UNCHANGED <<closed, authenticated, context, connection, open, accepted, answers,
                   task, history>>

\* Mutant: the subscription is recorded whether or not it could be sent.
SubscribeUnsent(ch) ==
    /\ ch \in User => authenticated
    /\ subscribed' = IF connection \in open
                     THEN [subscribed EXCEPT ![connection] = @ \cup {ch}] ELSE subscribed
    /\ subscriptions' = IF Contains(subscriptions, ch) THEN subscriptions
                        ELSE Append(subscriptions, ch)
    /\ UNCHANGED <<closed, authenticated, context, connection, open, accepted, answers,
                   task, history>>

Subscribe(ch) ==
    /\ ch \in User => authenticated
    /\ connection \in open
    /\ subscribed' = [subscribed EXCEPT ![connection] = @ \cup {ch}]
    /\ subscriptions' = IF Contains(subscriptions, ch) THEN subscriptions
                        ELSE Append(subscriptions, ch)
    /\ UNCHANGED <<closed, authenticated, context, connection, open, accepted, answers,
                   task, history>>

\* The replay stops at a user channel if the stream is not authenticated.
Replayed(auth) ==
    {subscriptions[n] : n \in {m \in DOMAIN subscriptions :
        auth \/ \A i \in 1..m : subscriptions[i] \notin User}}

\* The end of reconnect() on connection c; without a connection it raises.
Replay(t, c, isOpen, auth) ==
    /\ subscribed' = IF isOpen THEN [subscribed EXCEPT ![c] = @ \cup Replayed(auth)]
                     ELSE subscribed
    /\ restored' = IF isOpen /\ Replayed(auth) = ToSet(subscriptions) THEN c ELSE NoConn
    /\ Return(t)

-----------------------------------------------------------------------------
(* authenticate(), up to its suspension in recv().  The context is cleared *)
(* first, whatever comes of the authentication.  reauthenticate() is the   *)
(* same on a stream that is authenticated, and nothing on one that is not. *)

\* What is read next on a connection with an answer that nobody has read yet, or with
\* another call that waits for one, may be the answer to something else.
Ambiguous(c) == answers[c] # <<>> \/ Waiters(c) # {}

\* Mutant: the old authentication stands until the new one is accepted.
StartAuthKeeping(t, k, c, isOpen, call) ==
    /\ UNCHANGED <<authenticated, context>>
    /\ \/ /\ isOpen
          /\ \E reply \in {"accepted", "refused"} :
                /\ answers' = [answers EXCEPT ![c] = Append(@, reply)]
                /\ accepted' = [accepted EXCEPT
                                  ![c] = IF reply = "accepted" THEN k ELSE NoToken]
          /\ IF Read(c) THEN Return(t)
             ELSE Suspend(t, "authenticating", call, c, k, 0)
          /\ doubtful' = Ambiguous(c)
       \/ /\ ~isOpen
          /\ Return(t)
          /\ UNCHANGED <<answers, accepted, doubtful>>

StartAuth(t, k, c, isOpen, call) ==
    /\ authenticated' = FALSE
    /\ context' = NoToken
    /\ \/ /\ isOpen
          /\ \E reply \in {"accepted", "refused"} :
                /\ answers' = [answers EXCEPT ![c] = Append(@, reply)]
                /\ accepted' = [accepted EXCEPT
                                  ![c] = IF reply = "accepted" THEN k ELSE NoToken]
          /\ IF Read(c) THEN Return(t)
             ELSE Suspend(t, "authenticating", call, c, k, 0)
          /\ doubtful' = Ambiguous(c)
       \/ /\ ~isOpen
          /\ Return(t)
          /\ UNCHANGED <<answers, accepted, doubtful>>

Authenticate(t, k, call) ==
    /\ pc[t] = "idle"
    /\ call = "reauthenticate" => authenticated
    /\ connection # NoConn => Len(answers[connection]) < MaxAnswers
    /\ StartAuth(t, k, connection, connection \in open, call)
    /\ UNCHANGED <<closed, subscriptions, connection, open, subscribed, restored>>

\* The next message of the connection: the answer of the server, or data.
AuthReceives(t) ==
    /\ pc[t] = "authenticating"
    /\ conn[t] \in open \/ \E u \in Task : pc[u] = "closing" /\ conn[u] = conn[t]
    /\ \/ /\ answers[conn[t]] # <<>>
          /\ pc' = [pc EXCEPT ![t] = Head(answers[conn[t]])]
          /\ answers' = [answers EXCEPT ![conn[t]] = Tail(@)]
       \/ /\ subscribed[conn[t]] # {}
          /\ pc' = [pc EXCEPT ![t] = "refused"]
          /\ UNCHANGED answers
    /\ UNCHANGED <<stream, connection, open, accepted, subscribed, op, conn, token, attempts,
                   history>>

Accepted(t) ==
    /\ pc[t] = "accepted"
    /\ authenticated' = TRUE
    /\ context' = token[t]
    /\ \/ /\ op[t] = "reconnect"
          /\ Replay(t, connection, connection \in open, TRUE)
       \/ /\ op[t] # "reconnect"
          /\ Return(t)
          /\ UNCHANGED <<subscribed, restored>>
    /\ UNCHANGED <<closed, subscriptions, connection, open, accepted, answers, doubtful>>

\* Refused, or not an answer to an authentication at all: the call raises.
Refused(t) ==
    /\ pc[t] = "refused"
    /\ Return(t)
    /\ UNCHANGED <<stream, connection, open, server, history>>

-----------------------------------------------------------------------------
(* connect(), connect_with_backoff() and reconnect(). *)

MayConnect == ~closed /\ (OneConnector => ~Connecting)

\* n is 1 for connect() and max_attempts for connect_with_backoff().
Connect(t, n) ==
    /\ pc[t] = "idle"
    /\ MayConnect
    /\ OneConnector => connection \notin open
    /\ Suspend(t, "connecting", "connect", NoConn, NoToken, n)
    /\ UNCHANGED <<stream, connection, open, server, history>>

\* Mutant: the old connection is not closed.
CloseNothing(t, call) ==
    /\ UNCHANGED open
    /\ IF call = "close" THEN Return(t)
       ELSE Suspend(t, "connecting", call, NoConn, NoToken, 1)

\* transport.close(): a connection that is closing can no longer send.
CloseOrGoOn(t, call) ==
    \/ /\ connection # NoConn
       /\ open' = open \ {connection}
       /\ Suspend(t, "closing", call, connection, NoToken, 0)
    \/ /\ connection = NoConn
       /\ UNCHANGED open
       /\ IF call = "close" THEN Return(t)
          ELSE Suspend(t, "connecting", call, NoConn, NoToken, 1)

Reconnect(t) ==
    /\ pc[t] = "idle"
    /\ MayConnect
    /\ authenticated' = FALSE
    /\ CloseOrGoOn(t, "reconnect")
    /\ UNCHANGED <<closed, context, subscriptions, connection, server, history>>

\* close() only sets the flag, close_async() closes the transport as well.
Close ==
    /\ closed' = TRUE
    /\ UNCHANGED <<authenticated, context, subscriptions, connection, open, server, task,
                   history>>

CloseAsync(t) ==
    /\ pc[t] = "idle"
    /\ closed' = TRUE
    /\ authenticated' = FALSE
    /\ CloseOrGoOn(t, "close")
    /\ UNCHANGED <<context, subscriptions, connection, server, history>>

\* The transport forgets its connection, whichever it is by now.
CloseDone(t) ==
    /\ Settled
    /\ pc[t] = "closing"
    /\ connection' = NoConn
    /\ doubtful' = FALSE
    /\ IF op[t] = "close" \/ closed THEN Return(t)
       ELSE Suspend(t, "connecting", op[t], NoConn, NoToken, 1)
    /\ UNCHANGED <<stream, open, server, restored>>

Fresh(c) ==
    /\ c \notin open \cup {connection}
    /\ \A t \in Task : conn[t] # c
    /\ accepted[c] = NoToken /\ subscribed[c] = {} /\ answers[c] = <<>>

\* websockets.connect() returns; the transport takes the connection.  connect() leaves
\* the authentication alone, so that of the connection before stands.
ConnectDone(t) ==
    /\ Settled
    /\ pc[t] = "connecting"
    /\ \E c \in Conn :
          /\ Fresh(c)
          /\ connection' = c
          /\ open' = open \cup {c}
          /\ \/ /\ op[t] = "connect"
                /\ Return(t)
                /\ restored' = IF subscriptions = <<>> THEN c ELSE NoConn
                /\ doubtful' = authenticated
                /\ UNCHANGED <<authenticated, context, server>>
             \/ /\ op[t] = "reconnect"
                /\ context # NoToken
                /\ StartAuth(t, context, c, TRUE, "reconnect")
                /\ restored' = NoConn
                /\ UNCHANGED subscribed
             \/ /\ op[t] = "reconnect"
                /\ context = NoToken
                /\ Replay(t, c, TRUE, authenticated)
                /\ doubtful' = authenticated
                /\ UNCHANGED <<authenticated, context, accepted, answers>>
    /\ UNCHANGED <<closed, subscriptions>>

\* Mutant: attempts are not counted.
ConnectFailsUncounted(t) ==
    /\ Settled
    /\ pc[t] = "connecting"
    /\ \/ Return(t)
       \/ Suspend(t, "pausing", op[t], NoConn, NoToken, attempts[t])
    /\ UNCHANGED <<stream, connection, open, server, history>>

\* An attempt fails: the call raises, or pauses if it may try again.
ConnectFails(t) ==
    /\ Settled
    /\ pc[t] = "connecting"
    /\ \/ Return(t)
       \/ /\ attempts[t] > 1
          /\ Suspend(t, "pausing", op[t], NoConn, NoToken, attempts[t] - 1)
    /\ UNCHANGED <<stream, connection, open, server, history>>

\* Mutant: what was allowed at the first attempt is allowed at all of them.
PauseOverUnchecked(t) ==
    /\ pc[t] = "pausing"
    /\ Suspend(t, "connecting", op[t], NoConn, NoToken, attempts[t])
    /\ UNCHANGED <<stream, connection, open, server, history>>

\* The next attempt begins with connect(), which looks at closed again.
PauseOver(t) ==
    /\ pc[t] = "pausing"
    /\ IF closed THEN Return(t)
       ELSE Suspend(t, "connecting", op[t], NoConn, NoToken, attempts[t])
    /\ UNCHANGED <<stream, connection, open, server, history>>

-----------------------------------------------------------------------------
(* receive(), the network and cancellation. *)

Receive(t) ==
    /\ pc[t] = "idle"
    /\ connection # NoConn
    /\ ~Read(connection)
    /\ Suspend(t, "receiving", "receive", connection, NoToken, 0)
    /\ UNCHANGED <<stream, connection, open, server, history>>

\* A message for the application, which may be an answer nobody has read.
Received(t) ==
    /\ pc[t] = "receiving"
    /\ \/ /\ answers[conn[t]] # <<>>
          /\ answers' = [answers EXCEPT ![conn[t]] = Tail(@)]
       \/ /\ subscribed[conn[t]] # {}
          /\ UNCHANGED answers
    /\ Return(t)
    /\ UNCHANGED <<stream, connection, open, accepted, subscribed, history>>

\* recv() raises ConnectionClosed.
ReadFails(t) ==
    /\ pc[t] \in {"authenticating", "receiving"}
    /\ conn[t] \notin open
    /\ Return(t)
    /\ UNCHANGED <<stream, connection, open, server, history>>

Drop(c) ==
    /\ c \in open
    /\ open' = open \ {c}
    /\ UNCHANGED <<stream, connection, server, task, history>>

\* A connection that nothing refers to is a new one when it is used again.
Forget(c) ==
    /\ c \notin open \cup {connection, restored}
    /\ \A t \in Task : conn[t] # c
    /\ accepted' = [accepted EXCEPT ![c] = NoToken]
    /\ subscribed' = [subscribed EXCEPT ![c] = {}]
    /\ answers' = [answers EXCEPT ![c] = <<>>]
    /\ UNCHANGED <<stream, connection, open, task, history>>

Cancel(t) ==
    /\ pc[t] # "idle"
    /\ Return(t)
    /\ UNCHANGED <<stream, connection, open, server, history>>

-----------------------------------------------------------------------------

Call(t) ==
    \/ \E n \in {1, MaxAttempts} : Connect(t, n)
    \/ \E k \in Token : \/ Authenticate(t, k, "authenticate")
                        \/ Authenticate(t, k, "reauthenticate")
    \/ Reconnect(t)
    \/ CloseAsync(t)
    \/ Receive(t)

Progress(t) ==
    \/ CloseDone(t) \/ ConnectDone(t) \/ ConnectFails(t) \/ PauseOver(t)
    \/ AuthReceives(t) \/ Accepted(t) \/ Refused(t)
    \/ ReadFails(t)

Next ==
    \/ Close
    \/ \E t \in Task : Call(t) \/ Progress(t) \/ Received(t) \/ Cancel(t)
    \/ \E ch \in Channel : Subscribe(ch)
    \/ \E c \in Conn : Drop(c) \/ Forget(c)

Spec == Init /\ [][Next]_vars

(***************************************************************************)
(* An attempt to connect or to close ends (both have time limits), the     *)
(* server answers an authentication or the connection drops (the transport *)
(* pings it), and the loop serves everything that is ready between two     *)
(* polls, so other tasks cannot hold a completed one back for ever.        *)
(***************************************************************************)
FairSpec == Spec /\ \A t \in Task : SF_vars(Progress(t))

-----------------------------------------------------------------------------
(* Properties. *)

StreamTypeOK ==
    /\ {closed, authenticated} \subseteq BOOLEAN
    /\ context \in Token \cup {NoToken}
    /\ subscriptions \in Seq(Channel) /\ IsInjective(subscriptions)

ConnectionTypeOK ==
    /\ {connection, restored} \subseteq Conn \cup {NoConn}
    /\ open \subseteq Conn
    /\ accepted \in [Conn -> Token \cup {NoToken}]
    /\ subscribed \in [Conn -> SUBSET Channel]
    /\ answers \in [Conn -> Seq({"accepted", "refused"})]
    /\ doubtful \in BOOLEAN

Place == {"idle", "connecting", "pausing", "closing", "authenticating", "accepted",
          "refused", "receiving"}

Operation == {"none", "connect", "reconnect", "close", "authenticate", "reauthenticate",
              "receive"}

\* An idle task is in no call, and a waiting one knows its connection.
TaskTypeOK ==
    /\ pc \in [Task -> Place]
    /\ op \in [Task -> Operation]
    /\ conn \in [Task -> Conn \cup {NoConn}]
    /\ token \in [Task -> Token \cup {NoToken}]
    /\ attempts \in [Task -> 0..MaxAttempts]
    /\ \A t \in Task : pc[t] = "idle" <=> op[t] = "none"
    /\ \A t \in Task : pc[t] \in {"closing", "authenticating", "receiving"} => conn[t] # NoConn

\* Types; a channel is subscribed to once, and attempts stay in their bound.
TypeOK == StreamTypeOK /\ ConnectionTypeOK /\ TaskTypeOK

(***************************************************************************)
(* A stream that calls itself authenticated is: the server has accepted,   *)
(* on the connection the transport uses now, the token that a reconnect    *)
(* would use.  Data may come first, readers may take the answer, calls may *)
(* be cancelled, connections drop.  It is known not to hold, and not asked *)
(* for, if the connection is doubtful: the last authenticate() on it began *)
(* while the answer to another one was outstanding, or a plain connect()   *)
(* opened it for a stream that was authenticated on the one before.        *)
(***************************************************************************)
AuthenticatedIsLive ==
    ~closed /\ authenticated /\ connection \in open /\ ~doubtful
        => accepted[connection] = context

(***************************************************************************)
(* After a reconnect that succeeded the server has every subscription the  *)
(* stream records, also those made while the reconnect was under way.      *)
(***************************************************************************)
SubscriptionsRestored ==
    restored # NoConn /\ restored = connection
        => ToSet(subscriptions) \subseteq subscribed[connection]

\* Until the stream is closed no connection is left open that it no longer knows:
\* there is one at most, and close_async() and reconnect() will close it.
NoOrphanConnection == ~closed => open \subseteq {connection}

Attempting == {t \in Task : pc[t] = "connecting"}

(***************************************************************************)
(* A closed stream winds down.  Whatever calls are under way when it is    *)
(* closed, by close() or close_async(), at whichever of their awaits: none *)
(* begins another attempt to connect, and each attempt that was under way  *)
(* opens one connection at most.  (That it may open one is in the code.)   *)
(***************************************************************************)
ClosedWindsDown ==
    [][closed => /\ Attempting' \subseteq Attempting
                 /\ \/ open' \subseteq open
                    \/ \E t \in Attempting \ Attempting', c \in Conn : open' = open \cup {c}]_vars

\* Every call but receive() ends: attempts to connect are bounded, an
\* authentication is answered or fails with its connection.
CallsEnd == \A t \in Task : op[t] \notin {"none", "receive"} ~> op[t] \in {"none", "receive"}

=============================================================================
