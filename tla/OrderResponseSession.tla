------------------------ MODULE OrderResponseSession ------------------------
(***************************************************************************)
(* A session of OrderResponseStream (streams/order_response.py) over       *)
(* WebSocketTransport (transport/websocket.py): requests go out, responses *)
(* come back in any order, connections are lost and opened again, and      *)
(* recover_pending asks for the requests whose response never came.        *)
(*                                                                         *)
(* Concurrency.  A task suspends while a connection is opened, closed or   *)
(* read, while it pauses between attempts, and in the query of a recovery. *)
(* send() does not suspend: the write buffer is not full.  recv() hands    *)
(* over a message when its task runs again, and what was received before   *)
(* the connection was lost can still be read.                              *)
(*                                                                         *)
(* Data.  A request is its id; whether it logs in and which order it names *)
(* is fixed by the id; which token a login sends and stores is left to     *)
(* ClientLifecycle.  The query of a recovery is the caller's: what it      *)
(* finds is left open here (OrderRecovery has the reconciler's).           *)
(***************************************************************************)
EXTENDS Integers, Sequences

CONSTANTS
    Task,
    Conn,               \* WebSocket connections
    Login,              \* ids of auth:login requests
    Order,              \* ids of order requests that carry a cl_ord_id
    MaxAttempts,        \* max_attempts of connect_with_backoff
    NoConn, NoRequest

Request == Login \cup Order

ASSUME OrderSessionAssumption ==
    /\ Login \cap Order = {}
    /\ MaxAttempts \in Nat \ {0}
    /\ NoRequest \notin Request
    /\ NoConn \notin Conn

VARIABLES
    closed,     \* _closed
    pending,    \* _pending_request_ids, and the keys of _pending_requests
    connection, \* transport.connection
    open,       \* the connections that are open
    asked,      \* server: where it got a request it has not answered
    unread,     \* responses received on a connection and not yet read, and whether they are valid
    pc,         \* where a task is suspended
    op,         \* the call it is in
    conn,       \* the connection it closes or reads
    attempts,   \* attempts to connect it has left
    own,        \* the request it logs in with, or whose order it queries
    batch,      \* the requests a recovery still has to query
    sends,      \* history: how often a request was sent
    known       \* history: requests answered, or whose order was found

stream == <<closed, pending>>
wire == <<asked, unread>>
task == <<pc, op, conn, attempts, own, batch>>
history == <<sends, known>>
vars == <<stream, connection, open, wire, task, history>>

Init ==
    /\ closed = FALSE
    /\ pending = {}
    /\ connection = NoConn
    /\ open = {}
    /\ asked = [r \in Request |-> NoConn]
    /\ unread = [c \in Conn |-> <<>>]
    /\ pc = [t \in Task |-> "idle"]
    /\ op = [t \in Task |-> "none"]
    /\ conn = [t \in Task |-> NoConn]
    /\ attempts = [t \in Task |-> 0]
    /\ own = [t \in Task |-> NoRequest]
    /\ batch = [t \in Task |-> {}]
    /\ sends = [r \in Request |-> 0]
    /\ known = {}

-----------------------------------------------------------------------------
(* Helpers. *)

\* The task suspends at a place of a call, on a connection, with n attempts left.
Suspend(t, place, call, c, n) ==
    /\ pc' = [pc EXCEPT ![t] = place]
    /\ op' = [op EXCEPT ![t] = call]
    /\ conn' = [conn EXCEPT ![t] = c]
    /\ attempts' = [attempts EXCEPT ![t] = n]

NothingInHand(t) ==
    /\ own' = [own EXCEPT ![t] = NoRequest]
    /\ batch' = [batch EXCEPT ![t] = {}]

Return(t) ==
    /\ Suspend(t, "idle", "none", NoConn, 0)
    /\ NothingInHand(t)

\* recv() of a connection serves one caller; a second one gets ConcurrencyError.
Read(c) == \E t \in Task : pc[t] \in {"login", "receiving"} /\ conn[t] = c

\* A request that is answered, or whose order has a snapshot, is done with.
Resolve(r) ==
    /\ pending' = pending \ {r}
    /\ known' = known \cup {r}

-----------------------------------------------------------------------------
(* send_request(): the id is registered first, whatever comes of the send. *)

\* Mutant: an id that is still pending is not refused.
RegisterAnyway(r) ==
    /\ r \notin known
    /\ pending' = pending \cup {r}

\* An id that is still pending is refused.  Callers do not use an id again
\* after its outcome is known, but they may retry one that failed to be sent.
Register(r) ==
    /\ r \notin known
    /\ r \notin pending
    /\ pending' = pending \cup {r}

\* Without an open connection the call raises, and the id stays registered.
Transmit(r) ==
    \/ /\ connection \in open
       /\ asked' = [asked EXCEPT ![r] = connection]
       /\ sends' = [sends EXCEPT ![r] = @ + 1]
    \/ /\ connection \notin open
       /\ UNCHANGED <<asked, sends>>

SendRequest(r) ==
    /\ r \in Order
    /\ Register(r)
    /\ Transmit(r)
    /\ UNCHANGED <<closed, connection, open, unread, task, known>>

-----------------------------------------------------------------------------
(* authenticate() and receive(). *)

\* The login request goes out as any other; then the next response is awaited,
\* which raises at once if another task is reading.
Authenticate(t, r) ==
    /\ pc[t] = "idle"
    /\ r \in Login
    /\ Register(r)
    /\ Transmit(r)
    /\ \/ /\ connection \in open /\ ~Read(connection)
          /\ Suspend(t, "login", "authenticate", connection, 0)
          /\ own' = [own EXCEPT ![t] = r]
          /\ UNCHANGED batch
       \/ /\ connection \notin open \/ Read(connection)
          /\ UNCHANGED task
    /\ UNCHANGED <<closed, connection, open, unread, known>>

Receive(t) ==
    /\ pc[t] = "idle"
    /\ connection # NoConn
    /\ ~Read(connection)
    /\ Suspend(t, "receiving", "receive", connection, 0)
    /\ UNCHANGED <<stream, connection, open, wire, own, batch, history>>

\* Mutant: the request is discarded before its response is validated.
DecodeUnchecked(response) ==
    /\ pending' = pending \ {response.id}
    /\ known' = IF response.valid THEN known \cup {response.id} ELSE known

\* decode_response(): a response that is not valid raises and clears nothing.
Decode(response) ==
    \/ response.valid /\ Resolve(response.id)
    \/ ~response.valid /\ UNCHANGED <<pending, known>>

\* The next response of the connection, whichever request it answers, decoded at
\* once by authenticate() as by the application that calls receive().
Reads(t) ==
    /\ pc[t] \in {"login", "receiving"}
    /\ unread[conn[t]] # <<>>
    /\ Decode(Head(unread[conn[t]]))
    /\ unread' = [unread EXCEPT ![conn[t]] = Tail(@)]
    /\ Return(t)
    /\ UNCHANGED <<closed, connection, open, asked, sends>>

\* ConnectionClosed, once everything received has been read.
ReadFails(t) ==
    /\ pc[t] \in {"login", "receiving"}
    /\ unread[conn[t]] = <<>>
    /\ conn[t] \notin open
    /\ Return(t)
    /\ UNCHANGED <<stream, connection, open, wire, history>>

-----------------------------------------------------------------------------
(* connect(), connect_with_backoff(), reconnect(), close() and close_async(). *)

\* n is 1 for connect() and max_attempts for connect_with_backoff().
Connect(t, n) ==
    /\ pc[t] = "idle"
    /\ ~closed
    /\ Suspend(t, "connecting", "connect", NoConn, n)
    /\ UNCHANGED <<stream, connection, open, wire, own, batch, history>>

\* transport.close(), at once if there is no connection; a connection that is
\* closing can no longer send.
CloseTransport(t, call) ==
    \/ /\ connection # NoConn
       /\ open' = open \ {connection}
       /\ Suspend(t, "closing", call, connection, 0)
    \/ /\ connection = NoConn
       /\ UNCHANGED open
       /\ IF call = "reconnect" THEN Suspend(t, "connecting", call, NoConn, 1)
          ELSE Suspend(t, "idle", "none", NoConn, 0)

\* Neither the login nor a pending request is sent again.
Reconnect(t) ==
    /\ pc[t] = "idle"
    /\ ~closed
    /\ CloseTransport(t, "reconnect")
    /\ UNCHANGED <<stream, connection, wire, own, batch, history>>

\* close() only sets the flag, close_async() closes the transport as well, which
\* an attempt to connect that is under way does not notice.
Close ==
    /\ closed' = TRUE
    /\ UNCHANGED <<pending, connection, open, wire, task, history>>

CloseAsync(t) ==
    /\ pc[t] = "idle"
    /\ closed' = TRUE
    /\ CloseTransport(t, "close")
    /\ UNCHANGED <<pending, connection, wire, own, batch, history>>

\* Mutant: reconnect() does not look at closed again.
CloseDoneUnchecked(t) ==
    /\ pc[t] = "closing"
    /\ connection' = NoConn
    /\ IF op[t] = "reconnect" THEN Suspend(t, "connecting", "reconnect", NoConn, 1)
       ELSE Suspend(t, "idle", "none", NoConn, 0)
    /\ UNCHANGED <<stream, open, wire, own, batch, history>>

\* The transport forgets its connection, whichever it is by now; reconnect()
\* goes on with connect(), which refuses a stream that has been closed.
CloseDone(t) ==
    /\ pc[t] = "closing"
    /\ connection' = NoConn
    /\ IF op[t] = "reconnect" /\ ~closed THEN Suspend(t, "connecting", "reconnect", NoConn, 1)
       ELSE Suspend(t, "idle", "none", NoConn, 0)
    /\ UNCHANGED <<stream, open, wire, own, batch, history>>

\* A connection nothing refers to serves as a new one.
Fresh(c) == c \notin open \cup {connection} /\ \A t \in Task : conn[t] # c

ConnectDone(t) ==
    /\ pc[t] = "connecting"
    /\ \E c \in Conn :
          /\ Fresh(c)
          /\ connection' = c
          /\ open' = open \cup {c}
          /\ asked' = [r \in Request |-> IF asked[r] = c THEN NoConn ELSE asked[r]]
          /\ unread' = [unread EXCEPT ![c] = <<>>]
    /\ Return(t)
    /\ UNCHANGED <<stream, history>>

\* Mutant: the attempts that are left are not looked at.
ConnectFailsUnbounded(t) ==
    /\ pc[t] = "connecting"
    /\ \/ Suspend(t, "idle", "none", NoConn, 0)
       \/ Suspend(t, "pausing", op[t], NoConn, attempts[t] - 1)
    /\ UNCHANGED <<stream, connection, open, wire, own, batch, history>>

\* An attempt fails: the call raises, or pauses if it may try again.
ConnectFails(t) ==
    /\ pc[t] = "connecting"
    /\ \/ Suspend(t, "idle", "none", NoConn, 0)
       \/ attempts[t] > 1 /\ Suspend(t, "pausing", op[t], NoConn, attempts[t] - 1)
    /\ UNCHANGED <<stream, connection, open, wire, own, batch, history>>

\* The next attempt begins with connect(), which looks at closed again.
PauseOver(t) ==
    /\ pc[t] = "pausing"
    /\ IF closed THEN Suspend(t, "idle", "none", NoConn, 0)
       ELSE Suspend(t, "connecting", op[t], NoConn, attempts[t])
    /\ UNCHANGED <<stream, connection, open, wire, own, batch, history>>

-----------------------------------------------------------------------------
(* recover_pending(): one query after the other for a copy of what is pending. *)

\* own[t] is the next request, batch[t] the rest; logins name no order.
Query(t, requests) ==
    \E r \in requests :
        /\ Suspend(t, "querying", "recover", NoConn, 0)
        /\ own' = [own EXCEPT ![t] = r]
        /\ batch' = [batch EXCEPT ![t] = requests \ {r}]

RecoverPending(t) ==
    /\ pc[t] = "idle"
    /\ Query(t, pending \cap Order)
    /\ UNCHANGED <<stream, connection, open, wire, history>>

Queried(t) ==
    /\ pc[t] = "querying"
    /\ Resolve(own[t]) \/ UNCHANGED <<pending, known>>
    /\ IF batch[t] = {} THEN Return(t) ELSE Query(t, batch[t])
    /\ UNCHANGED <<closed, connection, open, wire, sends>>

\* A call is cancelled, or the query of a recovery raises.
Cancel(t) ==
    /\ pc[t] # "idle"
    /\ Return(t)
    /\ UNCHANGED <<stream, connection, open, wire, history>>

-----------------------------------------------------------------------------
(* The server and the network. *)

\* Responses come in any order, on the connection their request came on.
Respond(r, valid) ==
    /\ asked[r] \in open
    /\ unread' = [unread EXCEPT ![asked[r]] = Append(@, [id |-> r, valid |-> valid])]
    /\ asked' = [asked EXCEPT ![r] = NoConn]
    /\ UNCHANGED <<stream, connection, open, task, history>>

Drop(c) ==
    /\ c \in open
    /\ open' = open \ {c}
    /\ UNCHANGED <<stream, connection, wire, task, history>>

Next ==
    \/ Close
    \/ \E r \in Request : SendRequest(r) \/ \E valid \in BOOLEAN : Respond(r, valid)
    \/ \E c \in Conn : Drop(c)
    \/ \E t \in Task :
          \/ \E r \in Login : Authenticate(t, r)
          \/ Receive(t) \/ Reads(t) \/ ReadFails(t)
          \/ \E n \in {1, MaxAttempts} : Connect(t, n)
          \/ Reconnect(t) \/ CloseAsync(t) \/ CloseDone(t)
          \/ ConnectDone(t) \/ ConnectFails(t) \/ PauseOver(t)
          \/ RecoverPending(t) \/ Queried(t)
          \/ Cancel(t)

Spec == Init /\ [][Next]_vars

-----------------------------------------------------------------------------
(* Properties. *)

StreamTypeOK ==
    /\ closed \in BOOLEAN
    /\ pending \subseteq Request /\ known \subseteq Request
    /\ sends \in [Request -> Nat]

ConnectionTypeOK ==
    /\ connection \in Conn \cup {NoConn}
    /\ open \subseteq Conn
    /\ asked \in [Request -> Conn \cup {NoConn}]
    /\ unread \in [Conn -> Seq([id : Request, valid : BOOLEAN])]

Place == {"idle", "connecting", "pausing", "closing", "login", "receiving", "querying"}

Operation == {"none", "connect", "reconnect", "close", "authenticate", "receive", "recover"}

TaskTypeOK ==
    /\ pc \in [Task -> Place]
    /\ op \in [Task -> Operation]
    /\ conn \in [Task -> Conn \cup {NoConn}]
    /\ attempts \in [Task -> 0..MaxAttempts]
    /\ own \in [Task -> Request \cup {NoRequest}]
    /\ batch \in [Task -> SUBSET Order]
    /\ \A t \in Task : own[t] # NoRequest <=> pc[t] \in {"login", "querying"}
    /\ \A t \in Task : pc[t] \in {"closing", "login", "receiving"} => conn[t] # NoConn

\* Types; a task has a request in hand exactly while it logs in or queries, and
\* whoever closes or reads knows a connection.
TypeOK == StreamTypeOK /\ ConnectionTypeOK /\ TaskTypeOK

(***************************************************************************)
(* No request reaches the server twice: not by a reconnect, and not by a   *)
(* caller who retries a request that failed, timed out or was cancelled,   *)
(* as long as the outcome is unknown (request() refuses a pending id).     *)
(***************************************************************************)
NothingIsResent == \A r \in Request : sends[r] <= 1

(***************************************************************************)
(* A request that went out is pending until its outcome is known, that is  *)
(* until a valid response to it was read or its order was found: losing    *)
(* the connection, a malformed response, an answer read by another task or *)
(* a cancelled call does not make the stream forget it.                    *)
(***************************************************************************)
UnknownIsPending == \A r \in Request : sends[r] > 0 => r \in pending \cup known

Attempting == {t \in Task : pc[t] = "connecting"}

Silent == connection \notin open /\ Attempting = {}

(***************************************************************************)
(* A closed stream winds down.  send_request() does not look at closed,    *)
(* close() leaves the connection open, and an attempt to connect that is   *)
(* under way during close_async() opens one afterwards; but no call, at    *)
(* whichever await it was, begins another attempt, each attempt opens one  *)
(* connection at most, and once there is no attempt and no open connection *)
(* nothing is ever sent again.                                             *)
(***************************************************************************)
ClosedWindsDown ==
    [][closed => /\ Attempting' \subseteq Attempting
                 /\ \/ open' \subseteq open
                    \/ \E t \in Attempting \ Attempting', c \in Conn : open' = open \cup {c}
                 /\ Silent => Silent' /\ sends' = sends]_vars

(***************************************************************************)
(* The stream keeps the promise of PendingRequests: whatever it reads and  *)
(* queries, with however many readers, recoveries and connections, the     *)
(* outcome that becomes known is that of one request that was registered   *)
(* and is still pending, or was known already.                             *)
(***************************************************************************)
Requests == INSTANCE PendingRequests

RequestsImplemented == Requests!Spec

=============================================================================
