--------------------------- MODULE ClientLifecycle ---------------------------
(***************************************************************************)
(* The registry of streams of a StandXClient (client.py): streams created, *)
(* handed the current token, authenticated again and closed, while tasks   *)
(* overlap and calls raise or are cancelled.  What happens inside a stream *)
(* is the matter of MarketStream and OrderResponseSession, and inside the  *)
(* transports of RestSession.                                              *)
(*                                                                         *)
(* Two kinds of calls meet at a stream.  The tasks are in close_async and  *)
(* reauthenticate of the client, which suspend where they await a stream   *)
(* that has a connection, or a transport that is open.  The application    *)
(* has one call at a time under way at each stream: call[s] says which     *)
(* await it is at.  It replaces a dropped connection with reconnect().     *)
(***************************************************************************)
EXTENDS Integers, Sequences, FiniteSets

CONSTANTS
    Task,
    Market, Order,  \* bound: the streams that are ever created
    Token,          \* bound: the tokens that are ever provided
    MaxCalls,       \* bound: the streams at which the application has calls under way
    NoToken

ASSUME ClientAssumption ==
    /\ Market \cap Order = {}
    /\ MaxCalls \in Nat
    /\ NoToken \notin Token

Stream == Market \cup Order

Transport == {"http", "auth"}

VARIABLES
    created,    \* _Streams._created
    shut,       \* _Streams._closed
    ended,      \* streams that are _closed
    connected,  \* streams with a connection
    held,       \* _token of an order stream; the token a Market Stream is authenticated with
    saved,      \* _auth_token of a Market Stream
    call,       \* where the application's call at a stream is suspended
    asked,      \* the token it authenticates with
    open,       \* transports that are not _closed
    closed,     \* StandXClient._closed
    token,      \* AuthService.token, _Streams._token and the header of the transport
    provided,   \* tokens provided so far
    pc,         \* where a task is suspended
    at,         \* its place in _created
    fresh,      \* the token it authenticates streams with
    alone,      \* history: no token was set since it began to
    behind,     \* history: streams with a call that goes on with a token from before the
                \* current one, and that were not authenticated with the current one since
    overtaken   \* history: streams that were closed while the application connected them

registry == <<created, shut>>
stream == <<ended, connected, held, saved>>
calls == <<call, asked>>
transports == <<open, closed>>
tokens == <<token, provided>>
tasks == <<pc, at, fresh>>
history == <<alone, behind, overtaken>>
vars == <<registry, stream, calls, transports, tokens, tasks, history>>

Init ==
    /\ created = <<>>
    /\ shut = FALSE
    /\ ended = {}
    /\ connected = {}
    /\ held = [s \in Stream |-> NoToken]
    /\ saved = [s \in Stream |-> NoToken]
    /\ call = [s \in Stream |-> "none"]
    /\ asked = [s \in Stream |-> NoToken]
    /\ open = Transport
    /\ closed = FALSE
    /\ token = NoToken
    /\ provided = {}
    /\ pc = [t \in Task |-> "idle"]
    /\ at = [t \in Task |-> 0]
    /\ fresh = [t \in Task |-> NoToken]
    /\ alone = [t \in Task |-> FALSE]
    /\ behind = {}
    /\ overtaken = {}

Created == {created[k] : k \in DOMAIN created}

-----------------------------------------------------------------------------
(* The streams of the registry. *)

\* Mutant: an order stream starts without a token.
FirstTokenNone(s) == NoToken

FirstToken(s) == IF s \in Order THEN token ELSE NoToken

MayMake == ~shut

\* market and order_response
MakeStream(s) ==
    /\ MayMake
    /\ s \notin Created
    /\ created' = Append(created, s)
    /\ held' = [held EXCEPT ![s] = FirstToken(s)]
    /\ UNCHANGED <<shut, ended, connected, saved, calls, transports, tokens, tasks, history>>

-----------------------------------------------------------------------------
(* The calls of the application at a stream. *)

Moves(s, place, k) ==
    /\ call' = [call EXCEPT ![s] = place]
    /\ asked' = [asked EXCEPT ![s] = k]

MayCall(s) ==
    /\ call[s] = "none"
    /\ Cardinality({u \in Stream : call[u] # "none"}) < MaxCalls

\* A Market Stream without a session, and without a token to reconnect with.
Clear(s, sessions) == IF s \in Market THEN [sessions EXCEPT ![s] = NoToken] ELSE sessions

Connects(s) == call[s] \in {"connect", "reopen"}

\* A task waits for the answer to its authentication on stream s.
Renews(s) == \E t \in Task : pc[t] = "renew" /\ created[at[t]] = s

Connect(s) ==
    /\ MayCall(s)
    /\ s \in Created \ (ended \cup connected)
    /\ Moves(s, "connect", NoToken)
    /\ UNCHANGED <<registry, stream, transports, tokens, tasks, history>>

\* Whoever waited on the connection before has been told that it is closed: the loop
\* serves them before it polls the network.  A Market Stream that reconnects goes on
\* with the token it has kept.
Connected(s) ==
    /\ Connects(s)
    /\ ~Renews(s)
    /\ connected' = connected \cup {s}
    /\ IF call[s] = "reopen" /\ saved[s] # NoToken
       THEN /\ Moves(s, "auth", saved[s])
            /\ held' = Clear(s, held) /\ saved' = Clear(s, saved)
       ELSE /\ Moves(s, "none", NoToken)
            /\ UNCHANGED <<held, saved>>
    /\ UNCHANGED <<registry, ended, transports, tokens, tasks, history>>

Reconnect(s) ==
    /\ MayCall(s)
    /\ s \in Created \ ended
    /\ held' = Clear(s, held)
    /\ Moves(s, IF s \in connected THEN "reclose" ELSE "reopen", NoToken)
    /\ behind' = IF saved[s] \notin {NoToken, token} THEN behind \cup {s} ELSE behind
    /\ UNCHANGED <<registry, ended, connected, saved, transports, tokens, tasks, alone, overtaken>>

\* A Market Stream is no longer authenticated once it is closed.
End(S) ==
    /\ ended' = ended \cup S
    /\ held' = [s \in Stream |-> IF s \in Market \cap S THEN NoToken ELSE held[s]]
    /\ overtaken' = overtaken \cup {s \in S : Connects(s)}

\* The application closes a stream itself.
CloseStream(s) ==
    /\ MayCall(s)
    /\ s \in Created
    /\ End({s})
    /\ Moves(s, IF s \in connected THEN "close" ELSE "none", NoToken)
    /\ UNCHANGED <<registry, connected, saved, transports, tokens, tasks, alone, behind>>

\* Mutant: reconnect() does not look at closed again.
DisconnectedUnchecked(s) ==
    /\ call[s] \in {"close", "reclose"}
    /\ connected' = connected \ {s}
    /\ Moves(s, IF call[s] = "reclose" THEN "reopen" ELSE "none", NoToken)
    /\ UNCHANGED <<registry, ended, held, saved, transports, tokens, tasks, history>>

\* The transport of the stream is closed; reconnect() goes on with connect().
Disconnected(s) ==
    /\ call[s] \in {"close", "reclose"}
    /\ connected' = connected \ {s}
    /\ Moves(s, IF call[s] = "reclose" /\ s \notin ended THEN "reopen" ELSE "none", NoToken)
    /\ UNCHANGED <<registry, ended, held, saved, transports, tokens, tasks, history>>

\* authenticate() of a Market Stream is given the token of the client, that of an order
\* stream takes the one the stream holds.
TokenFor(s) == IF s \in Market THEN token ELSE held[s]

\* A Market Stream forgets its session before it asks for a new one, also if it cannot
\* ask, or cannot read the answer beside a renewal.
Authenticate(s) ==
    /\ MayCall(s)
    /\ s \in Created
    /\ TokenFor(s) # NoToken
    /\ held' = Clear(s, held) /\ saved' = Clear(s, saved)
    /\ \/ /\ s \in connected /\ ~Renews(s)
          /\ Moves(s, "auth", TokenFor(s))
       \/ /\ s \notin connected \/ Renews(s)
          /\ UNCHANGED calls
    /\ UNCHANGED <<registry, ended, connected, transports, tokens, tasks, history>>

\* The answer is there: the token is stored, whatever was set meanwhile.
Authenticates(s) ==
    /\ call[s] = "auth"
    /\ s \in connected
    /\ held' = [held EXCEPT ![s] = asked[s]]
    /\ saved' = IF s \in Market THEN [saved EXCEPT ![s] = asked[s]] ELSE saved
    /\ Moves(s, "none", NoToken)
    /\ behind' = IF asked[s] = token THEN behind \ {s} ELSE behind
    /\ UNCHANGED <<registry, ended, connected, transports, tokens, tasks, alone, overtaken>>

\* The call raises, or is cancelled.
Raises(s) ==
    /\ call[s] # "none"
    /\ Moves(s, "none", NoToken)
    /\ UNCHANGED <<registry, stream, transports, tokens, tasks, history>>

-----------------------------------------------------------------------------
(* close_async *)

\* The transports that are left, one after the other, and the client.
CloseTransports(t, left) ==
    /\ open' = left
    /\ pc' = [pc EXCEPT ![t] = IF "http" \in left THEN "http"
                               ELSE IF "auth" \in left THEN "auth" ELSE "idle"]
    /\ closed' = (closed \/ left = {})

\* Mutant: the place is counted on before the wait.
AwaitPast(t, j, where) ==
    /\ at' = [at EXCEPT ![t] = j + 1]
    /\ pc' = [pc EXCEPT ![t] = where]

Await(t, j, where) ==
    /\ at' = [at EXCEPT ![t] = j]
    /\ pc' = [pc EXCEPT ![t] = where]

\* The streams from place i on, as far as the next one that has a connection.
\* The list is the live one: a stream created meanwhile is closed as well.
CloseStreams(t, i) ==
    \E j \in i..(Len(created) + 1) :
        /\ \A k \in i..(j - 1) : created[k] \notin connected
        /\ End({created[k] : k \in (i..j) \cap DOMAIN created})
        /\ \/ /\ j \in DOMAIN created
              /\ created[j] \in connected
              /\ Await(t, j, "stream")
              /\ UNCHANGED <<shut, transports>>
           \/ /\ j = Len(created) + 1
              /\ shut' = TRUE
              /\ at' = [at EXCEPT ![t] = 0]
              /\ CloseTransports(t, open)

CloseAsync(t) ==
    /\ pc[t] = "idle"
    /\ ~closed
    /\ \/ /\ ~shut
          /\ CloseStreams(t, 1)
          /\ UNCHANGED <<connected, saved>>
       \/ /\ shut
          /\ CloseTransports(t, open)
          /\ UNCHANGED <<shut, stream, at, overtaken>>
    /\ UNCHANGED <<created, calls, tokens, fresh, alone, behind>>

StreamClosed(t) ==
    /\ pc[t] = "stream"
    /\ connected' = connected \ {created[at[t]]}
    /\ CloseStreams(t, at[t] + 1)
    /\ UNCHANGED <<created, saved, calls, tokens, fresh, alone, behind>>

TransportClosed(t) ==
    /\ pc[t] \in Transport
    /\ CloseTransports(t, open \ {pc[t]})
    /\ UNCHANGED <<registry, stream, calls, tokens, at, fresh, history>>

-----------------------------------------------------------------------------
(* Tokens. *)

\* The streams where a call of the application goes on with a token from before.
Late == {s \in Stream : \/ asked[s] # NoToken
                        \/ call[s] \in {"reclose", "reopen"} /\ saved[s] # NoToken}

\* _sync_token: the transport, the registry and every order stream.
SetToken(k, other) ==
    /\ token' = k
    /\ held' = [s \in Stream |-> IF s \in Order \cap Created THEN k ELSE other[s]]
    /\ behind' = Late

SetAccessToken(k) ==
    /\ k \notin provided
    /\ provided' = provided \cup {k}
    /\ SetToken(k, held)
    /\ alone' = [t \in Task |-> FALSE]
    /\ UNCHANGED <<registry, ended, connected, saved, calls, transports, tasks, overtaken>>

Authenticated(s) == s \in Market /\ held[s] # NoToken

\* Mutant: a stream that is not authenticated ends the renewal.
RenewWhileAuthenticated(t, i) ==
    IF i \in DOMAIN created /\ Authenticated(created[i])
    THEN Await(t, i, "renew") ELSE Await(t, 0, "idle")

\* On to the next Market Stream that is authenticated, from place i on.
RenewStreams(t, i) ==
    \E j \in i..(Len(created) + 1) :
        /\ \A k \in i..(j - 1) : ~Authenticated(created[k])
        /\ \/ /\ j \in DOMAIN created
              /\ Authenticated(created[j])
              /\ Await(t, j, "renew")
           \/ /\ j = Len(created) + 1
              /\ Await(t, 0, "idle")

\* authenticate() forgets the session of a stream before it asks for a new one.
Forget(t, session) ==
    [s \in Stream |-> IF pc'[t] = "renew" /\ s = created[at'[t]] THEN NoToken ELSE session[s]]

\* The token of a renewal, until it ends.
Carry(t, k) == fresh' = [fresh EXCEPT ![t] = IF pc'[t] = "renew" THEN k ELSE NoToken]

\* reauthenticate, once its login has a token.
Reauthenticate(t, k) ==
    /\ pc[t] = "idle"
    /\ k \notin provided
    /\ provided' = provided \cup {k}
    /\ RenewStreams(t, 1)
    /\ SetToken(k, Forget(t, held))
    /\ saved' = Forget(t, saved)
    /\ Carry(t, k)
    /\ alone' = [u \in Task |-> /\ u = t /\ pc'[t] = "renew"
                               /\ \A v \in Task : pc[v] # "renew"]
    /\ UNCHANGED <<registry, ended, connected, calls, transports, overtaken>>

Renewed(t) ==
    /\ pc[t] = "renew"
    /\ created[at[t]] \in connected
    /\ RenewStreams(t, at[t] + 1)
    /\ held' = Forget(t, [held EXCEPT ![created[at[t]]] = fresh[t]])
    /\ saved' = Forget(t, [saved EXCEPT ![created[at[t]]] = fresh[t]])
    /\ Carry(t, fresh[t])
    /\ alone' = [alone EXCEPT ![t] = @ /\ pc'[t] = "renew"]
    /\ UNCHANGED <<registry, ended, connected, calls, transports, tokens, behind, overtaken>>

\* A call raises, or is cancelled.
Interrupted(t) ==
    /\ pc[t] # "idle"
    /\ Await(t, 0, "idle")
    /\ Carry(t, NoToken)
    /\ alone' = [alone EXCEPT ![t] = FALSE]
    /\ UNCHANGED <<registry, stream, calls, transports, tokens, behind, overtaken>>

Next ==
    \/ \E s \in Stream :
          \/ MakeStream(s)
          \/ Connect(s) \/ Connected(s) \/ Reconnect(s) \/ CloseStream(s) \/ Disconnected(s)
          \/ Authenticate(s) \/ Authenticates(s) \/ Raises(s)
    \/ \E k \in Token : SetAccessToken(k)
    \/ \E t \in Task :
          \/ CloseAsync(t) \/ StreamClosed(t) \/ TransportClosed(t)
          \/ \E k \in Token : Reauthenticate(t, k)
          \/ Renewed(t) \/ Interrupted(t)

Spec == Init /\ [][Next]_vars

-----------------------------------------------------------------------------
(* Properties. *)

StreamTypeOK ==
    /\ created \in Seq(Stream)
    /\ \A k, l \in DOMAIN created : created[k] = created[l] => k = l
    /\ ended \cup connected \cup behind \cup overtaken \subseteq Created
    /\ held \in [Stream -> Token \cup {NoToken}]
    /\ saved \in [Stream -> Token \cup {NoToken}]
    /\ call \in [Stream -> {"none", "connect", "close", "reclose", "reopen", "auth"}]
    /\ asked \in [Stream -> Token \cup {NoToken}]
    /\ {s \in Stream : call[s] # "none"} \subseteq Created
    /\ \A s \in Stream : call[s] = "auth" <=> asked[s] # NoToken

TaskTypeOK ==
    /\ {shut, closed} \subseteq BOOLEAN
    /\ open \subseteq Transport
    /\ token \in Token \cup {NoToken}
    /\ provided \subseteq Token
    /\ pc \in [Task -> {"idle", "stream", "renew"} \cup Transport]
    /\ at \in [Task -> Int]
    /\ \A t \in Task : at[t] \in IF pc[t] \in {"stream", "renew"} THEN DOMAIN created ELSE {0}
    /\ \A t \in Task : fresh[t] # NoToken <=> pc[t] = "renew"
    /\ fresh \in [Task -> Token \cup {NoToken}]
    /\ alone \in [Task -> BOOLEAN]

\* Types: a stream is created once, a task in a loop is at a place of the list, and a
\* call of the application has a token exactly while it authenticates.
ClientTypeOK == StreamTypeOK /\ TaskTypeOK

(***************************************************************************)
(* A closed client has closed everything: every stream it ever created,    *)
(* those created while it closed included, and both transports, whichever  *)
(* close before that raised, was cancelled or overlapped with another.  No *)
(* stream has a connection left but those that the application was just    *)
(* connecting when they were closed: the code lets these open afterwards.  *)
(***************************************************************************)
ClosedMeansClosed ==
    closed => /\ Created \subseteq ended
              /\ connected \subseteq overtaken
              /\ open = {}
              /\ shut

(***************************************************************************)
(* Every order stream holds the token the client has now, whether it was   *)
(* created before that token or after, and whatever happens to a renewal;  *)
(* except where a login was under way when the token was set, or began     *)
(* with another token since: it stores its own when it is answered.        *)
(***************************************************************************)
StreamsShareTheToken ==
    \A s \in Order \cap Created : held[s] = token \/ s \in behind

(***************************************************************************)
(* A renewal that ends, with no other token set meanwhile, leaves no       *)
(* Market Stream with a session of an older token, also none that was      *)
(* created, authenticated or closed while it ran; except where the         *)
(* application was between two sessions with an older token, reconnecting  *)
(* or authenticating, so that the renewal passed the stream over.          *)
(***************************************************************************)
RenewalReachesStreams ==
    [][\A t \in Task :
          alone[t] /\ pc'[t] = "idle" /\ Renewed(t) =>
             \A s \in Market : held'[s] \in {NoToken, token} \/ s \in behind]_vars

=============================================================================
