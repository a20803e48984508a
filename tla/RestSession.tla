----------------------------- MODULE RestSession -----------------------------
(***************************************************************************)
(* The authenticated REST session of a StandXClient: HttpTransport         *)
(* (transport/http.py), AuthService (auth/service.py) and the client that  *)
(* hands tokens from one to the other and to the streams (client.py).      *)
(* Requests of several tasks share one Authorization header, the expiry    *)
(* recorded for it and one recovery callback, StandXClient.reauthenticate. *)
(*                                                                         *)
(* Concurrency.  A task suspends while it logs in, while the Market        *)
(* Streams authenticate again, while it waits for credits and for the      *)
(* answer of the server.  A call that returns is a task that is idle.      *)
(*                                                                         *)
(* Data.  A token is a value that a login or the application provides      *)
(* once.  Opaque tokens carry no exp; the others expire, which the server  *)
(* and the local clock see at the same time.  Any token may be revoked.    *)
(***************************************************************************)
EXTENDS Naturals

CONSTANTS
    Task,
    Token,          \* bound: the tokens that are ever provided
    Opaque,         \* the tokens without an exp
    NoToken

ASSUME SessionAssumption ==
    /\ Opaque \subseteq Token
    /\ NoToken \notin Token

VARIABLES
    recovers,   \* _auth_recovery is configured: there is a wallet signer
    streams,    \* there are Market Streams to authenticate again, which suspends
    client,     \* the httpx client is open
    closed,     \* _closed
    header,     \* the token of the Authorization header, or NoToken
    expiry,     \* _token_expires_at: the token whose exp is recorded, or NoToken
    authToken,  \* AuthService.token; token_expires_at is its exp
    provided,   \* tokens provided so far
    expired,    \* tokens past their exp
    revoked,    \* tokens the server no longer accepts
    pc,         \* where a task is suspended
    op,         \* the call it is in
    tried,      \* it has had a 401 and may not recover from another
    sent,       \* the token its request was sent with
    renewed,    \* the token its login got
    sends,      \* history: requests its call has sent
    recoveries  \* history: recoveries its call has started

config == <<recovers, streams>>
transport == <<client, closed, header, expiry>>
tokens == <<provided, expired, revoked>>
task == <<pc, op, tried, sent, renewed, sends, recoveries>>
vars == <<config, transport, authToken, tokens, task>>

Init ==
    /\ recovers \in BOOLEAN
    /\ streams \in BOOLEAN
    /\ client = TRUE
    /\ closed = FALSE
    /\ header = NoToken
    /\ expiry = NoToken
    /\ authToken = NoToken
    /\ provided = {}
    /\ expired = {}
    /\ revoked = {}
    /\ pc = [t \in Task |-> "idle"]
    /\ op = [t \in Task |-> "none"]
    /\ tried = [t \in Task |-> FALSE]
    /\ sent = [t \in Task |-> NoToken]
    /\ renewed = [t \in Task |-> NoToken]
    /\ sends = [t \in Task |-> 0]
    /\ recoveries = [t \in Task |-> 0]

-----------------------------------------------------------------------------
(* Tokens. *)

Exp(k) == IF k \in Opaque THEN NoToken ELSE k

\* set_token, and the expiry that is recorded after it.
Install(k, exp) ==
    /\ header' = k
    /\ expiry' = exp

\* Mutant: the expiry of the token before is kept.
InstallKeeping(k) == header' = k /\ UNCHANGED expiry

\* set_token alone forgets the expiry of the token before.
InstallOnly(k) == Install(k, NoToken)

Valid(k) == k \in provided \ (expired \cup revoked)

KnownExpired == expiry \in expired

Provide(k) ==
    /\ k \notin provided
    /\ provided' = provided \cup {k}
    /\ UNCHANGED <<expired, revoked>>

Expire(k) ==
    /\ k \in provided \ (Opaque \cup expired)
    /\ expired' = expired \cup {k}
    /\ UNCHANGED <<config, transport, authToken, provided, revoked, task>>

Revoke(k) ==
    /\ k \in provided \ revoked
    /\ revoked' = revoked \cup {k}
    /\ UNCHANGED <<config, transport, authToken, provided, expired, task>>

\* The application injects a token: set_access_token and _sync_token.
SetAccessToken(k) ==
    /\ Provide(k)
    /\ authToken' = k
    /\ Install(k, Exp(k))
    /\ UNCHANGED <<config, client, closed, task>>

ClearAccessToken ==
    /\ authToken' = NoToken
    /\ InstallOnly(NoToken)
    /\ UNCHANGED <<config, client, closed, tokens, task>>

-----------------------------------------------------------------------------
(* Calls. *)

Goto(t, where) ==
    /\ pc' = [pc EXCEPT ![t] = where]
    /\ UNCHANGED <<op, tried, sent, renewed, sends, recoveries>>

Return(t) ==
    /\ pc' = [pc EXCEPT ![t] = "idle"]
    /\ op' = [op EXCEPT ![t] = "none"]
    /\ tried' = [tried EXCEPT ![t] = FALSE]
    /\ sent' = [sent EXCEPT ![t] = NoToken]
    /\ renewed' = [renewed EXCEPT ![t] = NoToken]
    /\ sends' = [sends EXCEPT ![t] = 0]
    /\ recoveries' = [recoveries EXCEPT ![t] = 0]

\* _ensure_open and _ensure_token_valid of get, get_text and post.
Request(t, call) ==
    /\ pc[t] = "idle"
    /\ ~closed
    /\ KnownExpired => recovers     \* otherwise TOKEN_EXPIRED
    /\ op' = [op EXCEPT ![t] = call]
    /\ pc' = [pc EXCEPT ![t] = IF KnownExpired THEN "login" ELSE "credits"]
    /\ recoveries' = [recoveries EXCEPT ![t] = IF KnownExpired THEN 1 ELSE 0]
    /\ UNCHANGED <<config, transport, authToken, tokens, tried, sent, renewed, sends>>

\* StandXClient.reauthenticate() called by the application.
Reauthenticate(t) ==
    /\ pc[t] = "idle"
    /\ recovers
    /\ pc' = [pc EXCEPT ![t] = "login"]
    /\ op' = [op EXCEPT ![t] = "reauthenticate"]
    /\ UNCHANGED <<config, transport, authToken, tokens, tried, sent, renewed, sends,
                   recoveries>>

\* After a 401 the request is made again from _ensure_open on; set_token has
\* just cleared the expiry, so that _ensure_token_valid finds nothing.
GoOn(t) == IF tried[t] /\ closed THEN Return(t) ELSE Goto(t, "credits")

\* Mutant: the login does not tell the transport its token.
LoginUnsynced(t) ==
    /\ pc[t] = "login"
    /\ \E k \in Token :
          /\ Provide(k)
          /\ authToken' = k
          /\ IF op[t] = "reauthenticate"
             THEN UNCHANGED <<header, expiry>> /\ Return(t)
             ELSE InstallOnly(k) /\ GoOn(t)
    /\ UNCHANGED <<config, client, closed>>

\* AuthService.login() succeeds: _sync_token and set_token_expiry, then the
\* streams.  A recovery without streams goes straight on to its set_token.
Login(t) ==
    /\ pc[t] = "login"
    /\ \E k \in Token :
          /\ Provide(k)
          /\ authToken' = k
          /\ \/ /\ streams
                /\ Install(k, Exp(k))
                /\ pc' = [pc EXCEPT ![t] = "streams"]
                /\ renewed' = [renewed EXCEPT ![t] = k]
                /\ UNCHANGED <<op, tried, sent, sends, recoveries>>
             \/ /\ ~streams /\ op[t] = "reauthenticate"
                /\ Install(k, Exp(k))
                /\ Return(t)
             \/ /\ ~streams /\ op[t] # "reauthenticate"
                /\ InstallOnly(k)
                /\ GoOn(t)
    /\ UNCHANGED <<config, client, closed>>

\* _recover_authentication sets the token again that its login got.
StreamsDone(t) ==
    /\ pc[t] = "streams"
    /\ \/ /\ op[t] = "reauthenticate"
          /\ Return(t)
          /\ UNCHANGED <<header, expiry>>
       \/ /\ op[t] # "reauthenticate"
          /\ InstallOnly(renewed[t])
          /\ GoOn(t)
    /\ UNCHANGED <<config, client, closed, authToken, tokens>>

\* acquire() is over and the request goes out with the header as it is now.
Send(t) ==
    /\ pc[t] = "credits"
    /\ \/ /\ client
          /\ pc' = [pc EXCEPT ![t] = "sending"]
          /\ sent' = [sent EXCEPT ![t] = header]
          /\ sends' = [sends EXCEPT ![t] = @ + 1]
          /\ UNCHANGED <<op, tried, renewed, recoveries>>
       \/ /\ ~client
          /\ Return(t)
    /\ UNCHANGED <<config, transport, authToken, tokens>>

\* Mutant: any request recovers from a 401, a POST as well.
MayRecoverAlways(t) == recovers /\ ~tried[t]

\* A GET recovers from its first 401; get_text and post never do.
MayRecover(t) == op[t] = "get" /\ recovers /\ ~tried[t]

Unauthorized(t) ==
    /\ pc[t] = "sending"
    /\ ~Valid(sent[t])
    /\ MayRecover(t)
    /\ pc' = [pc EXCEPT ![t] = "login"]
    /\ tried' = [tried EXCEPT ![t] = TRUE]
    /\ recoveries' = [recoveries EXCEPT ![t] = @ + 1]
    /\ UNCHANGED <<config, transport, authToken, tokens, op, sent, renewed, sends>>

\* The call ends: the request is answered, the login, the streams or the
\* network fail, a 401 is final, or the task is cancelled.
Ends(t) ==
    /\ pc[t] \notin {"idle", "closing"}
    /\ Return(t)
    /\ UNCHANGED <<config, transport, authToken, tokens>>

-----------------------------------------------------------------------------
(* aclose(): the httpx client refuses requests at once, the transport only *)
(* when the client has closed its connections.                             *)

\* Mutant: httpx is closed only when the transport says so too.
AcloseLate(t) ==
    /\ pc[t] = "idle"
    /\ ~closed
    /\ pc' = [pc EXCEPT ![t] = "closing"]
    /\ op' = [op EXCEPT ![t] = "aclose"]
    /\ UNCHANGED <<config, transport, authToken, tokens, tried, sent, renewed, sends, recoveries>>

Aclose(t) ==
    /\ pc[t] = "idle"
    /\ ~closed
    /\ client' = FALSE
    /\ pc' = [pc EXCEPT ![t] = "closing"]
    /\ op' = [op EXCEPT ![t] = "aclose"]
    /\ UNCHANGED <<config, closed, header, expiry, authToken, tokens, tried, sent, renewed,
                   sends, recoveries>>

Closed(t) ==
    /\ pc[t] = "closing"
    /\ closed' = TRUE
    /\ Return(t)
    /\ UNCHANGED <<config, client, header, expiry, authToken, tokens>>

Next ==
    \/ \E t \in Task :
          \/ \E call \in {"get", "get_text", "post"} : Request(t, call)
          \/ Reauthenticate(t)
          \/ Login(t) \/ StreamsDone(t) \/ Send(t) \/ Unauthorized(t) \/ Ends(t)
          \/ Aclose(t) \/ Closed(t)
    \/ \E k \in Token : SetAccessToken(k) \/ Expire(k) \/ Revoke(k)
    \/ ClearAccessToken

Spec == Init /\ [][Next]_vars

-----------------------------------------------------------------------------
(* Properties. *)

SharedTypeOK ==
    /\ {recovers, streams, client, closed} \subseteq BOOLEAN
    /\ closed => ~client
    /\ {header, expiry, authToken} \subseteq provided \cup {NoToken}
    /\ expired \subseteq provided \ Opaque
    /\ revoked \subseteq provided
    /\ provided \subseteq Token

Place == {"idle", "login", "streams", "credits", "sending", "closing"}

CallTypeOK ==
    /\ pc \in [Task -> Place]
    /\ op \in [Task -> {"none", "get", "get_text", "post", "reauthenticate", "aclose"}]
    /\ tried \in [Task -> BOOLEAN]
    /\ sent \in [Task -> provided \cup {NoToken}]
    /\ renewed \in [Task -> provided \cup {NoToken}]
    /\ sends \in [Task -> Nat]
    /\ recoveries \in [Task -> Nat]

\* Types; a transport that says it is closed has no httpx client any more, and
\* no task works with a token that nobody provided.
TypeOK == SharedTypeOK /\ CallTypeOK

(***************************************************************************)
(* No request is refused, and no login made, for the expiry of a token     *)
(* that is no longer the one in the header: whichever of the logins,       *)
(* recoveries and injected tokens came last, the recorded expiry is that   *)
(* of its token, or none.                                                  *)
(***************************************************************************)
ExpiryIsOfHeader == expiry \in {Exp(header), NoToken}

(***************************************************************************)
(* A mutation reaches the network once per call, whatever the recoveries   *)
(* before and after it: post is never replayed for a 401.  A GET is sent   *)
(* at most twice, and so is never caught in a loop of logins and 401s.     *)
(***************************************************************************)
NothingIsReplayed ==
    \A t \in Task :
        /\ sends[t] <= IF op[t] = "get" THEN 2 ELSE 1
        /\ recoveries[t] <= 2

(***************************************************************************)
(* Without Market Streams requests carry the token AuthService holds,      *)
(* however logins, recoveries and injected tokens interleave: no login is  *)
(* lost and no older token comes back.                                     *)
(***************************************************************************)
LoginReachesRequests == ~streams => header = authToken

(***************************************************************************)
(* What the design document says of a login: the exp is handed to the      *)
(* transport with the token.                                               *)
(***************************************************************************)
ExpiryInSync ==
    (\A t \in Task : pc[t] # "streams") /\ header = authToken /\ header # NoToken
        => expiry = Exp(header)

=============================================================================
