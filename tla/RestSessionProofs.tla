-------------------------- MODULE RestSessionProofs --------------------------
(***************************************************************************)
(* Proofs about RestSession, for any tasks and tokens: types, the expiry   *)
(* that belongs to the header, requests that are not replayed, and logins  *)
(* that reach the requests.                                                *)
(***************************************************************************)
EXTENDS RestSession, TLAPS

-----------------------------------------------------------------------------
(* The invariant.  The bound on what a call sends is not inductive alone:  *)
(* it rests on where the call is and on whether it has had its 401.        *)

\* A call sends once before a 401 and once after it, and only a GET goes on
\* after one; a call that waits has sent nothing since.  Only with Market
\* Streams does a renewal suspend a second time, and only without an httpx
\* client does anybody wait for the transport to close.
CallIsCounted(t) ==
    /\ tried[t] => op[t] = "get" /\ pc[t] # "idle"
    /\ pc[t] = "sending" => sends[t] = IF tried[t] THEN 2 ELSE 1
    /\ pc[t] # "sending" => sends[t] = IF tried[t] THEN 1 ELSE 0
    /\ recoveries[t] <= IF tried[t] THEN 2 ELSE 1
    /\ pc[t] = "streams" => streams
    /\ pc[t] = "closing" => ~client

CallInv == CallTypeOK /\ \A t \in Task : CallIsCounted(t)

SharedInv == SharedTypeOK /\ ExpiryIsOfHeader /\ LoginReachesRequests

RestInv == SharedInv /\ CallInv

LEMMA RestInit == Init => RestInv
<1> SUFFICES ASSUME Init PROVE RestInv
  OBVIOUS
<1>1. SharedInv
  BY SessionAssumption
     DEF Init, SharedInv, SharedTypeOK, ExpiryIsOfHeader, LoginReachesRequests
<1>2. CallTypeOK
  BY DEF Init, CallTypeOK, Place
<1>3. ASSUME NEW t \in Task PROVE CallIsCounted(t)
  BY <1>3 DEF Init, CallIsCounted
<1> QED
  BY <1>1, <1>2, <1>3 DEF RestInv, CallInv

-----------------------------------------------------------------------------
(* The calls.  A step moves one of them; the others keep what they have.   *)

LEMMA OthersKeep ==
    ASSUME CallInv, NEW t \in Task,
           \A u \in Task \ {t} :
              /\ pc'[u] = pc[u] /\ op'[u] = op[u] /\ tried'[u] = tried[u]
              /\ sends'[u] = sends[u] /\ recoveries'[u] = recoveries[u],
           UNCHANGED streams, client' => client,
           CallTypeOK', CallIsCounted(t)'
    PROVE  CallInv'
<1>1. ASSUME NEW u \in Task \ {t} PROVE CallIsCounted(u)'
  BY <1>1 DEF CallInv, CallIsCounted
<1> QED
  BY <1>1 DEF CallInv

LEMMA CallsStay ==
    ASSUME CallInv, UNCHANGED <<task, streams, client>>, provided \subseteq provided'
    PROVE  CallInv'
<1>1. CallTypeOK'
  BY DEF CallInv, CallTypeOK, task
<1>2. ASSUME NEW u \in Task PROVE CallIsCounted(u)'
  BY <1>2 DEF CallInv, CallIsCounted, task
<1> QED
  BY <1>1, <1>2 DEF CallInv

LEMMA ReturnKeeps ==
    ASSUME CallInv, NEW t \in Task, Return(t), UNCHANGED <<streams, client>>,
           provided \subseteq provided'
    PROVE  CallInv'
<1>1. CallTypeOK'
  BY DEF Return, CallInv, CallTypeOK, Place
<1>2. CallIsCounted(t)'
  BY DEF Return, CallInv, CallTypeOK, CallIsCounted
<1> QED
  BY <1>1, <1>2, OthersKeep DEF Return, CallInv, CallTypeOK

\* A call that has sent nothing since its 401, or since it began, goes on.
LEMMA GotoKeeps ==
    ASSUME CallInv, NEW t \in Task, pc[t] # "sending", Goto(t, "credits"),
           UNCHANGED <<streams, client>>, provided \subseteq provided'
    PROVE  CallInv'
<1>1. CallTypeOK'
  BY DEF Goto, CallInv, CallTypeOK, Place
<1>2. CallIsCounted(t)'
  BY DEF Goto, CallInv, CallTypeOK, CallIsCounted
<1> QED
  BY <1>1, <1>2, OthersKeep DEF Goto, CallInv, CallTypeOK

LEMMA GoOnKeeps ==
    ASSUME CallInv, NEW t \in Task, pc[t] # "sending", GoOn(t),
           UNCHANGED <<streams, client>>, provided \subseteq provided'
    PROVE  CallInv'
BY GotoKeeps, ReturnKeeps DEF GoOn

-----------------------------------------------------------------------------
(* What the calls share: the header, its expiry, the token of AuthService. *)

LEMMA SharedStays ==
    ASSUME SharedInv, UNCHANGED <<config, transport, authToken, tokens>>
    PROVE  SharedInv'
BY DEF SharedInv, SharedTypeOK, ExpiryIsOfHeader, LoginReachesRequests, config, transport,
       tokens

\* The token a login or the application provides, with its expiry or without.
LEMMA ProvidedKeeps ==
    ASSUME SharedInv, NEW k \in Token, Provide(k), authToken' = k,
           Install(k, Exp(k)) \/ InstallOnly(k), UNCHANGED <<config, client, closed>>
    PROVE  SharedInv' /\ provided \subseteq provided'
<1>1. header' = k /\ expiry' \in {Exp(k), NoToken}
  BY DEF Install, InstallOnly
<1>2. SharedTypeOK'
  BY <1>1 DEF SharedInv, SharedTypeOK, Provide, config, Exp
<1>3. ExpiryIsOfHeader' /\ LoginReachesRequests'
  BY <1>1 DEF ExpiryIsOfHeader, LoginReachesRequests, Exp
<1> QED
  BY <1>2, <1>3 DEF SharedInv, Provide

-----------------------------------------------------------------------------
(* The steps. *)

LEMMA RequestKeeps ==
    ASSUME RestInv, NEW t \in Task, NEW call \in {"get", "get_text", "post"}, Request(t, call)
    PROVE  RestInv'
<1>1. SharedInv'
  BY SharedStays DEF RestInv, Request
<1>2. CallTypeOK'
  BY DEF Request, RestInv, CallInv, CallTypeOK, Place, tokens
<1>3. CallIsCounted(t)'
  BY DEF Request, RestInv, CallInv, CallTypeOK, CallIsCounted
<1>4. CallInv'
  BY <1>2, <1>3, OthersKeep DEF Request, RestInv, CallInv, CallTypeOK, config, transport
<1> QED
  BY <1>1, <1>4 DEF RestInv

LEMMA ReauthenticateKeeps ==
    ASSUME RestInv, NEW t \in Task, Reauthenticate(t)
    PROVE  RestInv'
<1>1. SharedInv'
  BY SharedStays DEF RestInv, Reauthenticate
<1>2. CallTypeOK'
  BY DEF Reauthenticate, RestInv, CallInv, CallTypeOK, Place, tokens
<1>3. CallIsCounted(t)'
  BY DEF Reauthenticate, RestInv, CallInv, CallTypeOK, CallIsCounted
<1>4. CallInv'
  BY <1>2, <1>3, OthersKeep
     DEF Reauthenticate, RestInv, CallInv, CallTypeOK, config, transport
<1> QED
  BY <1>1, <1>4 DEF RestInv

LEMMA LoginKeeps ==
    ASSUME RestInv, NEW t \in Task, Login(t)
    PROVE  RestInv'
<1>1. PICK k \in Token :
         /\ Provide(k)
         /\ authToken' = k
         /\ \/ /\ streams
               /\ Install(k, Exp(k))
               /\ pc' = [pc EXCEPT ![t] = "streams"]
               /\ renewed' = [renewed EXCEPT ![t] = k]
               /\ UNCHANGED <<op, tried, sent, sends, recoveries>>
            \/ Install(k, Exp(k)) /\ Return(t)
            \/ InstallOnly(k) /\ GoOn(t)
  BY DEF Login
<1>2. pc[t] = "login" /\ UNCHANGED <<config, client, closed>>
  BY DEF Login
<1>3. SharedInv' /\ provided \subseteq provided'
  BY <1>1, <1>2, ProvidedKeeps DEF RestInv
<1>4. UNCHANGED <<streams, client>>
  BY <1>2 DEF config
<1>5. CASE /\ streams
           /\ pc' = [pc EXCEPT ![t] = "streams"]
           /\ renewed' = [renewed EXCEPT ![t] = k]
           /\ UNCHANGED <<op, tried, sent, sends, recoveries>>
  <2>1. k \in provided'
    BY <1>1 DEF Provide
  <2>2. CallTypeOK'
    BY <1>3, <1>5, <2>1 DEF RestInv, CallInv, CallTypeOK, Place
  <2>3. CallIsCounted(t)'
    BY <1>2, <1>4, <1>5 DEF RestInv, CallInv, CallTypeOK, CallIsCounted
  <2>4. CallInv'
    BY <1>4, <1>5, <2>2, <2>3, OthersKeep DEF RestInv, CallInv, CallTypeOK
  <2> QED
    BY <1>3, <2>4 DEF RestInv
<1>6. CASE Return(t)
  BY <1>3, <1>4, <1>6, ReturnKeeps DEF RestInv
<1>7. CASE GoOn(t)
  BY <1>2, <1>3, <1>4, <1>7, GoOnKeeps DEF RestInv
<1> QED
  BY <1>1, <1>5, <1>6, <1>7

\* The token a recovery installs again need not be the newest: with Market
\* Streams another login may have come in between.
LEMMA StreamsDoneKeeps ==
    ASSUME RestInv, NEW t \in Task, StreamsDone(t)
    PROVE  RestInv'
<1>1. /\ pc[t] = "streams"
      /\ UNCHANGED <<config, client, closed, authToken, tokens>>
  BY DEF StreamsDone
<1>2. UNCHANGED <<streams, client, provided>> /\ streams
  BY <1>1 DEF config, tokens, RestInv, CallInv, CallIsCounted
<1>3. \/ Return(t) /\ UNCHANGED <<header, expiry>>
      \/ InstallOnly(renewed[t]) /\ GoOn(t)
  BY DEF StreamsDone
<1>4. CallInv'
  BY <1>1, <1>2, <1>3, ReturnKeeps, GoOnKeeps DEF RestInv
<1>5. /\ header' \in provided \cup {NoToken}
      /\ expiry' = NoToken \/ UNCHANGED <<header, expiry>>
  BY <1>3 DEF InstallOnly, Install, RestInv, SharedInv, SharedTypeOK, CallInv, CallTypeOK
<1>6. SharedTypeOK'
  BY <1>1, <1>5 DEF RestInv, SharedInv, SharedTypeOK, config, tokens
<1>7. ExpiryIsOfHeader' /\ LoginReachesRequests'
  BY <1>2, <1>5 DEF RestInv, SharedInv, ExpiryIsOfHeader, LoginReachesRequests
<1> QED
  BY <1>4, <1>6, <1>7 DEF RestInv, SharedInv

LEMMA SendKeeps ==
    ASSUME RestInv, NEW t \in Task, Send(t)
    PROVE  RestInv'
<1>1. SharedInv'
  BY SharedStays DEF RestInv, Send
<1>2. UNCHANGED <<streams, client, provided>> /\ pc[t] = "credits"
  BY DEF Send, config, transport, tokens
<1>3. CASE Return(t)
  BY <1>1, <1>2, <1>3, ReturnKeeps DEF RestInv
<1>4. CASE /\ pc' = [pc EXCEPT ![t] = "sending"]
           /\ sent' = [sent EXCEPT ![t] = header]
           /\ sends' = [sends EXCEPT ![t] = @ + 1]
           /\ UNCHANGED <<op, tried, renewed, recoveries>>
  <2>2. CallTypeOK'
    BY <1>2, <1>4 DEF RestInv, SharedInv, SharedTypeOK, CallInv, CallTypeOK, Place
  <2>3. CallIsCounted(t)'
    BY <1>2, <1>4 DEF RestInv, CallInv, CallTypeOK, CallIsCounted
  <2>4. CallInv'
    BY <1>2, <1>4, <2>2, <2>3, OthersKeep DEF RestInv, CallInv, CallTypeOK
  <2> QED
    BY <1>1, <2>4 DEF RestInv
<1> QED
  BY <1>3, <1>4 DEF Send

LEMMA UnauthorizedKeeps ==
    ASSUME RestInv, NEW t \in Task, Unauthorized(t)
    PROVE  RestInv'
<1>1. SharedInv'
  BY SharedStays DEF RestInv, Unauthorized
<1>2. CallTypeOK'
  BY DEF Unauthorized, RestInv, CallInv, CallTypeOK, Place, tokens
<1>3. CallIsCounted(t)'
  BY DEF Unauthorized, MayRecover, RestInv, CallInv, CallTypeOK, CallIsCounted
<1>4. CallInv'
  BY <1>2, <1>3, OthersKeep DEF Unauthorized, RestInv, CallInv, CallTypeOK, config, transport
<1> QED
  BY <1>1, <1>4 DEF RestInv

LEMMA AcloseKeeps ==
    ASSUME RestInv, NEW t \in Task, Aclose(t)
    PROVE  RestInv'
<1>1. SharedInv'
  BY DEF Aclose, RestInv, SharedInv, SharedTypeOK, ExpiryIsOfHeader, LoginReachesRequests,
         config, tokens
<1>2. CallTypeOK'
  BY DEF Aclose, RestInv, CallInv, CallTypeOK, Place, tokens
<1>3. CallIsCounted(t)'
  BY DEF Aclose, RestInv, CallInv, CallTypeOK, CallIsCounted
<1>4. CallInv'
  BY <1>2, <1>3, OthersKeep DEF Aclose, RestInv, CallInv, CallTypeOK, config
<1> QED
  BY <1>1, <1>4 DEF RestInv

LEMMA ClosedKeeps ==
    ASSUME RestInv, NEW t \in Task, Closed(t)
    PROVE  RestInv'
<1>1. ~client
  BY DEF Closed, RestInv, CallInv, CallIsCounted
<1>2. SharedInv'
  BY <1>1 DEF Closed, RestInv, SharedInv, SharedTypeOK, ExpiryIsOfHeader,
              LoginReachesRequests, config, tokens
<1>3. CallInv'
  BY ReturnKeeps DEF Closed, RestInv, config, tokens
<1> QED
  BY <1>2, <1>3 DEF RestInv

\* The application and the environment leave the calls alone.
LEMMA TokensKeep ==
    ASSUME RestInv,
           \/ ClearAccessToken
           \/ \E k \in Token : SetAccessToken(k) \/ Expire(k) \/ Revoke(k)
    PROVE  RestInv'
<1>1. SharedInv' /\ provided \subseteq provided'
  <2>1. CASE ClearAccessToken
    BY <2>1 DEF ClearAccessToken, InstallOnly, Install, RestInv, SharedInv, SharedTypeOK,
                ExpiryIsOfHeader, LoginReachesRequests, config, tokens
  <2>2. ASSUME NEW k \in Token, SetAccessToken(k)
        PROVE  SharedInv' /\ provided \subseteq provided'
    BY <2>2, ProvidedKeeps DEF SetAccessToken, RestInv
  <2>3. ASSUME NEW k \in Token, Expire(k) \/ Revoke(k)
        PROVE  SharedInv' /\ provided \subseteq provided'
    BY <2>3 DEF Expire, Revoke, RestInv, SharedInv, SharedTypeOK, ExpiryIsOfHeader,
                LoginReachesRequests, config, transport
  <2> QED
    BY <2>1, <2>2, <2>3
<1>2. UNCHANGED <<task, streams, client>>
  BY DEF ClearAccessToken, SetAccessToken, Expire, Revoke, config, transport
<1> QED
  BY <1>1, <1>2, CallsStay DEF RestInv

LEMMA RestStep == RestInv /\ [Next]_vars => RestInv'
<1> SUFFICES ASSUME RestInv, [Next]_vars PROVE RestInv'
  OBVIOUS
<1>1. ASSUME NEW t \in Task, Ends(t) PROVE RestInv'
  BY <1>1, ReturnKeeps, SharedStays DEF Ends, RestInv, config, transport, tokens
<1>2. CASE UNCHANGED vars
  BY <1>2, CallsStay, SharedStays DEF vars, RestInv, config, transport, tokens
<1> QED
  BY <1>1, <1>2, RequestKeeps, ReauthenticateKeeps, LoginKeeps, StreamsDoneKeeps, SendKeeps,
     UnauthorizedKeeps, AcloseKeeps, ClosedKeeps, TokensKeep
  DEF Next

\* The recorded expiry is that of a header, logins reach the requests, and each
\* call has sent once before its 401 and at most once after it.
THEOREM RestInvariant == Spec => []RestInv
BY RestInit, RestStep, PTL DEF Spec

-----------------------------------------------------------------------------
(* What it says. *)

\* Every variable keeps its type, and a closed transport has no httpx client.
THEOREM RestTypes == Spec => []TypeOK
<1>1. RestInv => TypeOK
  BY DEF RestInv, SharedInv, CallInv, TypeOK
<1> QED
  BY <1>1, RestInvariant, PTL

(***************************************************************************)
(* Whichever login, recovery or injected token came last, the expiry that  *)
(* requests are refused for is that of the token in the header, or none.   *)
(***************************************************************************)
THEOREM ExpiryBelongsToHeader == Spec => []ExpiryIsOfHeader
<1>1. RestInv => ExpiryIsOfHeader
  BY DEF RestInv, SharedInv
<1> QED
  BY <1>1, RestInvariant, PTL

(***************************************************************************)
(* No interleaving of recoveries, expiries and revocations makes post or   *)
(* get_text send twice, or a GET send three times.                         *)
(***************************************************************************)
THEOREM RequestsAreNotReplayed == Spec => []NothingIsReplayed
<1>1. RestInv => NothingIsReplayed
  <2> SUFFICES ASSUME RestInv, NEW t \in Task
               PROVE  /\ sends[t] <= IF op[t] = "get" THEN 2 ELSE 1
                      /\ recoveries[t] <= 2
    BY DEF NothingIsReplayed
  <2>1. CallIsCounted(t) /\ sends[t] \in Nat /\ recoveries[t] \in Nat
    BY DEF RestInv, CallInv, CallTypeOK
  <2>2. sends[t] <= IF op[t] = "get" THEN 2 ELSE 1
    BY <2>1 DEF CallIsCounted
  <2>3. recoveries[t] <= 2
    BY <2>1 DEF CallIsCounted
  <2> QED
    BY <2>2, <2>3
<1> QED
  BY <1>1, RestInvariant, PTL

(***************************************************************************)
(* Without Market Streams a login is one step from the token of the        *)
(* AuthService to the header, and none is lost.                            *)
(***************************************************************************)
THEOREM LoginsReachRequests == Spec => []LoginReachesRequests
<1>1. RestInv => LoginReachesRequests
  BY DEF RestInv, SharedInv
<1> QED
  BY <1>1, RestInvariant, PTL

=============================================================================
