------------------------ MODULE ClientLifecycleProofs ------------------------
(***************************************************************************)
(* Proofs about ClientLifecycle, for every set of tasks, streams and       *)
(* tokens: its types, what a closed client has closed, which token the     *)
(* order streams hold, and which sessions a renewal leaves.                *)
(***************************************************************************)
EXTENDS ClientLifecycle, TLAPS

USE DEF Transport

-----------------------------------------------------------------------------
(* Types. *)

Place == {"none", "connect", "close", "reclose", "reopen", "auth"}

MaybeToken == Token \cup {NoToken}

\* The streams from a place of the list on are streams of the list.
LEMMA CreatedPlaces ==
    ASSUME created \in Seq(Stream), NEW i \in Int, NEW j \in Int
    PROVE  {created[k] : k \in (i..j) \cap DOMAIN created} \subseteq Created
BY DEF Created

\* The calls of the application have their types after a move.
LEMMA MovesTypes ==
    ASSUME StreamTypeOK, NEW s \in Created, NEW place \in Place, NEW k \in MaybeToken,
           place = "auth" <=> k # NoToken, Moves(s, place, k)
    PROVE  /\ call' \in [Stream -> Place]
           /\ asked' \in [Stream -> MaybeToken]
           /\ \A u \in Stream : call'[u] # "none" => u \in Created
           /\ \A u \in Stream : call'[u] = "auth" <=> asked'[u] # NoToken
BY DEF StreamTypeOK, Moves, Place, MaybeToken

\* What End leaves of the types.
LEMMA EndTypes ==
    ASSUME StreamTypeOK, NEW S, S \subseteq Created, End(S)
    PROVE  /\ ended' \subseteq Created
           /\ overtaken' \subseteq Created
           /\ held' \in [Stream -> MaybeToken]
BY DEF StreamTypeOK, End, MaybeToken

\* The streams keep their types in a step that leaves the list and keeps each part.
LEMMA StreamTypesKept ==
    ASSUME StreamTypeOK, created' = created,
           ended' \subseteq Created, connected' \subseteq Created,
           behind' \subseteq Created, overtaken' \subseteq Created,
           held' \in [Stream -> MaybeToken], saved' \in [Stream -> MaybeToken],
           call' \in [Stream -> Place], asked' \in [Stream -> MaybeToken],
           \A u \in Stream : call'[u] # "none" => u \in Created,
           \A u \in Stream : call'[u] = "auth" <=> asked'[u] # NoToken
    PROVE  StreamTypeOK'
<1>1. Created' = Created
  BY DEF Created
<1> QED
  BY <1>1 DEF StreamTypeOK, Place, MaybeToken

\* The parts of StreamTypeOK in the form the lemmas above take them.
LEMMA StreamParts ==
    ASSUME StreamTypeOK
    PROVE  /\ created \in Seq(Stream)
           /\ ended \subseteq Created /\ connected \subseteq Created
           /\ behind \subseteq Created /\ overtaken \subseteq Created
           /\ held \in [Stream -> MaybeToken] /\ saved \in [Stream -> MaybeToken]
           /\ call \in [Stream -> Place] /\ asked \in [Stream -> MaybeToken]
           /\ \A u \in Stream : call[u] # "none" => u \in Created
           /\ \A u \in Stream : call[u] = "auth" <=> asked[u] # NoToken
BY DEF StreamTypeOK, Place, MaybeToken

\* What CloseTransports leaves of the types.
LEMMA CloseTransportsTypes ==
    ASSUME TaskTypeOK, NEW t \in Task, NEW left, left \subseteq Transport,
           CloseTransports(t, left)
    PROVE  /\ open' \subseteq Transport
           /\ closed' \in BOOLEAN
           /\ pc' \in [Task -> {"idle", "stream", "renew"} \cup Transport]
           /\ pc'[t] \in {"idle"} \cup Transport
           /\ \A u \in Task \ {t} : pc'[u] = pc[u]
BY DEF TaskTypeOK, CloseTransports

\* What CloseStreams leaves of the tasks.
LEMMA CloseStreamsTypes ==
    ASSUME TaskTypeOK, created \in Seq(Stream), NEW t \in Task, pc[t] # "renew",
           NEW i \in Int, CloseStreams(t, i), UNCHANGED <<created, tokens, fresh, alone>>
    PROVE  TaskTypeOK'
<1>1. PICK j \in i..(Len(created) + 1) :
        \/ /\ j \in DOMAIN created
           /\ Await(t, j, "stream")
           /\ UNCHANGED <<shut, transports>>
        \/ /\ shut' = TRUE
           /\ at' = [at EXCEPT ![t] = 0]
           /\ CloseTransports(t, open)
  BY DEF CloseStreams
<1>2. j \in Int
  OBVIOUS
<1>3. CASE /\ j \in DOMAIN created
           /\ Await(t, j, "stream")
           /\ UNCHANGED <<shut, transports>>
  BY <1>2, <1>3 DEF Await, transports, tokens, TaskTypeOK
<1>4. CASE /\ shut' = TRUE
           /\ at' = [at EXCEPT ![t] = 0]
           /\ CloseTransports(t, open)
  <2>1. /\ open' \subseteq Transport
        /\ closed' \in BOOLEAN
        /\ pc' \in [Task -> {"idle", "stream", "renew"} \cup Transport]
        /\ pc'[t] \in {"idle"} \cup Transport
        /\ \A u \in Task \ {t} : pc'[u] = pc[u]
    <3>1. open \subseteq Transport
      BY DEF TaskTypeOK
    <3> QED
      BY <1>4, <3>1, CloseTransportsTypes
  <2>2. /\ at' \in [Task -> Int]
        /\ at'[t] = 0
        /\ \A u \in Task \ {t} : at'[u] = at[u]
    BY <1>4 DEF TaskTypeOK
  <2>3. \A u \in Task : /\ at'[u] \in IF pc'[u] \in {"stream", "renew"} THEN DOMAIN created ELSE {0}
                        /\ fresh'[u] # NoToken <=> pc'[u] = "renew"
    <3> SUFFICES ASSUME NEW u \in Task
                 PROVE  /\ at'[u] \in IF pc'[u] \in {"stream", "renew"} THEN DOMAIN created ELSE {0}
                        /\ fresh'[u] # NoToken <=> pc'[u] = "renew"
      OBVIOUS
    <3>1. CASE u = t
      BY <2>1, <2>2, <3>1 DEF TaskTypeOK
    <3>2. CASE u # t
      BY <2>1, <2>2, <3>2 DEF TaskTypeOK
    <3> QED
      BY <3>1, <3>2
  <2> QED
    BY <1>4, <2>1, <2>2, <2>3 DEF TaskTypeOK, tokens
<1> QED
  BY <1>1, <1>3, <1>4

\* What CloseStreams leaves of the streams.
LEMMA CloseStreamsEnds ==
    ASSUME StreamTypeOK, NEW t \in Task, NEW i \in Int, CloseStreams(t, i)
    PROVE  /\ ended' \subseteq Created
           /\ overtaken' \subseteq Created
           /\ held' \in [Stream -> MaybeToken]
<1>1. PICK j \in i..(Len(created) + 1) : End({created[k] : k \in (i..j) \cap DOMAIN created})
  BY DEF CloseStreams
<1>2. created \in Seq(Stream) /\ j \in Int
  BY DEF StreamTypeOK
<1> QED
  BY <1>1, <1>2, CreatedPlaces, EndTypes

\* What RenewStreams leaves of the types.
LEMMA RenewStreamsTypes ==
    ASSUME TaskTypeOK, created \in Seq(Stream), NEW t \in Task, NEW i \in Int, RenewStreams(t, i)
    PROVE  /\ pc' \in [Task -> {"idle", "stream", "renew"} \cup Transport]
           /\ at' \in [Task -> Int]
           /\ \A u \in Task : at'[u] \in IF pc'[u] \in {"stream", "renew"}
                                         THEN DOMAIN created ELSE {0}
           /\ pc'[t] \in {"idle", "renew"}
           /\ \A u \in Task \ {t} : pc'[u] = pc[u] /\ at'[u] = at[u]
<1>1. \/ \E j \in DOMAIN created : Await(t, j, "renew")
      \/ Await(t, 0, "idle")
  BY DEF RenewStreams
<1>3. CASE \E j \in DOMAIN created : Await(t, j, "renew")
  BY <1>3 DEF Await, TaskTypeOK
<1>4. CASE Await(t, 0, "idle")
  BY <1>4 DEF Await, TaskTypeOK
<1> QED
  BY <1>1, <1>3, <1>4

\* A renewal carries its token until it ends, and no other task has one.
LEMMA CarryTypes ==
    ASSUME TaskTypeOK, NEW t \in Task, NEW k \in Token, Carry(t, k),
           \A u \in Task \ {t} : pc'[u] = pc[u]
    PROVE  /\ fresh' \in [Task -> MaybeToken]
           /\ \A u \in Task : fresh'[u] # NoToken <=> pc'[u] = "renew"
BY ClientAssumption DEF TaskTypeOK, Carry, MaybeToken

\* What SetToken leaves of the types.
LEMMA SetTokenTypes ==
    ASSUME StreamTypeOK, NEW k \in Token, NEW other \in [Stream -> MaybeToken],
           SetToken(k, other)
    PROVE  /\ token' = k
           /\ held' \in [Stream -> MaybeToken]
           /\ behind' \subseteq Created
<1>1. behind' \subseteq Created
  <2> SUFFICES ASSUME NEW s \in Late
               PROVE  s \in Created
    BY DEF SetToken
  <2>1. s \in Stream /\ call[s] # "none"
    BY DEF Late, StreamTypeOK
  <2> QED
    BY <2>1, StreamParts
<1> QED
  BY <1>1 DEF SetToken, MaybeToken

\* Forget and Clear keep the type of the sessions.
LEMMA ForgetTypes ==
    ASSUME NEW t \in Task, NEW session \in [Stream -> MaybeToken]
    PROVE  Forget(t, session) \in [Stream -> MaybeToken]
BY DEF Forget, MaybeToken

LEMMA ClearTypes ==
    ASSUME NEW s, NEW session \in [Stream -> MaybeToken]
    PROVE  Clear(s, session) \in [Stream -> MaybeToken]
BY DEF Clear, MaybeToken

\* The tasks keep their types in a step of the application at a stream.
LEMMA TaskTypesKept ==
    ASSUME TaskTypeOK, UNCHANGED <<registry, transports, tokens, tasks, alone>>
    PROVE  TaskTypeOK'
BY DEF TaskTypeOK, registry, transports, tokens, tasks

\* The application's calls keep the types of the streams.
LEMMA CallTypes ==
    ASSUME StreamTypeOK, TaskTypeOK, NEW s \in Stream,
           \/ Connect(s) \/ Connected(s) \/ Reconnect(s) \/ CloseStream(s) \/ Disconnected(s)
           \/ Authenticate(s) \/ Authenticates(s) \/ Raises(s)
    PROVE  StreamTypeOK' /\ UNCHANGED <<registry, transports, tokens, tasks, alone>>
<1>1. /\ created \in Seq(Stream)
      /\ ended \subseteq Created /\ connected \subseteq Created
      /\ behind \subseteq Created /\ overtaken \subseteq Created
      /\ held \in [Stream -> MaybeToken] /\ saved \in [Stream -> MaybeToken]
      /\ call \in [Stream -> Place] /\ asked \in [Stream -> MaybeToken]
      /\ \A u \in Stream : call[u] # "none" => u \in Created
      /\ \A u \in Stream : call[u] = "auth" <=> asked[u] # NoToken
  BY StreamParts
<1>2. NoToken \in MaybeToken /\ NoToken \notin Token /\ token \in MaybeToken
  BY ClientAssumption DEF MaybeToken, TaskTypeOK
<1>3. CASE Connect(s)
  <2>1. /\ s \in Created /\ Moves(s, "connect", NoToken)
        /\ UNCHANGED <<registry, stream, transports, tokens, tasks, history>>
    BY <1>3 DEF Connect
  <2>2. /\ call' \in [Stream -> Place] /\ asked' \in [Stream -> MaybeToken]
        /\ \A u \in Stream : call'[u] # "none" => u \in Created
        /\ \A u \in Stream : call'[u] = "auth" <=> asked'[u] # NoToken
    BY <1>2, <2>1, MovesTypes DEF Place
  <2> QED
    BY <1>1, <2>1, <2>2, StreamTypesKept DEF registry, stream, history
<1>4. CASE Connected(s)
  <2>1. /\ s \in Created
        /\ connected' = connected \cup {s}
        /\ UNCHANGED <<registry, ended, transports, tokens, tasks, history>>
    BY <1>1, <1>4 DEF Connected, Connects
  <2>2. /\ \/ saved[s] # NoToken /\ Moves(s, "auth", saved[s])
           \/ Moves(s, "none", NoToken)
        /\ \/ held' = Clear(s, held) /\ saved' = Clear(s, saved)
           \/ UNCHANGED <<held, saved>>
    BY <1>4 DEF Connected
  <2>3. /\ call' \in [Stream -> Place] /\ asked' \in [Stream -> MaybeToken]
        /\ \A u \in Stream : call'[u] # "none" => u \in Created
        /\ \A u \in Stream : call'[u] = "auth" <=> asked'[u] # NoToken
    <3>1. CASE saved[s] # NoToken /\ Moves(s, "auth", saved[s])
      BY <1>1, <2>1, <3>1, MovesTypes DEF Place
    <3>2. CASE Moves(s, "none", NoToken)
      BY <1>2, <2>1, <3>2, MovesTypes DEF Place
    <3> QED
      BY <2>2, <3>1, <3>2
  <2>4. held' \in [Stream -> MaybeToken] /\ saved' \in [Stream -> MaybeToken]
    BY <1>1, <2>2, ClearTypes
  <2> QED
    BY <1>1, <2>1, <2>3, <2>4, StreamTypesKept DEF registry, history
<1>5. CASE Reconnect(s)
  <2>1. /\ s \in Created
        /\ held' = Clear(s, held)
        /\ Moves(s, IF s \in connected THEN "reclose" ELSE "reopen", NoToken)
        /\ behind' \subseteq behind \cup {s}
        /\ UNCHANGED <<registry, ended, connected, saved, transports, tokens, tasks, alone, overtaken>>
    BY <1>5 DEF Reconnect
  <2>2. /\ call' \in [Stream -> Place] /\ asked' \in [Stream -> MaybeToken]
        /\ \A u \in Stream : call'[u] # "none" => u \in Created
        /\ \A u \in Stream : call'[u] = "auth" <=> asked'[u] # NoToken
    BY <1>2, <2>1, MovesTypes DEF Place
  <2>3. held' \in [Stream -> MaybeToken]
    BY <1>1, <2>1, ClearTypes
  <2> QED
    BY <1>1, <2>1, <2>2, <2>3, StreamTypesKept DEF registry
<1>6. CASE CloseStream(s)
  <2>1. /\ s \in Created
        /\ End({s})
        /\ Moves(s, IF s \in connected THEN "close" ELSE "none", NoToken)
        /\ UNCHANGED <<registry, connected, saved, transports, tokens, tasks, alone, behind>>
    BY <1>6 DEF CloseStream
  <2>2. /\ call' \in [Stream -> Place] /\ asked' \in [Stream -> MaybeToken]
        /\ \A u \in Stream : call'[u] # "none" => u \in Created
        /\ \A u \in Stream : call'[u] = "auth" <=> asked'[u] # NoToken
    BY <1>2, <2>1, MovesTypes DEF Place
  <2>3. /\ ended' \subseteq Created
        /\ overtaken' \subseteq Created
        /\ held' \in [Stream -> MaybeToken]
    BY <2>1, EndTypes
  <2> QED
    BY <1>1, <2>1, <2>2, <2>3, StreamTypesKept DEF registry
<1>7. CASE Disconnected(s)
  <2>1. /\ s \in Created
        /\ connected' = connected \ {s}
        /\ Moves(s, IF call[s] = "reclose" /\ s \notin ended THEN "reopen" ELSE "none", NoToken)
        /\ UNCHANGED <<registry, ended, held, saved, transports, tokens, tasks, history>>
    BY <1>1, <1>7 DEF Disconnected
  <2>2. /\ call' \in [Stream -> Place] /\ asked' \in [Stream -> MaybeToken]
        /\ \A u \in Stream : call'[u] # "none" => u \in Created
        /\ \A u \in Stream : call'[u] = "auth" <=> asked'[u] # NoToken
    BY <1>2, <2>1, MovesTypes DEF Place
  <2> QED
    BY <1>1, <2>1, <2>2, StreamTypesKept DEF registry, history
<1>8. CASE Authenticate(s)
  <2>1. /\ s \in Created
        /\ TokenFor(s) # NoToken
        /\ held' = Clear(s, held) /\ saved' = Clear(s, saved)
        /\ Moves(s, "auth", TokenFor(s)) \/ UNCHANGED calls
        /\ UNCHANGED <<registry, ended, connected, transports, tokens, tasks, history>>
    BY <1>8 DEF Authenticate
  <2>2. TokenFor(s) \in MaybeToken
    BY <1>1, <1>2 DEF TokenFor
  <2>3. /\ call' \in [Stream -> Place] /\ asked' \in [Stream -> MaybeToken]
        /\ \A u \in Stream : call'[u] # "none" => u \in Created
        /\ \A u \in Stream : call'[u] = "auth" <=> asked'[u] # NoToken
    <3>1. CASE Moves(s, "auth", TokenFor(s))
      BY <2>1, <2>2, <3>1, MovesTypes DEF Place
    <3>2. CASE UNCHANGED calls
      BY <1>1, <3>2 DEF calls
    <3> QED
      BY <2>1, <3>1, <3>2
  <2>4. held' \in [Stream -> MaybeToken] /\ saved' \in [Stream -> MaybeToken]
    BY <1>1, <2>1, ClearTypes
  <2> QED
    BY <1>1, <2>1, <2>3, <2>4, StreamTypesKept DEF registry, history
<1>9. CASE Authenticates(s)
  <2>1. /\ s \in Created
        /\ held' = [held EXCEPT ![s] = asked[s]]
        /\ saved' = [saved EXCEPT ![s] = asked[s]] \/ saved' = saved
        /\ Moves(s, "none", NoToken)
        /\ behind' \subseteq behind
        /\ UNCHANGED <<registry, ended, connected, transports, tokens, tasks, alone, overtaken>>
    BY <1>1, <1>9 DEF Authenticates
  <2>2. /\ call' \in [Stream -> Place] /\ asked' \in [Stream -> MaybeToken]
        /\ \A u \in Stream : call'[u] # "none" => u \in Created
        /\ \A u \in Stream : call'[u] = "auth" <=> asked'[u] # NoToken
    BY <1>2, <2>1, MovesTypes DEF Place
  <2>3. held' \in [Stream -> MaybeToken] /\ saved' \in [Stream -> MaybeToken]
    BY <1>1, <2>1
  <2> QED
    BY <1>1, <2>1, <2>2, <2>3, StreamTypesKept DEF registry
<1>10. CASE Raises(s)
  <2>1. /\ s \in Created /\ Moves(s, "none", NoToken)
        /\ UNCHANGED <<registry, stream, transports, tokens, tasks, history>>
    BY <1>1, <1>10 DEF Raises
  <2>2. /\ call' \in [Stream -> Place] /\ asked' \in [Stream -> MaybeToken]
        /\ \A u \in Stream : call'[u] # "none" => u \in Created
        /\ \A u \in Stream : call'[u] = "auth" <=> asked'[u] # NoToken
    BY <1>2, <2>1, MovesTypes DEF Place
  <2> QED
    BY <1>1, <2>1, <2>2, StreamTypesKept DEF registry, stream, history
<1> QED
  BY <1>3, <1>4, <1>5, <1>6, <1>7, <1>8, <1>9, <1>10

(***************************************************************************)
(* The types hold in every state: a stream is registered once, and a task  *)
(* that waits inside a loop is at a place of the list, however the list    *)
(* grows meanwhile.                                                        *)
(***************************************************************************)
THEOREM ClientTypes == Spec => []ClientTypeOK
<1>1. Init => ClientTypeOK
  <2> SUFFICES ASSUME Init
               PROVE  ClientTypeOK
    OBVIOUS
  <2>1. StreamTypeOK
    BY DEF Init, StreamTypeOK, Created
  <2>2. TaskTypeOK
    <3>1. /\ pc \in [Task -> {"idle", "stream", "renew"} \cup Transport]
          /\ at \in [Task -> Int]
          /\ fresh \in [Task -> Token \cup {NoToken}]
          /\ alone \in [Task -> BOOLEAN]
          /\ \A t \in Task : at[t] = 0 /\ pc[t] = "idle" /\ fresh[t] = NoToken
      BY DEF Init
    <3>2. open \subseteq Transport /\ token = NoToken /\ provided = {}
      BY DEF Init
    <3>3. {shut, closed} \subseteq BOOLEAN
      BY DEF Init
    <3> QED
      BY <3>1, <3>2, <3>3 DEF TaskTypeOK
  <2> QED
    BY <2>1, <2>2 DEF ClientTypeOK
<1>2. ClientTypeOK /\ [Next]_vars => ClientTypeOK'
  <2> SUFFICES ASSUME StreamTypeOK, TaskTypeOK, [Next]_vars
               PROVE  StreamTypeOK' /\ TaskTypeOK'
    BY DEF ClientTypeOK
  <2>0. /\ created \in Seq(Stream)
        /\ ended \subseteq Created /\ connected \subseteq Created
        /\ behind \subseteq Created /\ overtaken \subseteq Created
        /\ held \in [Stream -> MaybeToken] /\ saved \in [Stream -> MaybeToken]
        /\ call \in [Stream -> Place] /\ asked \in [Stream -> MaybeToken]
        /\ \A u \in Stream : call[u] # "none" => u \in Created
        /\ \A u \in Stream : call[u] = "auth" <=> asked[u] # NoToken
    BY StreamParts
  <2>1. ASSUME NEW s \in Stream, MakeStream(s)
        PROVE  StreamTypeOK' /\ TaskTypeOK'
    <3>1. /\ created' = Append(created, s)
          /\ s \notin Created
          /\ held' = [held EXCEPT ![s] = FirstToken(s)]
          /\ UNCHANGED <<shut, ended, connected, saved, calls, transports, tokens, tasks, history>>
      BY <2>1 DEF MakeStream
    <3>2. /\ created' \in Seq(Stream)
          /\ DOMAIN created' = 1..(Len(created) + 1)
          /\ DOMAIN created = 1..Len(created)
          /\ Len(created) \in Nat
          /\ created'[Len(created) + 1] = s
          /\ \A k \in 1..Len(created) : created'[k] = created[k]
      BY <2>0, <3>1
    <3>3. \A k, l \in DOMAIN created' : created'[k] = created'[l] => k = l
      BY <3>1, <3>2 DEF StreamTypeOK, Created
    <3>4. Created \subseteq Created'
      BY <3>2 DEF Created
    <3>5. held' \in [Stream -> MaybeToken]
      BY <2>0, <3>1 DEF FirstToken, TaskTypeOK, MaybeToken
    <3>6. StreamTypeOK'
      BY <3>1, <3>2, <3>3, <3>4, <3>5 DEF StreamTypeOK, calls, history, MaybeToken
    <3>7. \A t \in Task : at'[t] \in IF pc'[t] \in {"stream", "renew"} THEN DOMAIN created' ELSE {0}
      BY <3>1, <3>2 DEF TaskTypeOK, tasks
    <3>8. TaskTypeOK'
      BY <3>1, <3>7 DEF TaskTypeOK, tasks, transports, tokens, history
    <3> QED
      BY <3>6, <3>8
  <2>2. ASSUME NEW s \in Stream,
               \/ Connect(s) \/ Connected(s) \/ Reconnect(s) \/ CloseStream(s) \/ Disconnected(s)
               \/ Authenticate(s) \/ Authenticates(s) \/ Raises(s)
        PROVE  StreamTypeOK' /\ TaskTypeOK'
    BY <2>2, CallTypes, TaskTypesKept
  <2>3. ASSUME NEW k \in Token, SetAccessToken(k)
        PROVE  StreamTypeOK' /\ TaskTypeOK'
    <3>1. /\ SetToken(k, held)
          /\ provided' = provided \cup {k}
          /\ alone' = [t \in Task |-> FALSE]
          /\ UNCHANGED <<registry, ended, connected, saved, calls, transports, tasks, overtaken>>
      BY <2>3 DEF SetAccessToken
    <3>2. token' = k /\ held' \in [Stream -> MaybeToken] /\ behind' \subseteq Created
      BY <2>0, <3>1, SetTokenTypes
    <3>3. StreamTypeOK'
      BY <2>0, <3>1, <3>2, StreamTypesKept DEF registry, calls
    <3>4. TaskTypeOK'
      BY <3>1, <3>2 DEF TaskTypeOK, registry, transports, tasks
    <3> QED
      BY <3>3, <3>4
  <2>4. ASSUME NEW t \in Task, CloseAsync(t)
        PROVE  StreamTypeOK' /\ TaskTypeOK'
    <3>1. pc[t] = "idle" /\ UNCHANGED <<created, calls, tokens, fresh, alone, behind>>
      BY <2>4 DEF CloseAsync
    <3>2. CASE CloseStreams(t, 1) /\ UNCHANGED <<connected, saved>>
      <4>1. TaskTypeOK'
        BY <2>0, <3>1, <3>2, CloseStreamsTypes
      <4>2. ended' \subseteq Created /\ overtaken' \subseteq Created /\ held' \in [Stream -> MaybeToken]
        BY <3>2, CloseStreamsEnds
      <4> QED
        BY <2>0, <3>1, <3>2, <4>1, <4>2, StreamTypesKept DEF calls
    <3>3. CASE CloseTransports(t, open) /\ UNCHANGED <<shut, stream, at, overtaken>>
      <4>1. /\ open' \subseteq Transport
            /\ closed' \in BOOLEAN
            /\ pc' \in [Task -> {"idle", "stream", "renew"} \cup Transport]
            /\ pc'[t] \in {"idle"} \cup Transport
            /\ \A u \in Task \ {t} : pc'[u] = pc[u]
        <5>1. open \subseteq Transport
          BY DEF TaskTypeOK
        <5> QED
          BY <3>3, <5>1, CloseTransportsTypes
      <4>2. at[t] = 0 /\ fresh[t] = NoToken
        BY <3>1 DEF TaskTypeOK
      <4>3. TaskTypeOK'
        BY <3>1, <3>3, <4>1, <4>2 DEF TaskTypeOK, tokens
      <4>4. StreamTypeOK'
        BY <2>0, <3>1, <3>3, StreamTypesKept DEF calls, stream
      <4> QED
        BY <4>3, <4>4
    <3> QED
      BY <2>4, <3>2, <3>3 DEF CloseAsync
  <2>5. ASSUME NEW t \in Task, StreamClosed(t)
        PROVE  StreamTypeOK' /\ TaskTypeOK'
    <3>1. /\ pc[t] = "stream" /\ at[t] + 1 \in Int
          /\ connected' \subseteq connected
          /\ CloseStreams(t, at[t] + 1)
          /\ UNCHANGED <<created, saved, calls, tokens, fresh, alone, behind>>
      BY <2>5 DEF StreamClosed, TaskTypeOK
    <3>2. TaskTypeOK'
      BY <2>0, <3>1, CloseStreamsTypes
    <3>3. ended' \subseteq Created /\ overtaken' \subseteq Created /\ held' \in [Stream -> MaybeToken]
      BY <3>1, CloseStreamsEnds
    <3> QED
      BY <2>0, <3>1, <3>2, <3>3, StreamTypesKept DEF calls
  <2>6. ASSUME NEW t \in Task, TransportClosed(t)
        PROVE  StreamTypeOK' /\ TaskTypeOK'
    <3>1. /\ pc[t] \in Transport
          /\ CloseTransports(t, open \ {pc[t]})
          /\ UNCHANGED <<registry, stream, calls, tokens, at, fresh, history>>
      BY <2>6 DEF TransportClosed
    <3>2. open \ {pc[t]} \subseteq Transport /\ at[t] = 0 /\ fresh[t] = NoToken
      BY <3>1 DEF TaskTypeOK
    <3>3. /\ open' \subseteq Transport
          /\ closed' \in BOOLEAN
          /\ pc' \in [Task -> {"idle", "stream", "renew"} \cup Transport]
          /\ pc'[t] \in {"idle"} \cup Transport
          /\ \A u \in Task \ {t} : pc'[u] = pc[u]
      BY <3>1, <3>2, CloseTransportsTypes
    <3>4. TaskTypeOK'
      BY <3>1, <3>2, <3>3 DEF TaskTypeOK, registry, tokens, history
    <3>5. StreamTypeOK'
      BY <2>0, <3>1, StreamTypesKept DEF registry, stream, calls, history
    <3> QED
      BY <3>4, <3>5
  <2>7. ASSUME NEW t \in Task, NEW k \in Token, Reauthenticate(t, k)
        PROVE  StreamTypeOK' /\ TaskTypeOK'
    <3>1. /\ provided' = provided \cup {k}
          /\ RenewStreams(t, 1)
          /\ SetToken(k, Forget(t, held))
          /\ saved' = Forget(t, saved)
          /\ Carry(t, k)
          /\ alone' \in [Task -> BOOLEAN]
          /\ UNCHANGED <<registry, ended, connected, calls, transports, overtaken>>
      BY <2>7 DEF Reauthenticate
    <3>2. /\ pc' \in [Task -> {"idle", "stream", "renew"} \cup Transport]
          /\ at' \in [Task -> Int]
          /\ \A u \in Task : at'[u] \in IF pc'[u] \in {"stream", "renew"}
                                        THEN DOMAIN created ELSE {0}
          /\ \A u \in Task \ {t} : pc'[u] = pc[u]
      BY <2>0, <3>1, RenewStreamsTypes
    <3>3. fresh' \in [Task -> MaybeToken] /\ \A u \in Task : fresh'[u] # NoToken <=> pc'[u] = "renew"
      BY <3>1, <3>2, CarryTypes
    <3>4. Forget(t, held) \in [Stream -> MaybeToken] /\ saved' \in [Stream -> MaybeToken]
      BY <2>0, <3>1, ForgetTypes
    <3>5. token' = k /\ held' \in [Stream -> MaybeToken] /\ behind' \subseteq Created
      BY <3>1, <3>4, SetTokenTypes
    <3>6. StreamTypeOK'
      BY <2>0, <3>1, <3>4, <3>5, StreamTypesKept DEF registry, calls
    <3>7. TaskTypeOK'
      BY <3>1, <3>2, <3>3, <3>5 DEF TaskTypeOK, registry, transports, MaybeToken
    <3> QED
      BY <3>6, <3>7
  <2>8. ASSUME NEW t \in Task, Renewed(t)
        PROVE  StreamTypeOK' /\ TaskTypeOK'
    <3>1. /\ pc[t] = "renew" /\ at[t] + 1 \in Int
          /\ RenewStreams(t, at[t] + 1)
          /\ held' = Forget(t, [held EXCEPT ![created[at[t]]] = fresh[t]])
          /\ saved' = Forget(t, [saved EXCEPT ![created[at[t]]] = fresh[t]])
          /\ Carry(t, fresh[t])
          /\ alone' = [alone EXCEPT ![t] = @ /\ pc'[t] = "renew"]
          /\ UNCHANGED <<registry, ended, connected, calls, transports, tokens, behind, overtaken>>
      BY <2>8 DEF Renewed, TaskTypeOK
    <3>2. /\ pc' \in [Task -> {"idle", "stream", "renew"} \cup Transport]
          /\ at' \in [Task -> Int]
          /\ \A u \in Task : at'[u] \in IF pc'[u] \in {"stream", "renew"}
                                        THEN DOMAIN created ELSE {0}
          /\ \A u \in Task \ {t} : pc'[u] = pc[u]
      BY <2>0, <3>1, RenewStreamsTypes
    <3>3. fresh[t] \in Token
      BY <3>1 DEF TaskTypeOK
    <3>4. fresh' \in [Task -> MaybeToken] /\ \A u \in Task : fresh'[u] # NoToken <=> pc'[u] = "renew"
      BY <3>1, <3>2, <3>3, CarryTypes
    <3>5. /\ [held EXCEPT ![created[at[t]]] = fresh[t]] \in [Stream -> MaybeToken]
          /\ [saved EXCEPT ![created[at[t]]] = fresh[t]] \in [Stream -> MaybeToken]
      BY <2>0, <3>3 DEF MaybeToken
    <3>6. held' \in [Stream -> MaybeToken] /\ saved' \in [Stream -> MaybeToken]
      BY <3>1, <3>5, ForgetTypes
    <3>7. StreamTypeOK'
      BY <2>0, <3>1, <3>6, StreamTypesKept DEF registry, calls
    <3>8. alone' \in [Task -> BOOLEAN]
      BY <3>1 DEF TaskTypeOK
    <3>9. TaskTypeOK'
      BY <3>1, <3>2, <3>4, <3>8 DEF TaskTypeOK, registry, transports, tokens, MaybeToken
    <3> QED
      BY <3>7, <3>9
  <2>9. ASSUME NEW t \in Task, Interrupted(t)
        PROVE  StreamTypeOK' /\ TaskTypeOK'
    <3>1. /\ Await(t, 0, "idle")
          /\ Carry(t, NoToken)
          /\ alone' = [alone EXCEPT ![t] = FALSE]
          /\ UNCHANGED <<registry, stream, calls, transports, tokens, behind, overtaken>>
      BY <2>9 DEF Interrupted
    <3>2. TaskTypeOK'
      BY <3>1 DEF TaskTypeOK, Await, Carry, registry, transports, tokens
    <3>3. StreamTypeOK'
      BY <2>0, <3>1, StreamTypesKept DEF registry, stream, calls
    <3> QED
      BY <3>2, <3>3
  <2>10. CASE UNCHANGED vars
    <3>1. UNCHANGED <<registry, stream, calls, transports, tokens, tasks, history>>
      BY <2>10 DEF vars
    <3>2. StreamTypeOK'
      BY <2>0, <3>1, StreamTypesKept DEF registry, stream, calls, history
    <3> QED
      BY <3>1, <3>2, TaskTypesKept DEF history
  <2> QED
    BY <2>1, <2>2, <2>3, <2>4, <2>5, <2>6, <2>7, <2>8, <2>9, <2>10 DEF Next
<1> QED
  BY <1>1, <1>2, PTL DEF Spec

-----------------------------------------------------------------------------
(* A closed client. *)

(***************************************************************************)
(* What makes ClosedMeansClosed inductive: a closing task leaves closed    *)
(* streams behind it, with no connection but one that was being opened     *)
(* when the stream was closed; an ended stream has no other call that      *)
(* connects; once the registry is shut there is no other stream; the       *)
(* transports come after it.                                               *)
(***************************************************************************)
Passed(t) ==
    /\ \A k \in 1..(at[t] - 1) : /\ created[k] \in ended
                                 /\ created[k] \in connected => created[k] \in overtaken
    /\ created[at[t]] \in ended

Closing(t) ==
    /\ pc[t] = "stream" => Passed(t)
    /\ pc[t] \in Transport => shut
    /\ pc[t] = "auth" => "http" \notin open

ClosingInv ==
    /\ \A s \in Stream : s \in ended /\ Connects(s) => s \in overtaken
    /\ shut => Created \subseteq ended /\ connected \subseteq overtaken
    /\ \A t \in Task : Closing(t)
    /\ closed => shut /\ open = {}

\* What is closed and overtaken stays so, and no call but an overtaken one opens a
\* connection of a closed stream.
Keeps ==
    /\ ended \subseteq ended'
    /\ overtaken \subseteq overtaken'
    /\ connected' \subseteq Created
    /\ \A s \in ended : s \in connected' => s \in connected \cup overtaken
    /\ \A s \in Stream : s \in ended' /\ Connects(s)' => s \in overtaken'

\* A task that waits for no stream it closes preserves what the closing tasks rely on.
LEMMA ClosingKept ==
    ASSUME ClosingInv, Keeps, UNCHANGED <<created, shut, open, closed>>,
           \A u \in Task : \/ pc'[u] = pc[u] /\ at'[u] = at[u]
                           \/ pc'[u] \in {"idle", "renew"}
    PROVE  ClosingInv'
<1>1. ASSUME NEW u \in Task
      PROVE  Closing(u)'
  <2>1. CASE pc'[u] = pc[u] /\ at'[u] = at[u]
    <3>1. ASSUME pc[u] = "stream"
          PROVE  Passed(u)'
      <4>1. Passed(u)
        BY <3>1 DEF ClosingInv, Closing
      <4> QED
        BY <2>1, <4>1 DEF Passed, Keeps
    <3> QED
      BY <2>1, <3>1 DEF ClosingInv, Closing
  <2>2. CASE pc'[u] \in {"idle", "renew"}
    BY <2>2 DEF Closing
  <2> QED
    BY <2>1, <2>2
<1>2. ASSUME shut
      PROVE  Created \subseteq ended' /\ connected' \subseteq overtaken'
  <2>1. Created \subseteq ended /\ connected \subseteq overtaken
    BY <1>2 DEF ClosingInv
  <2> QED
    BY <2>1 DEF Keeps
<1>3. Created' = Created
  BY DEF Created
<1> QED
  BY <1>1, <1>2, <1>3 DEF ClosingInv, Keeps

\* The application's calls open no connection of a closed stream but an overtaken one.
LEMMA CallsKeep ==
    ASSUME ClientTypeOK, ClosingInv, NEW s \in Stream,
           \/ Connect(s) \/ Connected(s) \/ Reconnect(s) \/ CloseStream(s) \/ Disconnected(s)
           \/ Authenticate(s) \/ Authenticates(s) \/ Raises(s)
    PROVE  Keeps /\ UNCHANGED <<created, shut, open, closed, pc, at>>
<1>1. /\ connected \subseteq Created
      /\ call \in [Stream -> Place]
      /\ \A u \in Stream : call[u] # "none" => u \in Created
  BY StreamParts DEF ClientTypeOK
<1>2. \A u \in Stream : u \in ended /\ call[u] \in {"connect", "reopen"} => u \in overtaken
  BY DEF ClosingInv, Connects
<1>3. UNCHANGED <<created, shut, open, closed, pc, at>>
  BY CallTypes DEF ClientTypeOK, registry, transports, tasks
<1>4. /\ ended \subseteq ended'
      /\ overtaken \subseteq overtaken'
      /\ connected' \subseteq Created
      /\ \A u \in ended : u \in connected' => u \in connected \cup overtaken
  <2>1. CASE Connect(s) \/ Raises(s)
    BY <1>1, <2>1 DEF Connect, Raises, stream, history
  <2>2. CASE Connected(s)
    BY <1>1, <1>2, <2>2 DEF Connected, Connects, history
  <2>3. CASE Reconnect(s) \/ Authenticate(s) \/ Authenticates(s)
    BY <1>1, <2>3 DEF Reconnect, Authenticate, Authenticates, history
  <2>4. CASE CloseStream(s)
    BY <1>1, <2>4 DEF CloseStream, End
  <2>5. CASE Disconnected(s)
    BY <1>1, <2>5 DEF Disconnected, history
  <2> QED
    BY <2>1, <2>2, <2>3, <2>4, <2>5
<1>5. ASSUME NEW u \in Stream, u \in ended', call'[u] \in {"connect", "reopen"}
      PROVE  u \in overtaken'
  <2>1. CASE Connect(s)
    BY <1>1, <1>2, <1>5, <2>1 DEF Connect, Moves, stream, history
  <2>2. CASE Connected(s)
    BY <1>1, <1>2, <1>5, <2>2 DEF Connected, Moves, history
  <2>3. CASE Reconnect(s)
    BY <1>1, <1>2, <1>5, <2>3 DEF Reconnect, Moves
  <2>4. CASE CloseStream(s)
    BY <1>1, <1>2, <1>5, <2>4 DEF CloseStream, End, Moves
  <2>5. CASE Disconnected(s)
    BY <1>1, <1>2, <1>5, <2>5 DEF Disconnected, Moves, history
  <2>6. CASE Authenticate(s)
    BY <1>1, <1>2, <1>5, <2>6 DEF Authenticate, Moves, calls, history
  <2>7. CASE Authenticates(s) \/ Raises(s)
    BY <1>1, <1>2, <1>5, <2>7 DEF Authenticates, Raises, Moves, stream, history
  <2> QED
    BY <2>1, <2>2, <2>3, <2>4, <2>5, <2>6, <2>7
<1> QED
  BY <1>3, <1>4, <1>5 DEF Keeps, Connects

\* A closed stream has no call that connects but an overtaken one, also after End.
LEMMA EndKeeps ==
    ASSUME ClosingInv, NEW S, End(S), UNCHANGED calls
    PROVE  /\ ended \subseteq ended' /\ S \subseteq ended'
           /\ overtaken \subseteq overtaken'
           /\ \A s \in Stream : s \in ended' /\ Connects(s)' => s \in overtaken'
BY DEF ClosingInv, End, Connects, calls

\* The last part of a close, from CloseTransports on.
LEMMA CloseTransportsSafe ==
    ASSUME ClientTypeOK, ClosingInv, NEW t \in Task, NEW left, CloseTransports(t, left),
           left \subseteq open, shut', created' = created, at'[t] = 0,
           \A u \in Task \ {t} : at'[u] = at[u],
           Keeps, Created \subseteq ended', connected' \subseteq overtaken'
    PROVE  ClosingInv'
<1>1. /\ open' = left
      /\ pc'[t] \in {"idle"} \cup Transport
      /\ pc'[t] = "auth" => "http" \notin left
      /\ \A u \in Task \ {t} : pc'[u] = pc[u]
      /\ closed' => closed \/ left = {}
  BY DEF CloseTransports, ClientTypeOK, TaskTypeOK
<1>2. ASSUME NEW u \in Task
      PROVE  Closing(u)'
  <2>1. CASE u = t
    BY <1>1, <2>1 DEF Closing
  <2>2. CASE u # t
    <3>1. ASSUME pc[u] = "stream"
          PROVE  Passed(u)'
      BY <2>2, <3>1 DEF ClosingInv, Closing, Passed, Keeps
    <3> QED
      BY <1>1, <2>2, <3>1 DEF ClosingInv, Closing
  <2> QED
    BY <2>1, <2>2
<1>3. Created' = Created
  BY DEF Created
<1> QED
  BY <1>1, <1>2, <1>3 DEF ClosingInv, Keeps

\* A closing task that goes on from place i leaves nothing open behind it.
LEMMA CloseStreamsSafe ==
    ASSUME ClientTypeOK, ClosingInv, NEW t \in Task, NEW i \in Int, i >= 1, CloseStreams(t, i),
           UNCHANGED <<created, calls>>, connected' \subseteq connected,
           \A k \in 1..(i - 1) : /\ created[k] \in ended
                                 /\ created[k] \in connected' => created[k] \in overtaken
    PROVE  ClosingInv'
<1>0. /\ created \in Seq(Stream)
      /\ DOMAIN created = 1..Len(created)
      /\ Len(created) \in Nat
      /\ connected \subseteq Created
      /\ at \in [Task -> Int]
      /\ pc \in [Task -> {"idle", "stream", "renew"} \cup Transport]
  BY DEF ClientTypeOK, StreamTypeOK, TaskTypeOK
<1>1. PICK j \in i..(Len(created) + 1) :
        /\ \A k \in i..(j - 1) : created[k] \notin connected
        /\ End({created[k] : k \in (i..j) \cap DOMAIN created})
        /\ \/ /\ j \in DOMAIN created
              /\ created[j] \in connected
              /\ Await(t, j, "stream")
              /\ UNCHANGED <<shut, transports>>
           \/ /\ j = Len(created) + 1
              /\ shut' = TRUE
              /\ at' = [at EXCEPT ![t] = 0]
              /\ CloseTransports(t, open)
  BY DEF CloseStreams
<1>2. /\ {created[k] : k \in (i..j) \cap DOMAIN created} \subseteq ended'
      /\ Keeps
  <2>1. UNCHANGED calls
    OBVIOUS
  <2> QED
    BY <1>0, <1>1, <2>1, EndKeeps DEF Keeps
<1>3. \A k \in 1..(j - 1) : /\ created[k] \in ended'
                            /\ created[k] \in connected' => created[k] \in overtaken'
  <2> SUFFICES ASSUME NEW k \in 1..(j - 1)
               PROVE  /\ created[k] \in ended'
                      /\ created[k] \in connected' => created[k] \in overtaken'
    OBVIOUS
  <2>1. CASE k < i
    BY <1>2, <2>1 DEF Keeps
  <2>2. CASE k >= i
    BY <1>0, <1>1, <1>2, <2>2
  <2> QED
    BY <2>1, <2>2
<1>4. CASE /\ j \in DOMAIN created
           /\ Await(t, j, "stream")
           /\ UNCHANGED <<shut, transports>>
  <2>1. /\ at'[t] = j
        /\ pc'[t] = "stream"
        /\ \A u \in Task \ {t} : at'[u] = at[u] /\ pc'[u] = pc[u]
    BY <1>0, <1>4 DEF Await
  <2>2. created[j] \in ended'
    BY <1>1, <1>2, <1>4
  <2>3. ASSUME NEW u \in Task
        PROVE  Closing(u)'
    <3>1. CASE u = t
      BY <1>3, <2>1, <2>2, <3>1 DEF Closing, Passed
    <3>2. CASE u # t
      <4>1. ASSUME pc[u] = "stream"
            PROVE  Passed(u)'
        BY <1>2, <2>1, <3>2, <4>1 DEF ClosingInv, Closing, Passed, Keeps
      <4> QED
        BY <1>4, <2>1, <3>2, <4>1 DEF Closing, ClosingInv, transports
    <3> QED
      BY <3>1, <3>2
  <2>4. shut' => Created' \subseteq ended' /\ connected' \subseteq overtaken'
    BY <1>2, <1>4 DEF ClosingInv, Created, Keeps
  <2> QED
    BY <1>2, <1>4, <2>3, <2>4 DEF ClosingInv, transports, Keeps
<1>5. CASE /\ j = Len(created) + 1
           /\ shut' = TRUE
           /\ at' = [at EXCEPT ![t] = 0]
           /\ CloseTransports(t, open)
  <2>1. Created \subseteq ended' /\ connected' \subseteq overtaken'
    <3>1. ASSUME NEW s \in Created
          PROVE  s \in ended' /\ (s \in connected' => s \in overtaken')
      BY <1>0, <1>3, <1>5, <3>1 DEF Created
    <3> QED
      BY <1>0, <3>1
  <2>2. at'[t] = 0 /\ \A u \in Task \ {t} : at'[u] = at[u]
    BY <1>0, <1>5
  <2> QED
    BY <1>2, <1>5, <2>1, <2>2, CloseTransportsSafe
<1> QED
  BY <1>1, <1>4, <1>5

(***************************************************************************)
(* A closed client has closed everything, and has no connection but those  *)
(* it was overtaken on, for any number of tasks that close it, of streams, *)
(* of calls under way and of interruptions: from ClosingInv, which an      *)
(* interrupted close preserves because it leaves the registry open.        *)
(***************************************************************************)
THEOREM ClientCloses == Spec => []ClosedMeansClosed
<1>1. Init => ClosingInv
  BY DEF Init, ClosingInv, Closing, Created
<1>2. ClientTypeOK /\ ClosingInv /\ [Next]_vars => ClosingInv'
  <2> SUFFICES ASSUME ClientTypeOK, ClosingInv, [Next]_vars
               PROVE  ClosingInv'
    OBVIOUS
  <2>0. /\ created \in Seq(Stream)
        /\ DOMAIN created = 1..Len(created)
        /\ Len(created) \in Nat
        /\ connected \subseteq Created
        /\ at \in [Task -> Int]
        /\ pc \in [Task -> {"idle", "stream", "renew"} \cup Transport]
        /\ \A t \in Task : pc[t] \in {"stream", "renew"} => at[t] \in DOMAIN created
        /\ StreamTypeOK /\ TaskTypeOK
    BY DEF ClientTypeOK, StreamTypeOK, TaskTypeOK
  <2>k. ASSUME UNCHANGED <<created, ended, connected, calls, overtaken>>
        PROVE  Keeps
    BY <2>0, <2>k DEF Keeps, ClosingInv, Connects, calls
  <2>1. ASSUME NEW s \in Stream, MakeStream(s)
        PROVE  ClosingInv'
    <3>1. /\ ~shut
          /\ created' = Append(created, s)
          /\ UNCHANGED <<shut, ended, connected, call, overtaken, open, closed, pc, at>>
      BY <2>1 DEF MakeStream, MayMake, transports, calls, tasks, history
    <3>2. \A k \in DOMAIN created : created'[k] = created[k]
      BY <2>0, <3>1
    <3>3. ASSUME NEW t \in Task
          PROVE  Closing(t)'
      BY <2>0, <3>1, <3>2 DEF Closing, Passed, ClosingInv
    <3> QED
      BY <3>1, <3>3 DEF ClosingInv, Connects
  <2>2. ASSUME NEW s \in Stream,
               \/ Connect(s) \/ Connected(s) \/ Reconnect(s) \/ CloseStream(s) \/ Disconnected(s)
               \/ Authenticate(s) \/ Authenticates(s) \/ Raises(s)
        PROVE  ClosingInv'
    <3>1. Keeps /\ UNCHANGED <<created, shut, open, closed, pc, at>>
      BY <2>2, CallsKeep
    <3> QED
      BY <3>1, ClosingKept
  <2>3. ASSUME NEW k \in Token, SetAccessToken(k)
        PROVE  ClosingInv'
    BY <2>3, <2>k, ClosingKept DEF SetAccessToken, registry, transports, tasks
  <2>4. ASSUME NEW t \in Task, CloseAsync(t)
        PROVE  ClosingInv'
    <3>1. UNCHANGED <<created, calls>>
      BY <2>4 DEF CloseAsync
    <3>2. CASE CloseStreams(t, 1) /\ UNCHANGED <<connected, saved>>
      BY <3>1, <3>2, CloseStreamsSafe
    <3>3. CASE shut /\ CloseTransports(t, open) /\ UNCHANGED <<shut, stream, at, overtaken>>
      <4>1. at[t] = 0
        BY <2>4 DEF CloseAsync, ClientTypeOK, TaskTypeOK
      <4>2. Keeps
        BY <2>k, <3>1, <3>3 DEF stream
      <4> QED
        BY <3>1, <3>3, <4>1, <4>2, CloseTransportsSafe DEF ClosingInv, stream
    <3> QED
      BY <2>4, <3>2, <3>3 DEF CloseAsync
  <2>5. ASSUME NEW t \in Task, StreamClosed(t)
        PROVE  ClosingInv'
    <3>1. /\ pc[t] = "stream"
          /\ connected' = connected \ {created[at[t]]}
          /\ CloseStreams(t, at[t] + 1)
          /\ UNCHANGED <<created, calls>>
      BY <2>5 DEF StreamClosed
    <3>2. at[t] \in Int /\ at[t] >= 1
      BY <2>0, <3>1
    <3>3. \A k \in 1..((at[t] + 1) - 1) : /\ created[k] \in ended
                                          /\ created[k] \in connected' => created[k] \in overtaken
      BY <3>1, <3>2 DEF ClosingInv, Closing, Passed
    <3> QED
      BY <3>1, <3>2, <3>3, CloseStreamsSafe
  <2>6. ASSUME NEW t \in Task, TransportClosed(t)
        PROVE  ClosingInv'
    <3>1. /\ pc[t] \in Transport
          /\ CloseTransports(t, open \ {pc[t]})
          /\ UNCHANGED <<created, shut, ended, connected, calls, overtaken, at>>
      BY <2>6 DEF TransportClosed, registry, stream, history
    <3>2. shut /\ at[t] = 0
      BY <3>1 DEF ClosingInv, Closing, ClientTypeOK, TaskTypeOK
    <3>3. Keeps
      BY <2>k, <3>1
    <3> QED
      BY <3>1, <3>2, <3>3, CloseTransportsSafe DEF ClosingInv
  <2>7. ASSUME NEW t \in Task, NEW k \in Token, Reauthenticate(t, k)
        PROVE  ClosingInv'
    <3>1. /\ pc'[t] \in {"idle", "renew"}
          /\ \A u \in Task \ {t} : pc'[u] = pc[u] /\ at'[u] = at[u]
      BY <2>0, <2>7, RenewStreamsTypes DEF Reauthenticate
    <3>2. UNCHANGED <<created, shut, ended, connected, calls, overtaken, open, closed>>
      BY <2>7 DEF Reauthenticate, registry, transports
    <3> QED
      BY <2>k, <3>1, <3>2, ClosingKept
  <2>8. ASSUME NEW t \in Task, Renewed(t)
        PROVE  ClosingInv'
    <3>1. /\ pc'[t] \in {"idle", "renew"}
          /\ \A u \in Task \ {t} : pc'[u] = pc[u] /\ at'[u] = at[u]
      <4>1. at[t] + 1 \in Int
        BY <2>0
      <4> QED
        BY <2>0, <2>8, <4>1, RenewStreamsTypes DEF Renewed
    <3>2. UNCHANGED <<created, shut, ended, connected, calls, overtaken, open, closed>>
      BY <2>8 DEF Renewed, registry, transports
    <3> QED
      BY <2>k, <3>1, <3>2, ClosingKept
  <2>9. ASSUME NEW t \in Task, Interrupted(t)
        PROVE  ClosingInv'
    <3>1. /\ pc'[t] = "idle"
          /\ \A u \in Task \ {t} : pc'[u] = pc[u] /\ at'[u] = at[u]
          /\ UNCHANGED <<created, shut, ended, connected, calls, overtaken, open, closed>>
      BY <2>0, <2>9 DEF Interrupted, Await, registry, stream, transports
    <3> QED
      BY <2>k, <3>1, ClosingKept
  <2>10. CASE UNCHANGED vars
    <3>1. UNCHANGED <<created, shut, ended, connected, calls, overtaken, open, closed, pc, at>>
      BY <2>10 DEF vars, registry, stream, transports, tasks, history
    <3> QED
      BY <2>k, <3>1, ClosingKept
  <2> QED
    BY <2>1, <2>2, <2>3, <2>4, <2>5, <2>6, <2>7, <2>8, <2>9, <2>10 DEF Next
<1>3. ClosingInv => ClosedMeansClosed
  BY DEF ClosingInv, ClosedMeansClosed
<1> QED
  BY <1>1, <1>2, <1>3, ClientTypes, PTL DEF Spec

-----------------------------------------------------------------------------
(* The token of the order streams. *)

\* Renewals wait for Market Streams only, and so never touch an order stream.
RenewsMarkets == \A t \in Task : pc[t] = "renew" => created[at[t]] \in Market

\* A login that goes on with another token than the client's is told by behind, and
\* an order stream keeps no token for its reconnects.
OrderInv(s) ==
    /\ asked[s] \notin {NoToken, token} => s \in behind
    /\ saved[s] = NoToken

TokenInv ==
    /\ StreamsShareTheToken
    /\ \A s \in Order : OrderInv(s)
    /\ RenewsMarkets

\* The next stream a renewal waits for is a Market Stream.
LEMMA RenewStreamsMarkets ==
    ASSUME ClientTypeOK, RenewsMarkets, NEW t \in Task, NEW i \in Int, RenewStreams(t, i),
           created' = created
    PROVE  /\ RenewsMarkets'
           /\ pc'[t] = "renew" => created[at'[t]] \in Market
<1>1. \/ \E j \in DOMAIN created : Authenticated(created[j]) /\ Await(t, j, "renew")
      \/ Await(t, 0, "idle")
  BY DEF RenewStreams
<1>2. pc'[t] = "renew" => created[at'[t]] \in Market
  BY <1>1 DEF Await, Authenticated, ClientTypeOK, TaskTypeOK
<1>3. \A u \in Task \ {t} : pc'[u] = pc[u] /\ at'[u] = at[u]
  BY RenewStreamsTypes DEF ClientTypeOK, StreamTypeOK
<1> QED
  BY <1>2, <1>3 DEF RenewsMarkets

\* A step that leaves the order streams and moves no renewal.
LEMMA TokenUndisturbed ==
    ASSUME TokenInv, UNCHANGED <<created, asked, token, behind>>,
           \A s \in Order : held'[s] = held[s] /\ saved'[s] = saved[s],
           \A t \in Task : pc'[t] = "renew" => pc[t] = "renew" /\ at'[t] = at[t]
    PROVE  TokenInv'
BY DEF TokenInv, StreamsShareTheToken, OrderInv, RenewsMarkets, Created

\* Closing tasks leave the tokens of order streams and the renewals alone.
LEMMA CloseStreamsTokens ==
    ASSUME ClientTypeOK, NEW t \in Task, NEW i, CloseStreams(t, i)
    PROVE  /\ \A s \in Order : held'[s] = held[s]
           /\ \A u \in Task : pc'[u] = "renew" => pc[u] = "renew" /\ at'[u] = at[u]
<1>1. \E S : End(S)
  BY DEF CloseStreams
<1>2. \A s \in Order : held'[s] = held[s]
  BY <1>1, ClientAssumption DEF End, Stream
<1>3. \A u \in Task : pc'[u] = "renew" => pc[u] = "renew" /\ at'[u] = at[u]
  <2>1. \/ \E j \in DOMAIN created : Await(t, j, "stream")
        \/ at' = [at EXCEPT ![t] = 0] /\ CloseTransports(t, open)
    BY DEF CloseStreams
  <2> QED
    BY <2>1 DEF Await, CloseTransports, ClientTypeOK, TaskTypeOK
<1> QED
  BY <1>2, <1>3

\* No call of the application leaves an order stream with an older token, or goes on
\* with one, but where behind tells.
LEMMA CallsTokens ==
    ASSUME ClientTypeOK, TokenInv, NEW s \in Stream,
           \/ Connect(s) \/ Connected(s) \/ Reconnect(s) \/ CloseStream(s) \/ Disconnected(s)
           \/ Authenticate(s) \/ Authenticates(s) \/ Raises(s)
    PROVE  TokenInv'
<1>1. /\ held \in [Stream -> MaybeToken] /\ saved \in [Stream -> MaybeToken]
      /\ call \in [Stream -> Place] /\ asked \in [Stream -> MaybeToken]
      /\ \A u \in Stream : call[u] # "none" => u \in Created
  BY StreamParts DEF ClientTypeOK
<1>2. UNCHANGED <<created, token, pc, at>>
  BY CallTypes DEF ClientTypeOK, registry, tokens, tasks
<1>3. RenewsMarkets' /\ Created' = Created
  BY <1>2 DEF TokenInv, RenewsMarkets, Created
<1>4. \A o \in Order : o \in Stream /\ o \notin Market
  BY ClientAssumption DEF Stream
<1>5. ASSUME NEW o \in Order
      PROVE  /\ o \in Created => held'[o] = token \/ o \in behind'
             /\ asked'[o] \notin {NoToken, token} => o \in behind'
             /\ saved'[o] = NoToken
  <2>1. /\ o \in Created => held[o] = token \/ o \in behind
        /\ asked[o] \notin {NoToken, token} => o \in behind
        /\ saved[o] = NoToken
    BY DEF TokenInv, StreamsShareTheToken, OrderInv
  <2>2. CASE Connect(s) \/ Disconnected(s) \/ Raises(s)
    <3>1. held' = held /\ saved' = saved /\ behind' = behind
      BY <2>2 DEF Connect, Disconnected, Raises, stream, history
    <3>2. asked' = [asked EXCEPT ![s] = NoToken]
      BY <2>2 DEF Connect, Disconnected, Raises, Moves
    <3>3. asked'[o] = asked[o] \/ asked'[o] = NoToken
      BY <1>1, <3>2
    <3> QED
      BY <2>1, <3>1, <3>3
  <2>3. CASE Connected(s)
    <3>1. o = s => Moves(s, "none", NoToken)
      BY <2>1, <2>3 DEF Connected
    <3>2. asked'[o] = asked[o] \/ asked'[o] = NoToken
      <4>1. CASE o = s
        BY <1>1, <1>4, <3>1, <4>1 DEF Moves
      <4>2. CASE o # s
        <5>1. \E k : asked' = [asked EXCEPT ![s] = k]
          BY <2>3 DEF Connected, Moves
        <5> QED
          BY <1>1, <1>4, <4>2, <5>1
      <4> QED
        BY <4>1, <4>2
    <3>3. held'[o] = held[o] /\ saved'[o] = saved[o]
      BY <1>1, <1>4, <2>3 DEF Connected, Clear
    <3> QED
      BY <2>1, <2>3, <3>2, <3>3 DEF Connected, history
  <2>4. CASE Reconnect(s)
    <3>1. held'[o] = held[o] /\ saved' = saved /\ behind \subseteq behind'
      BY <1>4, <2>4 DEF Reconnect, Clear
    <3>2. asked'[o] = asked[o] \/ asked'[o] = NoToken
      BY <1>1, <2>4 DEF Reconnect, Moves
    <3> QED
      BY <2>1, <3>1, <3>2
  <2>5. CASE CloseStream(s)
    <3>1. held'[o] = held[o] /\ saved' = saved /\ behind' = behind
      BY <1>4, <2>5 DEF CloseStream, End
    <3>2. asked'[o] = asked[o] \/ asked'[o] = NoToken
      BY <1>1, <2>5 DEF CloseStream, Moves
    <3> QED
      BY <2>1, <3>1, <3>2
  <2>6. CASE Authenticate(s)
    <3>1. held'[o] = held[o] /\ saved'[o] = saved[o] /\ behind' = behind
      BY <1>1, <1>4, <2>6 DEF Authenticate, Clear, history
    <3>2. \/ asked'[o] = asked[o]
          \/ o = s /\ asked'[o] = held[o] /\ o \in Created
      BY <1>1, <1>4, <2>6 DEF Authenticate, Moves, TokenFor, calls
    <3> QED
      BY <2>1, <3>1, <3>2
  <2>7. CASE Authenticates(s)
    <3>1. CASE o = s
      <4>1. /\ held'[o] = asked[o] /\ asked'[o] = NoToken /\ saved' = saved
            /\ asked[o] # token => behind' = behind
        BY <1>1, <1>4, <2>7, <3>1 DEF Authenticates, Moves
      <4>2. asked[o] # NoToken
        BY <2>7, <3>1 DEF Authenticates, ClientTypeOK, StreamTypeOK
      <4> QED
        BY <2>1, <4>1, <4>2
    <3>2. CASE o # s
      <4>1. /\ held'[o] = held[o] /\ asked'[o] = asked[o] /\ saved'[o] = saved[o]
            /\ o \in behind => o \in behind'
        BY <1>1, <1>4, <2>7, <3>2 DEF Authenticates, Moves
      <4> QED
        BY <2>1, <4>1
    <3> QED
      BY <3>1, <3>2
  <2> QED
    BY <2>2, <2>3, <2>4, <2>5, <2>6, <2>7
<1> QED
  BY <1>2, <1>3, <1>5 DEF TokenInv, StreamsShareTheToken, OrderInv

\* A token that is set reaches every order stream, and behind tells which login is late.
LEMMA SetTokenSafe ==
    ASSUME NEW k \in Token, NEW other, SetToken(k, other), RenewsMarkets',
           UNCHANGED <<created, calls>>,
           \A s \in Order : saved'[s] = NoToken
    PROVE  TokenInv'
<1>1. \A s \in Order \cap Created : held'[s] = k
  BY DEF SetToken, Stream
<1>2. \A s \in Order : asked[s] # NoToken => s \in behind'
  BY DEF SetToken, Late, Stream
<1> QED
  BY <1>1, <1>2 DEF TokenInv, StreamsShareTheToken, OrderInv, SetToken, Created, calls

(***************************************************************************)
(* The order streams share the token of the client, whenever they were     *)
(* created and whichever renewals overlap or fail, except where a login    *)
(* with another token was answered or is under way: TokenInv adds that     *)
(* behind tells each such login while it is under way, and that a renewal  *)
(* waits for a Market Stream.                                              *)
(***************************************************************************)
THEOREM ClientTokens == Spec => []StreamsShareTheToken
<1>1. Init => TokenInv
  BY DEF Init, TokenInv, StreamsShareTheToken, OrderInv, RenewsMarkets, Created, Stream
<1>2. ClientTypeOK /\ TokenInv /\ [Next]_vars => TokenInv'
  <2> SUFFICES ASSUME ClientTypeOK, TokenInv, [Next]_vars
               PROVE  TokenInv'
    OBVIOUS
  <2>0. /\ created \in Seq(Stream)
        /\ held \in [Stream -> MaybeToken]
        /\ saved \in [Stream -> MaybeToken]
        /\ at \in [Task -> Int]
        /\ \A t \in Task : pc[t] = "renew" => at[t] \in DOMAIN created
    BY DEF ClientTypeOK, StreamTypeOK, TaskTypeOK, MaybeToken
  <2>1. ASSUME NEW s \in Stream, MakeStream(s)
        PROVE  TokenInv'
    <3>1. /\ created' = Append(created, s)
          /\ held' = [held EXCEPT ![s] = IF s \in Order THEN token ELSE NoToken]
          /\ UNCHANGED <<token, pc, at, saved, asked, behind>>
      BY <2>1 DEF MakeStream, FirstToken, tokens, calls, tasks, history
    <3>2. \A k \in DOMAIN created : created'[k] = created[k]
      BY <2>0, <3>1
    <3>3. Created' \subseteq Created \cup {s}
      <4>1. /\ DOMAIN created' = 1..(Len(created) + 1)
            /\ DOMAIN created = 1..Len(created)
            /\ Len(created) \in Nat
            /\ created'[Len(created) + 1] = s
        BY <2>0, <3>1
      <4> QED
        BY <3>2, <4>1 DEF Created
    <3>4. StreamsShareTheToken'
      BY <2>0, <3>1, <3>3 DEF TokenInv, StreamsShareTheToken, Stream
    <3>5. RenewsMarkets'
      BY <2>0, <3>1, <3>2 DEF TokenInv, RenewsMarkets
    <3> QED
      BY <3>1, <3>4, <3>5 DEF TokenInv, OrderInv
  <2>2. ASSUME NEW s \in Stream,
               \/ Connect(s) \/ Connected(s) \/ Reconnect(s) \/ CloseStream(s) \/ Disconnected(s)
               \/ Authenticate(s) \/ Authenticates(s) \/ Raises(s)
        PROVE  TokenInv'
    BY <2>2, CallsTokens
  <2>3. ASSUME NEW k \in Token, SetAccessToken(k)
        PROVE  TokenInv'
    <3>1. /\ SetToken(k, held)
          /\ UNCHANGED <<created, calls, saved, pc, at>>
      BY <2>3 DEF SetAccessToken, registry, tasks
    <3>2. RenewsMarkets' /\ \A s \in Order : saved'[s] = NoToken
      BY <3>1 DEF TokenInv, RenewsMarkets, OrderInv
    <3> QED
      BY <3>1, <3>2, SetTokenSafe
  <2>4. ASSUME NEW t \in Task, CloseAsync(t)
        PROVE  TokenInv'
    <3>1. UNCHANGED <<created, asked, token, behind, saved>>
      BY <2>4 DEF CloseAsync, tokens, calls, stream
    <3>2. CASE CloseStreams(t, 1)
      BY <3>1, <3>2, CloseStreamsTokens, TokenUndisturbed
    <3>3. CASE CloseTransports(t, open) /\ UNCHANGED <<stream, at>>
      <4>1. \A u \in Task : pc'[u] = "renew" => pc[u] = "renew"
        BY <3>3 DEF CloseTransports, ClientTypeOK, TaskTypeOK
      <4> QED
        BY <3>1, <3>3, <4>1, TokenUndisturbed DEF stream
    <3> QED
      BY <2>4, <3>2, <3>3 DEF CloseAsync
  <2>5. ASSUME NEW t \in Task, StreamClosed(t)
        PROVE  TokenInv'
    BY <2>5, CloseStreamsTokens, TokenUndisturbed DEF StreamClosed, tokens, calls
  <2>6. ASSUME NEW t \in Task, TransportClosed(t)
        PROVE  TokenInv'
    <3>1. \A u \in Task : pc'[u] = "renew" => pc[u] = "renew"
      BY <2>6 DEF TransportClosed, CloseTransports, ClientTypeOK, TaskTypeOK
    <3> QED
      BY <2>6, <3>1, TokenUndisturbed DEF TransportClosed, registry, stream, tokens, calls, history
  <2>7. ASSUME NEW t \in Task, NEW k \in Token, Reauthenticate(t, k)
        PROVE  TokenInv'
    <3>1. /\ RenewStreams(t, 1) /\ SetToken(k, Forget(t, held))
          /\ saved' = Forget(t, saved)
          /\ UNCHANGED <<created, calls>>
      BY <2>7 DEF Reauthenticate, registry
    <3>2. RenewsMarkets'
      BY <3>1, RenewStreamsMarkets DEF TokenInv
    <3>3. \A s \in Order : saved'[s] = NoToken
      BY <3>1 DEF TokenInv, OrderInv, Forget, Stream
    <3> QED
      BY <3>1, <3>2, <3>3, SetTokenSafe
  <2>8. ASSUME NEW t \in Task, Renewed(t)
        PROVE  TokenInv'
    <3>1. /\ created[at[t]] \in Market
          /\ RenewStreams(t, at[t] + 1)
          /\ held' = Forget(t, [held EXCEPT ![created[at[t]]] = fresh[t]])
          /\ saved' = Forget(t, [saved EXCEPT ![created[at[t]]] = fresh[t]])
          /\ UNCHANGED <<created, token, asked, behind>>
      BY <2>8 DEF Renewed, TokenInv, RenewsMarkets, registry, tokens, calls
    <3>2. RenewsMarkets' /\ (pc'[t] = "renew" => created[at'[t]] \in Market)
      BY <2>0, <3>1, RenewStreamsMarkets DEF TokenInv
    <3>3. \A s \in Order : /\ [held EXCEPT ![created[at[t]]] = fresh[t]][s] = held[s]
                           /\ [saved EXCEPT ![created[at[t]]] = fresh[t]][s] = saved[s]
      BY <2>0, <3>1, ClientAssumption DEF Stream
    <3>4. \A s \in Order : held'[s] = held[s] /\ saved'[s] = saved[s]
      BY <3>1, <3>2, <3>3, ClientAssumption DEF Forget, Stream
    <3> QED
      BY <3>1, <3>2, <3>4 DEF TokenInv, StreamsShareTheToken, OrderInv, Created
  <2>9. ASSUME NEW t \in Task, Interrupted(t)
        PROVE  TokenInv'
    <3>1. \A u \in Task : pc'[u] = "renew" => pc[u] = "renew" /\ at'[u] = at[u]
      BY <2>9 DEF Interrupted, Await, ClientTypeOK, TaskTypeOK
    <3> QED
      BY <2>9, <3>1, TokenUndisturbed DEF Interrupted, registry, stream, tokens, calls
  <2>10. CASE UNCHANGED vars
    BY <2>10, TokenUndisturbed DEF vars, registry, stream, calls, tokens, tasks, history
  <2> QED
    BY <2>1, <2>2, <2>3, <2>4, <2>5, <2>6, <2>7, <2>8, <2>9, <2>10 DEF Next
<1>3. TokenInv => StreamsShareTheToken
  BY DEF TokenInv
<1> QED
  BY <1>1, <1>2, <1>3, ClientTypes, PTL DEF Spec

-----------------------------------------------------------------------------
(* Renewals. *)

\* A session that is not of an older token, but where behind tells.
UpToDate(s) == held[s] \in {NoToken, token} \/ s \in behind

\* No call of the application goes on with an older token, but where behind tells.
InTime(s) ==
    \/ s \in behind
    \/ /\ asked[s] \in {NoToken, token}
       /\ call[s] \in {"reclose", "reopen"} => saved[s] \in {NoToken, token}

(***************************************************************************)
(* What makes RenewalReachesStreams inductive: a renewal that is still     *)
(* alone carries the token of the client, is the only one under way, and   *)
(* has left no older session up to its place in the list; behind tells the *)
(* calls that may still leave one; a stream that is not created yet, and   *)
(* so may be appended behind the renewal, has no session.                  *)
(***************************************************************************)
RenewedSoFar(t) ==
    /\ fresh[t] = token
    /\ \A u \in Task \ {t} : pc[u] # "renew"
    /\ \A s \in Market : InTime(s)
    /\ \A k \in 1..at[t] : created[k] \in Market => UpToDate(created[k])

RenewalInv ==
    /\ \A s \in Market \ Created : held[s] = NoToken
    /\ \A t \in Task : alone[t] /\ pc[t] = "renew" => RenewedSoFar(t)

\* A step that leaves no older session and no call with an older token at a stream.
Steady(s) ==
    /\ InTime(s) => InTime(s)'
    /\ InTime(s) /\ UpToDate(s) => UpToDate(s)'
    /\ s \notin Created => held'[s] = held[s]

\* Steps that begin no renewal and move none on.
LEMMA RenewalUndisturbed ==
    ASSUME RenewalInv, UNCHANGED <<created, token>>,
           \A u \in Task : pc'[u] = "renew" => /\ pc[u] = "renew" /\ at'[u] = at[u]
                                               /\ fresh'[u] = fresh[u]
                                               /\ alone'[u] => alone[u],
           \A s \in Market : Steady(s)
    PROVE  RenewalInv'
<1>1. ASSUME NEW t \in Task, alone'[t], pc'[t] = "renew"
      PROVE  RenewedSoFar(t)'
  <2>1. RenewedSoFar(t) /\ at'[t] = at[t] /\ fresh'[t] = fresh[t]
    BY <1>1 DEF RenewalInv
  <2>2. \A s \in Market : InTime(s)'
    BY <2>1 DEF RenewedSoFar, Steady
  <2>3. \A k \in 1..at'[t] : created'[k] \in Market => UpToDate(created[k])'
    BY <2>1 DEF RenewedSoFar, Steady
  <2>4. \A u \in Task \ {t} : pc'[u] # "renew"
    BY <2>1 DEF RenewedSoFar
  <2> QED
    BY <2>1, <2>2, <2>3, <2>4 DEF RenewedSoFar, UpToDate
<1>2. \A s \in (Market \ Created)' : held'[s] = NoToken
  BY DEF RenewalInv, Created, Steady
<1> QED
  BY <1>1, <1>2 DEF RenewalInv

\* The application's calls are steady.
LEMMA CallsSteady ==
    ASSUME ClientTypeOK, NEW s \in Stream,
           \/ Connect(s) \/ Connected(s) \/ Reconnect(s) \/ CloseStream(s) \/ Disconnected(s)
           \/ Authenticate(s) \/ Authenticates(s) \/ Raises(s),
           NEW m \in Market
    PROVE  Steady(m)
<1>1. /\ held \in [Stream -> MaybeToken] /\ saved \in [Stream -> MaybeToken]
      /\ call \in [Stream -> Place] /\ asked \in [Stream -> MaybeToken]
      /\ \A u \in Stream : call[u] # "none" => u \in Created
      /\ \A u \in Stream : call[u] = "auth" <=> asked[u] # NoToken
      /\ m \in Stream
  BY StreamParts DEF ClientTypeOK, Stream
<1>2. token' = token
  BY CallTypes DEF ClientTypeOK, tokens
<1>3. CASE m # s
  <2>1. /\ held'[m] = held[m] /\ saved'[m] = saved[m]
        /\ m \in behind' <=> m \in behind
    <3>1. CASE Connect(s) \/ Disconnected(s) \/ Raises(s)
      BY <3>1 DEF Connect, Disconnected, Raises, stream, history
    <3>2. CASE Connected(s) \/ Reconnect(s) \/ Authenticate(s)
      BY <1>1, <1>3, <3>2 DEF Connected, Reconnect, Authenticate, Clear, history
    <3>3. CASE CloseStream(s)
      BY <1>1, <1>3, <3>3 DEF CloseStream, End
    <3>4. CASE Authenticates(s)
      BY <1>1, <1>3, <3>4 DEF Authenticates
    <3> QED
      BY <3>1, <3>2, <3>3, <3>4
  <2>2. call'[m] = call[m] /\ asked'[m] = asked[m]
    <3>1. \/ \E place, k : Moves(s, place, k)
          \/ UNCHANGED calls
      BY DEF Connect, Connected, Reconnect, CloseStream, Disconnected, Authenticate,
             Authenticates, Raises
    <3> QED
      BY <1>1, <1>3, <3>1 DEF Moves, calls
  <2> QED
    BY <1>2, <2>1, <2>2 DEF Steady, InTime, UpToDate
<1>4. CASE m = s
  <2>1. CASE Connect(s) \/ Raises(s)
    <3>1. /\ held' = held /\ saved' = saved /\ behind' = behind
          /\ asked'[m] = NoToken /\ call'[m] \in {"connect", "none"}
      BY <1>1, <1>4, <2>1 DEF Connect, Raises, Moves, stream, history
    <3> QED
      BY <1>2, <3>1 DEF Steady, InTime, UpToDate
  <2>2. CASE Connected(s)
    <3>1. /\ held'[m] \in {NoToken, held[m]} /\ behind' = behind /\ m \in Created
          /\ call'[m] \in {"auth", "none"}
          /\ asked'[m] # NoToken => call[m] = "reopen" /\ asked'[m] = saved[m]
      <4>1. behind' = behind /\ m \in Created
        BY <1>1, <1>4, <2>2 DEF Connected, Connects, history
      <4>2. CASE call[s] = "reopen" /\ Moves(s, "auth", saved[s]) /\ held' = Clear(s, held)
        BY <1>1, <1>4, <4>1, <4>2 DEF Moves, Clear
      <4>3. CASE Moves(s, "none", NoToken) /\ held' = held
        <5>1. asked'[m] = NoToken /\ call'[m] = "none"
          BY <1>1, <1>4, <4>3 DEF Moves
        <5>2. held'[m] = held[m]
          BY <4>3
        <5> QED
          BY <4>1, <5>1, <5>2
      <4> QED
        BY <2>2, <4>2, <4>3 DEF Connected
    <3> QED
      BY <1>2, <3>1 DEF Steady, InTime, UpToDate
  <2>3. CASE Reconnect(s)
    <3>1. /\ held'[m] = NoToken /\ asked'[m] = NoToken /\ saved' = saved /\ m \in Created
          /\ saved[m] \notin {NoToken, token} => m \in behind'
      BY <1>1, <1>4, <2>3 DEF Reconnect, Moves, Clear
    <3> QED
      BY <1>2, <3>1 DEF Steady, InTime, UpToDate
  <2>4. CASE CloseStream(s)
    <3>1. /\ held'[m] = NoToken /\ asked'[m] = NoToken /\ m \in Created
          /\ call'[m] \in {"close", "none"}
      BY <1>1, <1>4, <2>4 DEF CloseStream, End, Moves
    <3> QED
      BY <1>2, <3>1 DEF Steady, InTime, UpToDate
  <2>5. CASE Disconnected(s)
    <3>1. /\ held' = held /\ saved' = saved /\ behind' = behind /\ asked'[m] = NoToken
          /\ call'[m] # "none" => call[m] = "reclose"
      BY <1>1, <1>4, <2>5 DEF Disconnected, Moves, history
    <3> QED
      BY <1>2, <3>1 DEF Steady, InTime, UpToDate
  <2>6. CASE Authenticate(s)
    <3>1. /\ held'[m] = NoToken /\ saved'[m] = NoToken /\ m \in Created
          /\ asked'[m] \in {token, NoToken}
      <4>1. asked[m] = NoToken
        BY <1>1, <1>4, <2>6 DEF Authenticate, MayCall
      <4> QED
        BY <1>1, <1>4, <2>6, <4>1 DEF Authenticate, Moves, Clear, TokenFor, calls
    <3> QED
      BY <1>2, <3>1 DEF Steady, InTime, UpToDate
  <2>7. CASE Authenticates(s)
    <3>1. /\ held'[m] = asked[m] /\ asked'[m] = NoToken /\ call'[m] = "none" /\ m \in Created
          /\ asked[m] # NoToken
          /\ asked[m] # token => behind' = behind
      BY <1>1, <1>4, <2>7 DEF Authenticates, Moves
    <3> QED
      BY <1>2, <3>1 DEF Steady, InTime, UpToDate
  <2> QED
    BY <2>1, <2>2, <2>3, <2>4, <2>5, <2>6, <2>7
<1> QED
  BY <1>3, <1>4

\* Closing streams is steady, and moves no renewal.
LEMMA CloseStreamsSteady ==
    ASSUME ClientTypeOK, RenewalInv, NEW t \in Task, NEW i, CloseStreams(t, i),
           UNCHANGED <<calls, saved, tokens, behind>>
    PROVE  /\ \A s \in Market : Steady(s)
           /\ \A u \in Task : pc'[u] = "renew" => pc[u] = "renew" /\ at'[u] = at[u]
<1>1. PICK S : End(S)
  BY DEF CloseStreams
<1>2. \A s \in Market : held'[s] \in {NoToken, held[s]}
  BY <1>1 DEF End, Stream
<1>3. \A s \in Market \ Created : held[s] = NoToken
  BY DEF RenewalInv
<1>4. \A s \in Market : Steady(s)
  BY <1>2, <1>3 DEF Steady, InTime, UpToDate, calls, tokens
<1> QED
  BY <1>4, CloseStreamsTokens

(***************************************************************************)
(* The places RenewStreams passes have no session, and Forget ends that of *)
(* the place it stops at: whatever it leaves behind is up to date.         *)
(***************************************************************************)
LEMMA RenewedBehind ==
    ASSUME ClientTypeOK, created' = created, NEW t \in Task, NEW i \in Int, i >= 1,
           RenewStreams(t, i), NEW session \in [Stream -> MaybeToken],
           \A s \in Market : session[s] # held[s] => session[s] = token'
    PROVE  LET upto == IF pc'[t] = "renew" THEN at'[t] ELSE Len(created) IN
           /\ upto \in Int
           /\ \A k \in i..upto :
                 created[k] \in Market => Forget(t, session)[created[k]] \in {NoToken, token'}
<1> DEFINE upto == IF pc'[t] = "renew" THEN at'[t] ELSE Len(created)
<1>1. /\ created \in Seq(Stream)
      /\ DOMAIN created = 1..Len(created)
      /\ Len(created) \in Nat
  BY DEF ClientTypeOK, StreamTypeOK
<1>2. PICK j \in i..(Len(created) + 1) :
        /\ \A k \in i..(j - 1) : ~Authenticated(created[k])
        /\ \/ j \in DOMAIN created /\ Await(t, j, "renew")
           \/ j = Len(created) + 1 /\ Await(t, 0, "idle")
  BY DEF RenewStreams
<1>3. \/ pc'[t] = "renew" /\ at'[t] = j /\ upto = j
      \/ pc'[t] = "idle" /\ upto = j - 1
  <2>1. CASE j \in DOMAIN created /\ Await(t, j, "renew")
    BY <2>1 DEF Await, ClientTypeOK, TaskTypeOK
  <2>2. CASE j = Len(created) + 1 /\ Await(t, 0, "idle")
    BY <1>1, <2>2 DEF Await, ClientTypeOK, TaskTypeOK
  <2> QED
    BY <1>2, <2>1, <2>2
<1> HIDE DEF upto
<1>4. j \in Int /\ upto \in Int
  <2>1. j \in Int
    BY <1>1, <1>2
  <2> QED
    BY <1>3, <2>1
<1>5. ASSUME NEW k \in i..upto, created[k] \in Market
      PROVE  Forget(t, session)[created[k]] \in {NoToken, token'}
  <2>1. created[k] \in Stream
    BY <1>5 DEF Stream
  <2>2. CASE k \in i..(j - 1)
    <3>1. held[created[k]] = NoToken
      BY <1>2, <1>5, <2>2 DEF Authenticated
    <3> QED
      BY <1>5, <2>1, <3>1 DEF Forget
  <2>3. CASE k = j
    <3>1. pc'[t] = "renew" /\ created[k] = created'[at'[t]]
      BY <1>3, <1>4, <1>5, <2>3
    <3> QED
      BY <2>1, <3>1 DEF Forget
  <2> QED
    BY <1>3, <1>4, <1>5, <2>2, <2>3
<1> QED
  BY <1>4, <1>5 DEF upto

\* A renewal that is alone and moves on has left no older session as far as it comes.
LEMMA RenewedSessions ==
    ASSUME ClientTypeOK, RenewalInv, NEW t \in Task, Renewed(t), alone[t]
    PROVE  LET upto == IF pc'[t] = "renew" THEN at'[t] ELSE Len(created) IN
           \A k \in 1..upto :
              created[k] \in Market => held'[created[k]] \in {NoToken, token} \/ created[k] \in behind
<1> DEFINE upto == IF pc'[t] = "renew" THEN at'[t] ELSE Len(created)
           session == [held EXCEPT ![created[at[t]]] = fresh[t]]
<1>1. /\ at[t] \in DOMAIN created
      /\ DOMAIN created = 1..Len(created)
      /\ Len(created) \in Nat
      /\ held \in [Stream -> MaybeToken]
      /\ created \in Seq(Stream)
      /\ fresh[t] \in MaybeToken
  BY DEF Renewed, ClientTypeOK, StreamTypeOK, TaskTypeOK, MaybeToken
<1>2. /\ RenewStreams(t, at[t] + 1)
      /\ held' = Forget(t, session)
      /\ UNCHANGED <<created, token>>
  BY DEF Renewed, registry, tokens
<1>3. RenewedSoFar(t)
  BY DEF Renewed, RenewalInv
<1>4. /\ session \in [Stream -> MaybeToken]
      /\ \A s \in Market : session[s] # held[s] => session[s] = token'
  BY <1>1, <1>2, <1>3 DEF RenewedSoFar, Stream
<1> HIDE DEF session
<1>5. /\ upto \in Int
      /\ \A k \in (at[t] + 1)..upto :
            created[k] \in Market => Forget(t, session)[created[k]] \in {NoToken, token'}
  <2>1. at[t] + 1 \in Int /\ at[t] + 1 >= 1
    BY <1>1
  <2> QED
    BY <1>2, <1>4, <2>1, RenewedBehind
<1>6. \A k \in 1..at[t] :
         created[k] \in Market => held'[created[k]] \in {NoToken, token} \/ created[k] \in behind
  BY <1>1, <1>2, <1>3 DEF RenewedSoFar, UpToDate, Forget, Stream, session
<1> HIDE DEF upto
<1>7. ASSUME NEW k \in 1..upto, created[k] \in Market
      PROVE  held'[created[k]] \in {NoToken, token} \/ created[k] \in behind
  <2>1. CASE k <= at[t]
    BY <1>1, <1>5, <1>6, <1>7, <2>1
  <2>2. CASE k > at[t]
    BY <1>1, <1>2, <1>5, <1>7, <2>2
  <2> QED
    BY <1>1, <1>5, <2>1, <2>2
<1> QED
  BY <1>7 DEF upto

(***************************************************************************)
(* A renewal that ends without another token set meanwhile leaves no       *)
(* Market Stream with an older session, for any streams, tasks, tokens,    *)
(* calls under way and interruptions, except where a call of the           *)
(* application was between two sessions with an older token: from          *)
(* RenewalInv, since the list only grows at its end and what is appended,  *)
(* authenticated or closed meanwhile is up to date, or behind tells it.    *)
(***************************************************************************)
THEOREM RenewalsReachStreams == Spec => RenewalReachesStreams
<1>1. Init => RenewalInv
  BY DEF Init, RenewalInv, Stream
<1>2. ClientTypeOK /\ RenewalInv /\ [Next]_vars => RenewalInv'
  <2> SUFFICES ASSUME ClientTypeOK, RenewalInv, [Next]_vars
               PROVE  RenewalInv'
    OBVIOUS
  <2>0. /\ created \in Seq(Stream)
        /\ DOMAIN created = 1..Len(created)
        /\ Len(created) \in Nat
        /\ held \in [Stream -> MaybeToken]
        /\ saved \in [Stream -> MaybeToken]
        /\ fresh \in [Task -> MaybeToken]
        /\ alone \in [Task -> BOOLEAN]
        /\ at \in [Task -> Int]
        /\ \A t \in Task : pc[t] = "renew" => at[t] \in DOMAIN created
        /\ TaskTypeOK
    BY DEF ClientTypeOK, StreamTypeOK, TaskTypeOK, MaybeToken
  <2>s. ASSUME UNCHANGED <<held, saved, call, asked, token, behind>>
        PROVE  \A s \in Market : Steady(s)
    BY <2>s DEF Steady, InTime, UpToDate
  <2>1. ASSUME NEW s \in Stream, MakeStream(s)
        PROVE  RenewalInv'
    <3>1. /\ s \notin Created
          /\ created' = Append(created, s)
          /\ held' = [held EXCEPT ![s] = IF s \in Order THEN token ELSE NoToken]
          /\ UNCHANGED <<token, pc, at, fresh, alone, saved, call, asked, behind>>
      BY <2>1 DEF MakeStream, FirstToken, tokens, calls, tasks, history
    <3>2. \A k \in DOMAIN created : created'[k] = created[k] /\ created[k] # s
      BY <2>0, <3>1 DEF Created
    <3>3. Created \subseteq Created'
      BY <2>0, <3>1, <3>2 DEF Created
    <3>4. \A m \in Market \ Created : held'[m] = NoToken
      BY <2>0, <3>1, ClientAssumption DEF RenewalInv, Stream
    <3>5. ASSUME NEW t \in Task, alone'[t], pc'[t] = "renew"
          PROVE  RenewedSoFar(t)'
      <4>1. RenewedSoFar(t) /\ at[t] \in DOMAIN created
        BY <2>0, <3>1, <3>5 DEF RenewalInv
      <4>2. ASSUME NEW k \in 1..at[t], created'[k] \in Market
            PROVE  UpToDate(created[k])' /\ created'[k] = created[k]
        <5>1. k \in DOMAIN created
          BY <2>0, <4>1
        <5>2. held'[created[k]] = held[created[k]]
          BY <2>0, <3>1, <3>2, <5>1
        <5> QED
          BY <3>1, <3>2, <4>1, <4>2, <5>1, <5>2 DEF RenewedSoFar, UpToDate
      <4>3. \A m \in Market : InTime(m)'
        BY <3>1, <4>1 DEF RenewedSoFar, InTime
      <4> QED
        BY <3>1, <4>1, <4>2, <4>3 DEF RenewedSoFar, UpToDate
    <3> QED
      BY <3>3, <3>4, <3>5 DEF RenewalInv
  <2>2. ASSUME NEW s \in Stream,
               \/ Connect(s) \/ Connected(s) \/ Reconnect(s) \/ CloseStream(s) \/ Disconnected(s)
               \/ Authenticate(s) \/ Authenticates(s) \/ Raises(s)
        PROVE  RenewalInv'
    <3>1. \A m \in Market : Steady(m)
      BY <2>2, CallsSteady
    <3>2. UNCHANGED <<created, token, pc, at, fresh, alone>>
      BY <2>2, CallTypes DEF ClientTypeOK, registry, tokens, tasks
    <3> QED
      BY <3>1, <3>2, RenewalUndisturbed
  <2>3. ASSUME NEW k \in Token, SetAccessToken(k)
        PROVE  RenewalInv'
    <3>1. created' = created /\ \A t \in Task : ~alone'[t]
      BY <2>3 DEF SetAccessToken, registry
    <3>2. \A s \in Market : held'[s] = held[s]
      BY <2>3, ClientAssumption DEF SetAccessToken, SetToken, Stream
    <3> QED
      BY <3>1, <3>2 DEF RenewalInv, Created
  <2>4. ASSUME NEW t \in Task, CloseAsync(t)
        PROVE  RenewalInv'
    <3>1. UNCHANGED <<created, calls, tokens, fresh, alone, behind>>
      BY <2>4 DEF CloseAsync
    <3>2. CASE CloseStreams(t, 1) /\ UNCHANGED <<connected, saved>>
      BY <3>1, <3>2, CloseStreamsSteady, RenewalUndisturbed DEF tokens
    <3>3. CASE CloseTransports(t, open) /\ UNCHANGED <<shut, stream, at, overtaken>>
      <4>1. \A u \in Task : pc'[u] = "renew" => pc[u] = "renew"
        BY <3>3 DEF CloseTransports, ClientTypeOK, TaskTypeOK
      <4>2. \A s \in Market : Steady(s)
        BY <2>s, <3>1, <3>3 DEF stream, calls, tokens
      <4> QED
        BY <3>1, <3>3, <4>1, <4>2, RenewalUndisturbed DEF tokens
    <3> QED
      BY <2>4, <3>2, <3>3 DEF CloseAsync
  <2>5. ASSUME NEW t \in Task, StreamClosed(t)
        PROVE  RenewalInv'
    BY <2>5, CloseStreamsSteady, RenewalUndisturbed DEF StreamClosed, tokens
  <2>6. ASSUME NEW t \in Task, TransportClosed(t)
        PROVE  RenewalInv'
    <3>1. \A u \in Task : pc'[u] = "renew" => pc[u] = "renew"
      BY <2>6 DEF TransportClosed, CloseTransports, ClientTypeOK, TaskTypeOK
    <3>2. UNCHANGED <<created, held, saved, call, asked, token, at, fresh, alone, behind>>
      BY <2>6 DEF TransportClosed, registry, stream, calls, tokens, history
    <3> QED
      BY <2>s, <3>1, <3>2, RenewalUndisturbed
  <2>7. ASSUME NEW t \in Task, NEW k \in Token, Reauthenticate(t, k)
        PROVE  RenewalInv'
    <3>1. /\ RenewStreams(t, 1)
          /\ token' = k
          /\ held' = [s \in Stream |-> IF s \in Order \cap Created THEN k ELSE Forget(t, held)[s]]
          /\ saved' = Forget(t, saved)
          /\ behind' = Late
          /\ fresh' = [fresh EXCEPT ![t] = IF pc'[t] = "renew" THEN k ELSE NoToken]
          /\ alone' = [u \in Task |-> /\ u = t /\ pc'[t] = "renew"
                                      /\ \A v \in Task : pc[v] # "renew"]
          /\ UNCHANGED <<created, call, asked>>
      BY <2>7 DEF Reauthenticate, SetToken, Carry, registry, calls
    <3>2. \A s \in Market : held'[s] = Forget(t, held)[s]
      BY <3>1, ClientAssumption DEF Stream
    <3>3. \A s \in (Market \ Created)' : held'[s] = NoToken
      <4>1. \A s \in Market : Forget(t, held)[s] \in {NoToken, held[s]}
        BY DEF Forget, Stream
      <4> QED
        BY <3>1, <3>2, <4>1 DEF RenewalInv, Created
    <3>4. ASSUME NEW u \in Task, alone'[u], pc'[u] = "renew"
          PROVE  RenewedSoFar(u)'
      <4>1. /\ u = t
            /\ \A v \in Task : pc[v] # "renew"
        BY <3>1, <3>4
      <4>r. RenewStreams(t, 1) /\ created' = created
        BY <3>1
      <4>2. \A v \in Task \ {t} : pc'[v] # "renew"
        <5>1. \A v \in Task \ {t} : pc'[v] = pc[v]
          BY <2>0, <4>r, RenewStreamsTypes
        <5> QED
          BY <4>1, <5>1
      <4>3. \A n \in 1..at'[t] :
               created[n] \in Market => Forget(t, held)[created[n]] \in {NoToken, token'}
        BY <2>0, <3>4, <4>1, <4>r, RenewedBehind
      <4>4. fresh'[t] = token'
        BY <2>0, <3>1, <3>4, <4>1
      <4>5. ASSUME NEW s \in Market
            PROVE  InTime(s)'
        <5>1. s \in Late \/ (asked[s] = NoToken /\ (call[s] \in {"reclose", "reopen"} => saved[s] = NoToken))
          BY DEF Late, Stream
        <5>2. saved'[s] \in {NoToken, saved[s]}
          BY <3>1 DEF Forget, Stream
        <5> QED
          BY <3>1, <5>1, <5>2 DEF InTime
      <4> QED
        BY <3>1, <3>2, <4>1, <4>2, <4>3, <4>4, <4>5 DEF RenewedSoFar, UpToDate
    <3> QED
      BY <3>3, <3>4 DEF RenewalInv
  <2>8. ASSUME NEW t \in Task, Renewed(t)
        PROVE  RenewalInv'
    <3>1. /\ pc[t] = "renew"
          /\ created[at[t]] \in Created
          /\ RenewStreams(t, at[t] + 1)
          /\ held' = Forget(t, [held EXCEPT ![created[at[t]]] = fresh[t]])
          /\ saved' = Forget(t, [saved EXCEPT ![created[at[t]]] = fresh[t]])
          /\ fresh' = [fresh EXCEPT ![t] = IF pc'[t] = "renew" THEN fresh[t] ELSE NoToken]
          /\ alone' = [alone EXCEPT ![t] = @ /\ pc'[t] = "renew"]
          /\ UNCHANGED <<created, call, asked, token, behind>>
      BY <2>0, <2>8 DEF Renewed, Carry, registry, calls, tokens, Created
    <3>2. \A s \in (Market \ Created)' : held'[s] = NoToken
      BY <2>0, <3>1 DEF RenewalInv, Created, Forget, Stream
    <3>3. \A v \in Task \ {t} : pc'[v] = pc[v]
      BY <2>0, <3>1, RenewStreamsTypes
    <3>4. ASSUME NEW u \in Task, alone'[u], pc'[u] = "renew"
          PROVE  RenewedSoFar(u)'
      <4>1. u = t /\ alone[t] /\ RenewedSoFar(t)
        <5>1. alone[u]
          BY <2>0, <3>1, <3>4
        <5>2. pc[u] = "renew"
          BY <3>1, <3>3, <3>4
        <5> QED
          BY <3>1, <5>1, <5>2 DEF RenewalInv, RenewedSoFar
      <4>2. \A k \in 1..at'[t] :
               created[k] \in Market => held'[created[k]] \in {NoToken, token} \/ created[k] \in behind
        BY <2>8, <3>4, <4>1, RenewedSessions
      <4>3. fresh'[t] = token'
        BY <2>0, <3>1, <3>4, <4>1 DEF RenewedSoFar
      <4>4. ASSUME NEW s \in Market
            PROVE  InTime(s)'
        <5>1. saved'[s] \in {NoToken, saved[s], token}
          BY <2>0, <3>1, <4>1 DEF Forget, Stream, RenewedSoFar
        <5> QED
          BY <3>1, <4>1, <5>1 DEF InTime, RenewedSoFar
      <4>5. \A v \in Task \ {t} : pc'[v] # "renew"
        BY <3>3, <4>1 DEF RenewedSoFar
      <4> QED
        BY <3>1, <4>1, <4>2, <4>3, <4>4, <4>5 DEF RenewedSoFar, UpToDate
    <3> QED
      BY <3>2, <3>4 DEF RenewalInv
  <2>9. ASSUME NEW t \in Task, Interrupted(t)
        PROVE  RenewalInv'
    <3>1. \A u \in Task : pc'[u] = "renew" => /\ pc[u] = "renew" /\ at'[u] = at[u]
                                              /\ fresh'[u] = fresh[u]
                                              /\ alone'[u] => alone[u]
      BY <2>0, <2>9 DEF Interrupted, Await, Carry, TaskTypeOK
    <3>2. UNCHANGED <<created, held, saved, call, asked, token, behind>>
      BY <2>9 DEF Interrupted, registry, stream, calls, tokens
    <3> QED
      BY <2>s, <3>1, <3>2, RenewalUndisturbed
  <2>10. CASE UNCHANGED vars
    <3>1. UNCHANGED <<created, held, saved, call, asked, token, behind, pc, at, fresh, alone>>
      BY <2>10 DEF vars, registry, stream, calls, tokens, tasks, history
    <3> QED
      BY <2>s, <3>1, RenewalUndisturbed
  <2> QED
    BY <2>1, <2>2, <2>3, <2>4, <2>5, <2>6, <2>7, <2>8, <2>9, <2>10 DEF Next
<1>3. ClientTypeOK /\ RenewalInv =>
        \A t \in Task :
           alone[t] /\ pc'[t] = "idle" /\ Renewed(t) =>
              \A s \in Market : held'[s] \in {NoToken, token} \/ s \in behind
  <2> SUFFICES ASSUME ClientTypeOK, RenewalInv,
                      NEW t \in Task, Renewed(t), pc'[t] = "idle", alone[t],
                      NEW s \in Market
               PROVE  held'[s] \in {NoToken, token} \/ s \in behind
    OBVIOUS
  <2>1. CASE s \in Created
    <3>1. PICK k \in 1..Len(created) : created[k] = s
      BY <2>1 DEF Created, ClientTypeOK, StreamTypeOK
    <3> QED
      BY <3>1, RenewedSessions
  <2>2. CASE s \notin Created
    <3>1. held[s] = NoToken /\ s \in Stream /\ s # created[at[t]]
      <4>1. created[at[t]] \in Created
        BY DEF Renewed, ClientTypeOK, TaskTypeOK, Created
      <4> QED
        BY <2>2, <4>1 DEF RenewalInv, Stream
    <3> QED
      BY <3>1 DEF Renewed, Forget, ClientTypeOK, StreamTypeOK
  <2> QED
    BY <2>1, <2>2
<1> QED
  BY <1>1, <1>2, <1>3, ClientTypes, PTL DEF Spec, RenewalReachesStreams

=============================================================================
