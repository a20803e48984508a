# Verification of the StandX Python SDK

TLA+ models of the stateful parts of `standx_sdk`, checked with TLC on small
instances, and theorems about them checked with TLAPS for every value of the
constants. `PROJECT.json` maps every definition to the lines it models and lists
the runs, the theorems, the hazards and the places where the code and its own
documents disagree.

Contents: [1 the system](#1-the-system), [2 plan](#2-plan),
[3 modules](#3-modules-and-how-they-correspond-to-the-code),
[4 runs](#4-runs), [5 disagreements](#5-where-code-and-documents-disagree),
[6 fairness](#6-fairness), [7 proofs](#7-proofs), [8 limits](#8-limits).

## 1 The system

The SDK is an asyncio library: one event loop, any number of tasks of the
application calling shared objects. There are no threads, nothing is persisted,
and no locks beyond a few `asyncio.Lock`s. Whatever goes wrong goes wrong at an
`await`: state that was read before it and is used after it.

| Component | State | Operations | Talks to |
|---|---|---|---|
| `OrderStateReconciler` (domain/order_recovery.py) | cached orders, event watermarks, a lock per order | `apply_user_event`, `recover_pending`, `restore_open_orders` | REST order queries, `OrderResponseStream` |
| `OrderResponseStream` (streams/order_response.py) | closed, token, pending requests | `request`, `send_request`, `resolve`, `recover_pending`, `authenticate`, `connect`, `reconnect`, `close_async` | WebSocket, reconciler, client |
| `MarketStream` (streams/market.py) | closed, authenticated, auth context, subscriptions | `connect(_with_backoff)`, `authenticate`, `reauthenticate`, `subscribe`, `reconnect`, `receive`, `close_async` | WebSocket |
| `WebSocketTransport` (transport/websocket.py) | the connection | `connect`, `send`, `receive`, `close` | network |
| `HttpTransport` (transport/http.py) | headers, token expiry, closed | `get`, `get_text`, `post`, `set_token`, `aclose` | rate limiter, recovery callback, network |
| `AuthService` (auth/service.py) | token, its expiry | `login`, `set_access_token` | auth transport, callbacks of the client |
| `StandXClient`, `_Streams` (client.py) | created streams, token, closed | `reauthenticate`, `close_async`, `_sync_token` | all of the above |
| `CreditRateLimiter` (resilience/rate_limit.py) | credits, last update | `acquire`, `available_credits` | clock |
| `RetryPolicy` (resilience/retry.py) | none | `execute` | any call |
| `OrdersApi` (domain/orders.py) | none | `create`, `cancel`, queries | `HttpTransport`, symbol rules |
| `MarketsApi` (domain/markets.py) | cache of symbol rules, a lock per symbol | `symbol_info`, `clear_symbol_info_cache`, queries | `HttpTransport` |
| Account, positions, trades; validation; models; errors; signing; credentials | none | conversions | - |

How they meet. A REST call passes the expiry check, the limiter and httpx in
that order; a 401 or a local expiry runs the recovery callback, by default
`StandXClient.reauthenticate`: it logs in over a second transport, writes the
token into the first one and into the streams, and authenticates the Market
Streams again. A user event of the Market Stream makes the application call the
reconciler, which reads the order from REST. After a disconnection of the Order
Response Stream the application recovers the requests without a response, by
the reconciler again.

What makes each part correct, and what is hard about it:

- *Reconciler*: a snapshot is not replaced by an older one, an event handled is
  not handled again, and what it reported is in the cache. Events, recoveries
  and restores interleave; REST may lag; queries fail and tasks are cancelled
  with the lock in hand or in its queue.
- *Pending requests*: a request ends only by its response or by a snapshot of
  its own order. Responses and new requests arrive during the recovery.
- *Limiter*: the budget holds for every window of time, every call returns, and
  nobody sleeps longer than needed. Sleepers compete without a queue.
- *Market Stream*: `authenticated` describes the connection in use, a reconnect
  restores everything, a closed stream winds down. Drops come at any time, and
  connect, authenticate, reconnect and close suspend.
- *REST session*: header, recorded expiry and `AuthService` agree, mutations are
  not sent twice. Recoveries overlap with logins and injected tokens.
- *Client*: a closed client has closed everything, whatever failed on the way, and
  streams carry the token of the client, whenever they were created. Closing and
  re-authenticating walk a list that grows while they are suspended, over streams at
  which the application connects, reconnects and authenticates.
- *Symbol rules*: rules do not go back, and concurrent first calls share one load.
  Clears, refreshes, failures and publications run beside a fetch.
- *Orders*: what is wanted once is not placed twice, an error that says nothing was
  placed is right, rules that an order is checked by are not stale, and it is known for
  which retry policies this does not hold. Requests
  time out and still arrive; policies and callers repeat them.

## 2 Plan

Done, in this order: reconciler; recovery of pending requests on top of it;
limiter with its abstract budget; Market Stream; REST session; Order Response Stream
session; the symbol rules with order validation, retries and the submission of
orders, composed in `OrderSubmission`; the client with its registry of streams; the
abstract `OrderOutcome` that submissions implement; the abstract `PendingRequests` that
the stream session and the recovery implement; submissions as a client of `SymbolRules`.
Every safety property that a run finds to hold is also a theorem.

Next, most important first:

1. Liveness of submissions, on a smaller instance than `order_submission`.
2. The delays of the two backoff loops of the streams, as those of `RetryPolicy`.
3. One composition of recovery and session, in which the recovery by order runs over
   connections that come and go.

## 3 Modules and how they correspond to the code

In every module an action is what one task does between two `await`s at which
it really suspends, `pc[t]` says at which one it is, `op[t]` in which call. A
task that is cancelled or whose I/O raises takes an action of its own. What the
servers, the network and the clock do are actions of the environment.

### OrderReconciler

`orders`, `eventWatermarks` are `_orders`, `_event_watermarks`; `holder` and
`waiters` are the `asyncio.Lock` of each order, first come first served: a lock
is taken without suspending only if nobody holds it and nobody queues, and a
release lets the first waiter take it when it runs. The states of an order are
numbered; `UpdatedAt` gives their time stamps, which may coincide or be missing.
`exchange` is the newest state, `rest` the newest one REST shows.

| Code | Actions |
|---|---|
| `apply_user_event` | `ApplyUserEvent` (to the lock or the query), `EventGranted` (under the lock: the watermark check), `EventAnswered` (watermark, cache, release) |
| `query_locked` in `recover_pending` | `QueryLocked`, `RecoverGranted`, `RecoverAnswered` with `Storable` = `_store_snapshot` |
| `restore_open_orders` | `RestoreOpenOrders`, `RestoreListed`, `RestoreGranted`: the loop takes free locks without suspending, and so runs until a busy one (`StoreUntilBusy`) |
| exceptions, cancellation | `CallFails` |

Two constants say what REST may do: `StaleReads` (a read may return an older
state than an earlier read) and `EventsAhead` (an event may arrive before REST
shows its state).

### OrderRecovery

Extends the reconciler by `pending` (`_pending_requests`) and the loop of
`recover_pending`: `batch[t]` is the copy it iterates over, `current[t]` the
request it queries. Between the end of one query and the start of the next the
loop does not suspend; `LoopIsFree` keeps other coroutines out. `request` and
`resolve` are `Register` and `Respond`. Request ids need only be unique while
pending; `ReuseIds` allows an id again after that.

### CreditBudget and RateLimiter

`CreditBudget` is the promise: a leaky bucket. `RateLimiter` is the code: lazy
refill, sleep for the deficit, look again. Time is counted in the credits it
brings, so `accrued` is the time since `_last_update` and `remaining` the rest
of a sleep. `spent` and `gained` record one window of time, which may begin at
any tick; that makes `WindowBudget` a statement about all windows. The budget's
`level` is `Capacity - Available`.

### MarketStream

The stream, its transport and the server's view of each connection (`accepted`,
`subscribed`, unread `answers`). `context` is token, impersonate and streams of
the last authentication, which the code stores and clears together.

| Code | Actions |
|---|---|
| `connect`, `connect_with_backoff` | `Connect`, `ConnectDone`, `ConnectFails`, `PauseOver` |
| `authenticate`, `reauthenticate` | `Authenticate` (clear, send), `AuthReceives` (the next message, an answer or data), `Accepted`, `Refused`, `ReadFails` |
| `subscribe` | `Subscribe`: nothing is recorded unless it could be sent |
| `reconnect` | `Reconnect`, `CloseDone`, `ConnectDone`, then as `authenticate`, then `Replay` |
| `receive` | `Receive`, `Received`, `ReadFails` |
| `close`, `close_async` | `Close` (the flag only), `CloseAsync`, `CloseDone` |
| network, loop | `Drop`, `Forget` (a connection nothing refers to may be reused as a new one), `Cancel` |

A connection attempt may end the moment `websockets.connect()` returns, and
`CloseDone` forgets whichever connection there is by then, as in the code.
One constant is a discipline of the caller, `OneConnector`: one task at a time connects,
and `connect()` is used only if no connection is open. `doubtful` (history) says that the
stream cannot tell what was accepted on its connection: the last `authenticate()` on it began
while the answer to another one was unread or awaited, or a plain `connect()` opened it
for a stream that still called itself authenticated.

### PendingRequests

What the order response stream promises of its requests, without connections, readers or
recoveries: `Ask` registers a request that was not registered before and may send it then,
`Learn` ends a request that is pending. So nothing is sent later than at its registration,
nothing known becomes pending again, and no outcome is made known twice. Two modules
implement it: `OrderResponseSession` with the same variables, and `OrderRecovery`, where a
request is pending while it has a correlation and each that was issued counts as sent.

### OrderResponseSession

Requests from the moment they are registered until their outcome is known, over
connections that come and go. `pending` is `_pending_request_ids` with the keys of
`_pending_requests`, which the code changes together. `asked` and `unread` are the
requests the server has not answered and the responses nobody has read; they belong
to a connection. `sends` and `known` are history.

| Code | Actions |
|---|---|
| `send_request` with `request` | `SendRequest`: `Register`, then `Transmit`, which may fail and leaves the id registered |
| `authenticate` | `Authenticate`, then `Reads` or `ReadFails` |
| `receive` with `decode_response` | `Receive`, `Reads` (`Decode`), `ReadFails`: whoever reads takes the next response |
| `recover_pending` | `RecoverPending`, `Queried`; the query is the caller's, and what it finds is open. `OrderRecovery` is the same loop with the reconciler's query |
| `connect`, `connect_with_backoff`, `reconnect` | `Connect`, `ConnectDone`, `ConnectFails`, `PauseOver`, `Reconnect` |
| `close`, `close_async` | `Close` (the flag only), `CloseAsync`, `CloseDone` |
| network, server, loop | `Respond`, `Drop`, `Cancel` |

A response may be valid or not (`_validate_response`). Callers may retry a request at
any time while its outcome is unknown, connect and reconnect from several tasks at once,
and close whenever they like: there is no discipline. Which token a login sends and stores
is modelled in `ClientLifecycle`.

### RestSession

`HttpTransport` with `AuthService` and the token synchronisation of the client.
`header` is the token of the Authorization header, `expiry` the token whose exp
is recorded (`NoToken`: none). `recovers` and `streams` say whether the client has
a recovery callback and Market Streams; they are chosen once.

| Code | Actions |
|---|---|
| `get`, `get_text`, `post` up to the first suspension | `Request` (closed? expired? recover or wait for credits) |
| the request goes out with the header as it is then | `Send` |
| 401 | `Unauthorized`: a GET with a recovery left; otherwise the call `Ends` |
| `_recover_authentication`, `reauthenticate`, `login` | `Login`, `StreamsDone`: the final `set_token` comes after the streams |
| `set_access_token` | `SetAccessToken`, `ClearAccessToken` |
| `aclose` | `Aclose` (httpx closes at once), `Closed` (the transport knows) |

`retry_policy` is the same call made again from its start, so it needs no action
of its own here; `OrderSubmission` models it.

### SymbolRules

`MarketsApi.symbol_info` with its cache. Rules are versions in the order in which
the exchange publishes them; `published` is the one in force, `holder` the task in
the lock of a symbol. `got` is what a call was given, `floor` (history) the oldest
it may be given, `newest` (history) the newest any call was given; `spare` (history)
counts the loads that are accounted for: one at the start, one per clear, one per
failure.

| Code | Actions |
|---|---|
| `symbol_info` up to its first suspension | `SymbolInfo`, `Ask`: cached, lock free (`Locked`: look again, then request), or wait |
| the lock | `Granted` |
| the request, decoding, storing, release | `RulesAnswered` (the exchange reads), `RulesFetched` |
| exceptions, cancellation | `RulesFail` |
| `clear_symbol_info_cache` | `Clear` |
| exchange, caller | `Publish`, `Used` |

### OrderRules and RestErrors

Pure operators. `OrderRules`: `WellFormed` is `CreateOrderRequest.__post_init__`,
`MeetsRules` is `validate_order`; a decimal is coefficient and exponent, since the
checks compare values but count the decimals as written. `RestErrors`: which code and
retryable flag a status, a timeout, a lost connection or a bad body becomes, and what
`RetryPolicy` does with it (`CanRetry`, `Retries`, `Pause`, `NextDelay`); the codes of
a policy are a set, or `AnyCode` for `retryable_codes=None`, the default: whatever error is retryable.

### OrderOutcome and OrderSubmission

`OrderOutcome` is what the orders API promises of each order: once it is wanted, the
exchange may carry it out and the caller may be told, in one step or in two; carried out
at most once; told once, except that what was not found may be asked for again; and an
unknown outcome can be looked up unless the order is anonymous, which is why a refusal of
an anonymous order is binding. Of `Rash` orders it promises neither that they are carried
out once nor that a refusal is binding. Rules, retries, pauses and late requests do not appear.
`OrderSubmission` implements it with `wanted <- Begun` (the intents a task
works on or whose caller was told something) and `Anonymous <- Create \ Named`.
It also implements `SymbolRules`, whose caller it is: a task is where `symbol_info` sees it
(`MarketPlace`), with rules in hand (`HasRules`) from the answer of `symbol_info` until its
request is on its way or its attempt is over, and `MarketAfter` is what it does with them.

`OrderSubmission` composes rules, validation and errors. An *intent* is one order to place or to cancel. `applied` counts
how often the exchange carried it out, `late` the requests that were given up and are
still on their way, `told` what the caller knows. `intent`, `attempt`, `delay` and
`wait` are the call and its policy.

| Code | Actions |
|---|---|
| `create`, `cancel`, `cancel_many` begin | `Submit` (`StartCreate` asks for the rules, `StartCancel` posts at once) |
| `validate_order` | `Checked`, `RulesError` if the rules could not be had |
| `HttpTransport.post` | `Post` (expired token, wait for credits), `Answered` (result, bad body, status), `GivesUp` (timeout, lost connection) |
| timeout to `ORDER_UNKNOWN` | `Reported` |
| `RetryPolicy.execute` | `Raise`, `PauseOver`: each attempt makes the whole call again |
| `query_order` | `QueryOrder`: after an unknown outcome, by an id the caller knows |
| network, exchange | `ArrivesLate`, `Carry`: a known `cl_ord_id` counts once |

Each intent has a retry policy around its calls: `RetryableCodes` gives its codes, none
without a policy, `AnyCode` with the SDK's default. `OpenCodes` are the retryable errors
after which an order may have been placed, and `Rash` are the orders without a `cl_ord_id`
of the caller whose policy retries them, those of the default policy among them: `create`
makes up a new id at each attempt. `Submit` is the caller who repeats: a named order or a
cancel that was not found, never an order without a name. That the exchange places a
`cl_ord_id` once is an assumption about the exchange (`Duplicate`), as the SDK's
documents make it.

### ClientLifecycle

`StandXClient` with `_Streams`, and of the streams what the client's calls meet there. A
stream is open or closed (`ended`) and has a connection or not. `held` is the `_token` of an
order stream and the token a Market Stream is authenticated with, `saved` the
`_auth_token` a Market Stream would reconnect with. `created` is the live list that the loops walk,
`at` the place of a task in it. The tasks are the client's `close_async` and `reauthenticate`;
the application has one call at a time at each stream, `call[s]` is the await it is at and
`asked[s]` the token it authenticates with.

| Code | Actions |
|---|---|
| `market`, `order_response` | `MakeStream` |
| `close_async` of client and registry | `CloseAsync`, `StreamClosed`, `TransportClosed`: flags are set after the awaits, in that order |
| `_sync_token`, `set_access_token` | `SetToken` within `SetAccessToken`, `Reauthenticate` |
| `reauthenticate` of client, registry and stream | `Reauthenticate`, `Renewed`: the session is cleared, the answer awaited, the session set |
| `connect`, `reconnect` of a stream | `Connect`, `Connected`; `Reconnect`, `Disconnected`, `Connected`, and on a Market Stream `Authenticates` with the token saved |
| `authenticate` of a stream | `Authenticate`, `Authenticates`: an order stream stores the token it sent, whatever was set meanwhile |
| `close_async` of a stream | `CloseStream`, `Disconnected` |
| exceptions, cancellation | `Interrupted` of a task, `Raises` of a call, at any await |

Three histories say what a statement may rest on. `overtaken`: streams that were closed while
the application connected them. `behind`: streams at which a call goes on with a token from
before the current one, and that were not authenticated with the current one since. `alone`: no
token was set since this renewal began.

## 4 Runs

| Run | Checks | Bounds and why they are enough |
|---|---|---|
| `reconciler_cache` | types, `LockGuardsRefresh`, `QueueIsExact`, `WatermarkIsReflected`, `WatermarkNeverRegresses`, `OrdersNeverRegress` | 3 tasks on one order: one holds its lock, two queue, so the order of the queue counts; 4 states: one without a time stamp, which passes every comparison, and two with the same one. Reads do not go back and events do not overtake REST, as `OrdersNeverRegress` and `WatermarkIsReflected` need |
| `recovery_pending` | `ResolvedByItsOwnOrder`, `ReconcilerImplemented` | 2 orders, so that a restore stores one and waits for the other and a request can be confused with another's order; 2 requests, 2 tasks: two recoveries at once, or one and an event. Stale reads and early events allowed |
| `recovery_ends` | `RecoveryEnds`, `EveryCallReturns` | 2 requests of one order, so that recoveries, events and restores wait for one lock; no symmetry, as liveness needs |
| `limiter_burst` | types, `WindowBudget`, `NeverOversleeps`, `BudgetImplemented`, `EveryAcquireReturns` | 3 tasks with 2 calls each; costs 2, 5 and 6 with capacity 5: one that leaves a rest, the boundary, the refused one; a rate that divides none of them; windows of up to 3 ticks, in which an empty bucket is full again |
| `market_session` | types, `AuthenticatedIsLive`, `SubscriptionsRestored`, `NoOrphanConnection`, `ClosedWindsDown` | 2 tasks (one connects, the other reads, authenticates or closes), 2 connections (old and new), a public channel, whose data may come before an answer, and a user channel; 2 unread answers, so that a call can meet another's; one token, since an answer taken for another's shows in whether it accepts; 2 attempts to connect |
| `market_calls_end` | `CallsEnd` | 2 tasks, 2 connections, a public channel; 2 attempts to connect; no symmetry, as liveness needs |
| `order_session` | types, `NothingIsResent`, `ClosedWindsDown`, `RequestsImplemented` | 2 tasks (a reconnect or recovery beside a reader, a login or a close), 2 connections (old and new), 2 orders so that a response or a query can be another's, 1 login; 2 attempts to connect |
| `rest_session` | types, `ExpiryIsOfHeader`, `NothingIsReplayed`, `LoginReachesRequests` | 2 tasks, 3 tokens (two expire, one is opaque): two recoveries and an injected token; with and without Market Streams, with and without a recovery callback |
| `order_submission` | types, `RulesNeverRegress`, `LoadsAreShared`, `AppliedOnce`, `OneRequestPerAttempt`, `RefusedIsNotApplied`, `OutcomeImplemented` | 2 tasks; two of four intents: a named order and an unnamed one under the default policy, an unnamed one retried for refusals by rate and timeouts, a cancel without a policy; 2 versions of the rules, of which the second refuses two of the orders; 2 attempts; one load beyond the first for a clear; a status of each kind: unknown, retryable refusal, server error; a Retry-After above the maximum |
| `client_close` | types, `ClosedMeansClosed`, `StreamsShareTheToken`, `RenewalReachesStreams` | 2 tasks: two closes or renewals that overlap, or one of each; 2 Market Streams, so that a loop is suspended with streams before, at and behind its place, and an order stream; 2 tokens, an older one and a newer; a call of the application at one stream at a time, which is what a loop meets at its place, before or behind it |

What they show: the per-order lock makes a refresh a critical section, and with
it the check before the query and the update after it are enough - for the
watermark always, for the cache as long as REST does not answer from the past.
The recovery of requests adds nothing the reconciler does not already allow. The
bucket that is refilled lazily keeps the documented budget. With one
connector the Market Stream's flag can be trusted, whoever reads the answers and
whatever data comes before them, unless authentications overlap or a plain `connect()` carries
the flag over. A closed stream begins no attempt to connect, but one that is under way
opens. An order request goes out at most once, when it is registered, whoever retries or
reconnects, and is pending until its outcome is known. No interleaving of recoveries sends a mutation twice.
The lock and the second look at the cache are enough for shared loads and for rules
that do not go back, although clears do not take the lock. With a `cl_ord_id` every
retry is harmless. Without one, a policy that retries only what says nothing was placed is
harmless too, thanks to the mapping of timeouts to a final `ORDER_UNKNOWN`; the default policy
places such an order once per attempt at worst. What the caller is told of an order is the
end of it or that it is unknown, as `OrderOutcome` has it. A client that is closed has closed
every stream and transport because its flags are set last and its list is read live; what may
open afterwards is the connection that was in the making when its stream was closed. A new token
reaches every stream at which no call with an older one is under way.

Deadlock is checked everywhere but in `rest_session` and `client_close`: tokens are
provided once each, so that a closed session that has used them all has nothing to do.

Each property has a mutant of the code's definition that breaks it under the
same configuration; the mutants stand beside the definition they change.

## 5 Where code and documents disagree

Two runs state what a document says, and TLC finds it violated; the trace is
the scenario. The quotations are in `PROJECT.json`.

| Run | What the trace shows |
|---|---|
| `recovery_missing_order` (`MissingOrderStaysPending`) | REST finds nothing, the cached order answers instead, the request is no longer pending |
| `rest_lost_expiry` (`ExpiryInSync`) | after a recovery the expiry is unknown: the final `set_token` clears it |

The models show more of this kind. These have no run of their own:

- `StaleReads = TRUE` in `Reconciler_cache.cfg` breaks `OrdersNeverRegress`: an event
  stores any answer at least as new as the event, without the comparison with the
  cached order that `_store_snapshot` makes (order_recovery.py:41), although
  `docs/standx-sdk-portable-design.md:411` forbids an older snapshot to overwrite a
  newer one and `CHANGELOG.md:39` says the watermarks prevent it.
- With Market Streams a recovery that resumes after them puts its older token back
  (`StreamsDone`; `LoginReachesRequests` without `~streams`): `docs/standx-sdk-design.md:227` has
  every login and injected token synchronised to the transport.
- A POST that loses its connection raises a retryable `PROTOCOL_ERROR` (`Disconnected`,
  as `docs/standx-sdk-design.md:283` says), so that a policy without `retryable_codes`
  sends it again; the portable design (418-424) has every disconnect of an operation with
  side effects treated as unknown and never retried. Each attempt of `create` without a
  `cl_ord_id` has a new one, so that under the default policy it may place the order once per
  attempt (`OneRequestPerAttempt`), and may say refused of the last attempt while an earlier one
  was placed: `AppliedOnce` and `RefusedIsNotApplied` do not hold of `Rash` orders.
- A caller who repeats a named order after an unknown outcome may be told that it was
  refused while the first request is still on its way: `RefusedIsNotApplied` does not
  hold of `Named`.
- `create` makes up a `cl_ord_id` when there is none, but `ORDER_UNKNOWN` does not carry
  it, although its text says to query by it (orders.py:86).
- `_result` applied to a JSON body that is not an object raises `AttributeError`, which
  `_protocol_decode` does not convert (orders.py:182-217), against
  `docs/standx-sdk-design.md:287`; and a result with any `code` is a success. Both are
  outcomes of `Answered`.
- `clear_symbol_info_cache()` during a fetch is undone when the fetch stores its older
  answer (`Clear`, `RulesFetched`).
- A stream that fails to close ends `close_async` (`Interrupted`): the rest stays open until it
  is called again, although `docs/standx-sdk-portable-design.md:146` has a close close all.
- Of two `reauthenticate()` calls that overlap, the second skips the stream the first is
  authenticating, which then has the older token: `RenewalReachesStreams` without `alone`. A
  renewal also skips a Market Stream that is being reconnected or authenticated, as
  its session is cleared, and the reconnect goes on with the token it has saved
  (market.py:219-227): the same property without `behind`.
- The login of an order stream stores the token it sent after the answer
  (order_response.py:254), over a newer one that was set meanwhile: `StreamsShareTheToken`
  without `behind`, although `docs/standx-sdk-portable-design.md:184` has the token
  synchronised to REST and to the streams that need it.
- The jitter of a `RetryPolicy` is applied after the cap (retry.py:50-52), so that a pause may
  exceed `max_delay`.
- The session id header of REST requests is that of the order stream created last, also when
  that one is closed (client.py:51).
- `ReuseIds = TRUE` in `Recovery_pending.cfg` breaks `ResolvedByItsOwnOrder`: a
  response and a new request with the same id during the query, and the recovery
  clears the new one.
- `close_async()` of a stream that is connecting finds nothing to close and returns, and then
  the connection is opened: `ClosedWindsDown` cannot say more than that no new attempt begins,
  and `ClosedMeansClosed` has to except `overtaken`. `docs/standx-sdk-design.md:601,619` let
  nothing connect after an explicit close and have a manual close cancel the reconnect task;
  `docs/standx-sdk-portable-design.md:146,385` and `CHANGELOG.md:75` say the like. The order stream
  sends requests on such a connection, since `send_request` does not look at `_closed`.
- `close()` sets `_closed` and leaves the connection open (base.py:9), so that a stream that is
  closed goes on receiving, subscribing and sending on it.
- The login of the Order Response Stream takes the next response for its own
  (`Reads`): after a login that was cancelled, or with an order unanswered, it reads
  the response to another request, and it stores its token even if rejected.
- A request whose send failed stays pending though it was never sent (`Transmit`), and
  `request()` refuses to send it again.
- `OneConnector = FALSE` in `Market_session.cfg` breaks `NoOrphanConnection` (a second
  `connect()` overwrites a connection that is open) and `AuthenticatedIsLive`.
- Also with one connector, a plain `connect()` after a drop keeps `authenticated`, so that user
  channels are subscribed to without authentication; and an `authenticate()` that begins while
  another's answer is unread takes that answer for its own. `AuthenticatedIsLive` fails without
  `doubtful`; `docs/standx-sdk-design.md:576` has the flag set by the success of the authentication.
- `authenticate()` clears the stored context before it sends (`StartAuth`), so a
  drop while a reconnect authenticates leaves the next reconnect nothing to
  restore.
- A message of data before the answer makes `reauthenticate()` fail though the
  server accepts (`AuthReceives`), and its answer is left for whoever reads next.
- A GET may recover twice, from a local expiry and from a 401: that is the bound
  of 2 in `NothingIsReplayed`.
- Closed and expired are checked before the wait for credits (`Request`) and not
  after it (`Send`): an expired token is sent, or a closed httpx client used.

## 6 Fairness

- *Reconciler and recovery*: fairness of each task's next step after a
  suspension. The loop runs every ready task; an HTTP request ends by an answer
  or by the transport's timeout; `asyncio.Lock` is first come first served, which
  is in the model, so the queue needs no assumption. It is strong fairness because a
  recovery loop keeps the event loop to itself between two queries and so disables
  the others for a moment, again and again if it is called again and again; the
  ready queue of asyncio is first in first out and passes nobody over. New
  calls, changes of orders and failures are never assumed.
- *Limiter*: time goes on, and a task whose sleep is over runs. The number of
  calls is bounded in the run, because the code has no queue: an endless
  stream of newcomers could keep a sleeper out, and no fairness the event loop
  gives would prevent that.
- *Market Stream*: strong fairness of each task's progress, because other tasks may
  keep replacing the connection. The loop runs everything that is ready before it
  polls again, so a step that is enabled again and again is taken; an attempt and
  a close have time limits, and pings end a dead connection. `receive()` may wait
  for ever and is not included.
- *REST session, Order Response Stream session, submissions, client*: none; only safety
  is stated. That a submission ends needs the fairness of the loop and the exchange only,
  but its state graph with 2 tasks is too large for TLC's liveness check.

## 7 Proofs

Each safety property that a passing run checks is a theorem here, for every value of the
constants. The theorems follow one pattern: types, then an invariant that says what a task
knows where it is, then the property. Below, what had to be added to each property, and why.

`OrderReconcilerProofs`:

- `TypeCorrect`, and `RefreshIsExclusive` for `LockGuardsRefresh`, which is inductive
  together with the types.
- `NoWakeUpIsLost` for `QueueIsExact`: each step adds to the queues or takes from them
  exactly the task that starts or stops to wait. It rests on three lemmas on sequences
  without repetition (append, tail, remove one) and one that sees the queue as a set.
- `WatermarkMonotone`. The watermark is checked before the query and written after it.
  `WatermarkInv` adds `EventIsNew`: a task that is refreshing on an event is still past the
  watermark. It holds because only the holder of the lock moves the watermark.
- `OrdersMonotone`, for `~StaleReads`. `ReadInv` adds `ReadsAreOrdered`: the answer in a
  task's hand, or in its list, was read after the cached order was, or is checked against it.
- `ProcessedEventsAreCached`, also for `~EventsAhead`. `EventsAreShown` adds that the state
  an event reports is one REST already shows.

`OrderRecoveryProofs`:

- `RecoveryImplementsReconciler`, step by step, so that the theorems above hold of the
  recovery as well: `RecoveryKeepsLocks` and `RecoveryKeepsOrders` say so of the locks, the
  queues and the cache, which no run checks of the recovery by itself.
- `RecoveryTypes`: the copy a recovery iterates over, its order and its place in it.
- `RecoveryIsCorrelated` for `~ReuseIds`, from `RecoveryInv`, which ties a running
  recovery's copy to the requests that are still pending.
- `RecoveryKeepsRequests`, also for `~ReuseIds`: the recovery with the reconciler's query
  implements `PendingRequests`. The step that needs the invariant is `RecoveryAnswered`: what
  it clears is pending under the correlation that the recovery copied, or nothing.

`OrderSessionProofs`:

- `SessionTypes`.
- `RequestsAreSentOnce` and `RequestsAreNotForgotten` together, since a request is not sent
  twice only because it is pending or known once it was sent: every step sends a request
  that is neither, makes one known or leaves them alone.
- `StreamKeepsRequests` for `RequestsImplemented`. The invariant above does not suffice: it
  says nothing of where an id that becomes known comes from, and an outcome could become
  known of a request that nobody registered. `HeldInv` adds that whatever the server
  (`ServerIsAsked`), the network (`ResponsesAreOurs`) or a task (`TasksHoldOurs`) holds was
  registered before, however many connections ago. `RequestEffect` then sorts the steps by
  what they do to the requests: nothing, register one, or make one known.
- `ClosedSessionWindsDown`, from the types alone: each step of a closed stream either leaves
  attempts and connections alone (`CalmMove`), or ends one attempt with one connection.

`RateLimiterProofs`: `LimiterInvariant` from `LimiterTypes`, `NeverOversleeps` and the
`Ledger` (what the window spent and the bucket still holds is at most the capacity and what
it gained). `WindowBudget` alone is not inductive, since it says nothing about what may still
be spent. `BudgetIsKept` and `SleepIsNeverTooLong` follow; `LimiterImplementsBudget` maps
each step to a `Spend`, a `Replenish` or a stutter.

`MarketStreamProofs`. `MarketTypes`, `SubscriptionsSurviveReconnects` and
`ClosedStreamWindsDown` hold whatever the callers do. The rest has `OneConnector` as its
hypothesis, which is a promise of the callers: the code does not enforce it, and section 5 says
what happens without.

- `ConnectionInvariant`. `NoOrphanConnection` is
  not inductive: the transport forgets its connection when some `close()` ends, so that
  nothing may be open by then. `ConnectionInv` adds `TaskInLine` (nothing is open while
  anybody closes, connects or pauses) and `OneConnects`. `NoConnectionIsOrphaned` follows. It
  says nothing of a closed stream, which may have connections that nobody closes.
- `AuthInvariant`. That the flag tells the truth rests on whose answer a task reads. On a
  connection that is not doubtful, `AuthInv` has one task at most that waits for an answer
  (`Waiters`), and the one answer there is, unread or read, is its own (`OwnAnswer`): if
  it accepts, the server has accepted the task's token. A reader that takes the answer, a cancelled
  call and data that comes first only take from that. `AuthenticatedStreamIsLive` follows.
- `SubscriptionsSurviveReconnects` adds `RestoredIsKept`, since a connection object that nothing
  refers to may be used again: the one that was restored is the transport's, or the server
  has accepted a token on it, or there is no connection and no context to restore on one.

`RestSessionProofs`: `RestInvariant` takes `ExpiryIsOfHeader` and `LoginReachesRequests` as
they are, since every step changes header, expiry and token together, and adds
`CallIsCounted` for `NothingIsReplayed`: where a call is and whether it has had its 401 say
how often it has sent and recovered. `RestTypes`, `ExpiryBelongsToHeader`,
`RequestsAreNotReplayed` and `LoginsReachRequests` follow.

`OrderSubmissionProofs`:

- `RulesAreMonotone` and `RulesAreLoadedOnce` of `SymbolRules`, from `RulesInv`. It ties
  the cache to the history: what is cached is the newest that was given, and the answer in a
  fetching task's hand is not older, because only the holder of the lock makes `newest` grow;
  and a symbol that is neither cached nor being loaded has a load to spare. One lemma per
  action, so that they serve the whole of a submission as well: `SubmissionRules`.
- `SubmissionTypes`, with attempts and pauses in their bounds, from `PolicyInv`.
- `OrdersAreAppliedOnce` and `RefusalsAreFinal`, from `ExchangeInv`: no two tasks work on
  one intent, and of a `Careful` order (without a name, and not `Rash`) one request goes out at
  most, and none while its caller knows nothing of its end. `HttpErrorIsUncertain` and
  `CutOffIsUncertain` are the heart of it: the errors after which it may have been placed are
  neither refusals nor retried.
- `OrdersAreBounded`, which is what is left for the others, the default policy included.
  `BudgetInv` counts the requests of an order, placed or on their way, against the attempts its
  task has `Spent`: the current one counts once it is over, as only then it may have left a
  request behind.
- `SubmissionsKeepTheirPromise`: `OrderSubmission` implements `OrderOutcome`. `SubmissionEffect`
  sorts the steps by what they do to the intents (none of it, begin one, work on one, bring a
  late request home, look one up), and each sort is a step or a stutter of the abstract
  specification. `OutcomeInv` says that an idle task has no intent, that a task never works on
  an intent whose fate was already told, and that what is on its way was asked for.
- `SubmissionsUseSymbolRules`: `OrderSubmission` implements `SymbolRules`. A task that
  `symbol_info` sees as idle may be posting, pausing or cancelling, and when it asks for rules
  the abstract call starts from nothing; `MarketInv` says that by then the attempt before has
  left nothing of its own behind, rules, floor, refresh or continuation. `CheckedInv` adds that
  a call that is to be checked has rules. Steps behind `symbol_info` are stutters, or one step that
  lets go of the rules.

`ClientLifecycleProofs`: `ClientTypes`, and from one invariant each:

- `ClientCloses`, from `ClosingInv`: a task that is in the loop at some place has ended every
  stream before it, and those still have a connection only if `overtaken`; the
  flag of the registry is set only with that true of the whole list. Calls of the application may
  undo it in one way, a `connect()` that was under way when its stream was closed, and `Keeps`
  says that they do no more.
- `ClientTokens`, from `TokenInv`: a login that goes on with another token than the client's is
  told by `behind`, an order stream saves no token for its reconnects, and renewals wait for
  Market Streams only.
- `RenewalsReachStreams`, from `RenewalInv`: a renewal that is still alone carries the
  client's token, is the only one, has left no older session up to its place in the list but
  where `behind` tells, and no call goes on with an older token but where it tells (`InTime`); a
  stream that is yet to be appended behind that place has no session.

The assumptions used are those named in the modules: `ConstantsAssumption`,
`UpdatedAtAssumption` (later states do not carry earlier time stamps),
`RequestAssumption`, `OrderSessionAssumption`, `LimiterAssumption`, `StreamAssumption`,
`SessionAssumption`, `RulesAssumption`, `PolicyAssumption`, `SubmissionAssumption`,
`ClientAssumption`.

Two of the refinements are theorems without a run of their own, `RecoveryKeepsRequests` and
`SubmissionsUseSymbolRules`. TLC finds `RequestsImplemented` to hold with
`Recovery_pending.cfg` and `SymbolRulesImplemented` with `Order_submission.cfg` too; the
configurations leave them out, to stay with what `ResolvedByItsOwnOrder` and
`RulesNeverRegress` ask of the same code.

Only model-checked: `EveryCallReturns`, `RecoveryEnds`, `EveryAcquireReturns` and `CallsEnd`,
which hold under fairness, and liveness is out of the prover's reach; and the two statements
of section 5, which TLC refutes.

## 8 Limits

More behaviours than the code (so what holds in the model holds in the code):

- The order of dict entries and of a REST list is arbitrary.
- The initial state of the server is any: that is a restart.
- `Reported` lets an event be repeated and delivered in any order.
- A connection attempt, a login or a request may fail at any time.
- The lock of a symbol lets any of its waiters in next; `asyncio.Lock` is first come,
  first served.
- Of the streams of a client any call may be interrupted at every suspension.

Fewer, or other, with the reason:

- `WebSocketTransport.send` does not suspend: it does so only when the write
  buffer is full.
- Time is whole ticks and credits whole numbers; the code uses floats. The clock
  does not go back (it is `time.monotonic`; an elapsed time below zero counts as none).
- A token expires for the server and for the local clock at once.
- A custom recovery callback, the session id header, signing and the texts of errors are
  not modelled, nor is the recovery from an expired token before a POST: it is an error
  (`Post`), as for a client without a wallet signer.
- The arrival of a request and its answer are one step (`Answered`), unless the task gives
  the request up.
- Rules given by the caller, and an `OrdersApi` without a provider of rules, are not modelled:
  they leave out a part of the call.
- `RetryPolicy` has no jitter, and its delays are whole units.
- An order that REST returns carries the `cl_ord_id` it was asked by; one without any would be
  returned and not stored (order_recovery.py:79).
- In `ClientLifecycle` the application has one call at a time at each stream, and at `MaxCalls`
  streams in a run. A connection is there until a close ends it: one that drops is replaced by
  `reconnect()`. A token is not cleared; the auth transport has an `aclose`.
- `Task`, `Conn`, `Token`, `MaxAnswers`, `MaxSpare`, `MaxIntents`, `MaxLate`, `MaxVersion`,
  `MaxCalls`, `MaxWindow` and the sets of streams, orders and requests are bounds of the runs; each
  is named where it is declared. The theorems hold for all of their values.

Not modelled: decoding of messages, the queries of markets, account, positions and
trades, and the frozen models convert JSON and keep no state; configuration and
redaction are values and texts; credentials, wallets and signing are cryptography;
test doubles and the credential script are not part of the SDK.
