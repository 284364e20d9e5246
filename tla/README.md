# Specifications of hermes-mq

TLA+ models of hermes-mq (`src/src`), a RabbitMQ library with RPC and
publish/subscribe on a shared connection, the TLC instances that check them and
the TLAPS proofs about them. Paths below are relative to `src/src` unless they
start with `src/`.

Everything runs on one JavaScript event loop. There are no data races; the
hazards are what happens **between two awaits**, where timers fire, channel and
connection events are dispatched, other calls run, and every continuation then
reads `this.channel`, `this.connection` or a map again. An action of a model is
what runs between two such points.

## 1. Inventory

| Component | State | Operations | Talks to |
|---|---|---|---|
| `core/resilience/CircuitBreaker` | state, failure count, half-open attempts, time of the last failure | execute, reset, forceReset | wraps `amqp.connect` for ConnectionManager |
| `core/retry/RetryPolicy` | none (the attempt number is local) | execute, shouldRetry, getDelay | wraps connect, RpcClient.send, Publisher.publish |
| `core/connection/ConnectionManager` | connection, isConnecting, isClosed, listeners of waiting calls | getConnection, close, resetCircuitBreaker; connection `error`, `close` | every component asks it for the connection |
| `core/connection/ConsumerReconnectionManager` | attempts, timer, callbacks in progress | scheduleReconnect, reset, cancel | calls back RpcServer / Subscriber |
| `client/rpc/RpcClient` | channel, isReady, pendingRequests, their timers, abort listeners, cleanup interval | send, handleReply, cleanupExpiredRequests, close; channel `error`, `close` | broker, RetryPolicy |
| `server/rpc/RpcServer` | channel, consumerTag, isRunning, handlers, in-flight set | start, stop, registerHandler, unregisterHandler, handleRequest, reRegisterConsumer; channel `error`, `close`, `cancel` | broker, deduplicator, reconnection manager |
| `core/message/MessageDeduplicator` | LRU cache with lifetime | process, clear | called by RpcServer around the handler |
| `core/message/MessageParser` | none | parse (size limit, JSON, validator) | RpcServer, Subscriber |
| `client/pubsub/Publisher` | channel, asserted exchanges | publish, publishToMany, close | broker, RetryPolicy |
| `server/pubsub/Subscriber` | channel, consumerTag, running, handlers, in-flight set | on, start, stop, handleMessage | broker, reconnection manager |
| `core/message/MessageBuffer` | queue of promises | add, flush, clear | nobody in the repository |
| `core/health/HealthChecker` | registered servers | check, registerServer, unregisterServer | reads ConnectionManager, RpcServer, Subscriber |
| `core/metrics/MetricsCollector` | counters, gauges, histograms | increment, set, observe, export | called everywhere, read by the application |
| errors, constants, types, loggers, serializers, `client/utils`, `src/__tests__/mocks` | none that matters | | |

What makes each correct, and what is hard about it:

* **CircuitBreaker** - calls overlap, so a completion may belong to a state the
  breaker has left. It must trip at the threshold, admit a bounded number of
  probes, and never refuse everything with nobody left to decide.
* **RpcClient** - an attempt can be ended by a reply, its timer, the abort
  signal, the periodic cleanup, close() or a throwing send, each finding its
  entry by correlation id. A promise must be settled once, entries and timers
  must agree, and every send() must end.
* **ConnectionManager** - calls of getConnection() that find an attempt in
  progress wait for its events, and attempts are retried with a sleep between
  them. Nobody may wait for nothing, what is handed out must be up, there should
  be one connection.
* **RpcServer** - the channel may be replaced while a handler runs; a delivery
  is settled by a tag that means something else on another channel; start(),
  stop() and reconnections overlap. What is acknowledged must have been handled,
  what leaves the queue must have been answered, isRunning must be true of a
  server that consumes, stop() must not cut off a handler it was to wait for.
* **Publisher** - overlapping publishes each create a channel and share one exchange
  cache, which the close of any channel empties while declarations are in progress;
  a publish waits for `drain`, then for everything unconfirmed on its channel, and a
  retry stays on it. A publish that resolves must have been confirmed, nothing may be
  sent to an exchange that was not declared, nothing confirmed sent again for
  nothing, and every publish must end.
* **Subscriber** - several handlers per event, which outlive their timeout and the
  event's settlement; channels made by overlapping start() calls, the close of any
  of which stops the subscriber. An event must be settled once and by the rule of
  its mode, isRunning() must be true of a subscriber that consumes, and stop() must
  not cut off an event it was to wait for.
* **MessageDeduplicator** - a least-recently-used cache with a lifetime, read before a
  handler runs and written after it. A duplicate may be missed, a message must never
  be taken for handled when it was not.
* **Topic patterns** - the broker routes by the pattern, the subscriber filters by a regex
  made from it; they must agree, or an event is acknowledged unhandled.

## 2. Modules

| Module | Models | Built from |
|---|---|---|
| `CircuitBreaker` | the breaker, its overlapping calls, the clock | |
| `RpcCall` | abstract: what send() promises its caller | |
| `RpcClient` | the client, the retry loop, channels, replies in flight | implements `RpcCall` |
| `ConnectionManager` | getConnection with waiters, retry and breaker | `INSTANCE CircuitBreaker` |
| `ConsumerReconnectionManager` | timer, attempts, callbacks in progress | |
| `RpcServer` | the server, the channels and the broker's side of them | `INSTANCE ConsumerReconnectionManager`, `MessageDeduplicator` |
| `MessageDeduplicator` | the LRU cache, as operators on a sequence of entries | |
| `Subscriber` | the subscriber, its handlers, the channels and the broker's side of them | `INSTANCE ConsumerReconnectionManager`, `TopicPatterns` |
| `TopicPatterns` | the regex made from a pattern, and the broker's matching | |
| `Publisher` | the publisher, its retry loop, its channels and the broker's answers | |
| `*_proof` | theorems and proofs | extend the module they are about |
| `MC*` | model values and definitions for TLC | extend the module they check |

Definitions keep the names of the code. Names ending in `_Something` after a
definition's own name (`Track_Missing`) are plausible mistakes in that
definition: each property comes with one that breaks it, so a property that
nothing could violate would be noticed.

**CircuitBreaker.** `Execute(c)` is execute() up to the call of `fn`; `Succeed`
and `Fail` are its completion. A call remembers whether it was admitted as a probe
of the episode in progress, which the code does not: that is history, for
`ProbeBudget`. Time is `sinceFailure`, which saturates at `ResetTimeout`; counters
saturate at `CountCap`, above the threshold.

**RpcClient.** `Enter`, `ChannelCreated`, `QueueAsserted`, `ConsumeAccepted` and
`Initialized` are the stretches of initialize() between its awaits, `Transmit` the
synchronous rest of sendInternal(). `Reject` settles promises and takes the retry
decision with them. Replies may be late, repeated or missing, channels die at any
time, `AgeCap` bounds the age of timers and `MaxChannels` the channels created.

**ConnectionManager.** A connection is named by the call that opened it. The three
policies are: none, the default patterns (which never match the error the manager
throws, "Failed to connect to RabbitMQ"), and patterns that do match. The emit of
`error` that wakes the waiters and the rejection that reaches connect() are
different steps, since waiters continue before connect()'s catch does.

**RpcServer.** start() and the reconnection callbacks are threads with the program
counter idle / opening / setup / accepted: waiting for the channel, for
consume(), and for the continuation of consume(), before which events of the
same read may be dispatched. A channel is "broken" when the broker
has dropped it and requeued its deliveries and "closed" once the client knows.
`Settle` is ack or nack with a tag on whatever `this.channel` is by then.
`malformed` and `mode` are chosen once, in the initial state. The deduplicator's cache is
the sequence of `MessageDeduplicator`: eviction follows from its size, expiry is a choice
when a key is looked up, and an undefined result occupies an entry that `has()` does not
see. `setting`, chosen once too, says what the environment may do in a behaviour: which
messages there are, which start() calls are made, in which modes, whether handlers come and go, the
broker cancels consumers, stop() is called. A run checks the union of its `Settings`.
A request that fails goes through `HandleRequestError`, wherever it fails: for want of a
handler, in its handler, when its result cannot be encoded, or in an `onSlowMessage` callback
that throws after the handler is done (line 851). Its error may be one that cannot be encoded:
sendErrorResponse() only logs that (line 621), `sent` records "unsent", and the request is
dead-lettered all the same. A `requeue` or `retryDelay` callback may throw before the nack (lines
633 and 647): then handleRequest() rejects and nothing is settled (`Reject`, `rejected`).

**Subscriber.** Channels, threads and the broker are as in `RpcServer`; what differs
is that every channel is listened to, that 'close' does not schedule a
reconnection, and that an event is settled on the channel captured when it
arrived (`via`). A delivery records the handlers the strategy still waits
for (`waits`), those that failed for it (`failed`) and those really running
(`busy`): a timeout moves a handler from the first to the second and leaves it
in the third. `Strict` is Promise.all, `Isolated` Promise.allSettled. A null message
and a 'cancel' event both schedule; the second finds the timer set, so
`ConsumerCancelled` is one action. The patterns handlers may be registered with and the
names events may have are constants (`Patterns`, `EventNames`, of which `Pattern` and `EventName`
pick one for each); which handlers match follows from them through `TopicPatterns`.
The queue is taken to be named by the configuration: with a generated name each
start() declares another queue. One stop() call is in progress at a time.
`errorHandler` is called outside of any try (lines 615-622), so that an event on which a handler failed
may be rejected by the catch of handleMessage() even in isolated mode: the second disjunct of `Isolated`.
`setting` is as in `RpcServer`.

**TopicPatterns.** A pattern and a name are sequences of words. `Dotted` puts the dots back,
`patternToRegex` replaces the wildcards in the result, and `Test` is the matching of the
regex: the text can be cut into as many parts as the regex has pieces, each of which
`Takes` its part (".*" any, "[^.]+" one word, the rest itself). `RoutesWith` is the
broker's: the name can be cut into as many parts as the pattern has words, with the least
number of words that "#" stands for. Both say which cuts there are and neither computes one, so
that they can be reasoned about without induction. `Texts` are the patterns and names meant: at
least one word, and no word that is a dot or a piece of regex.

**Publisher.** Each message is a small thread with the stages of publish(): opening, created
(the channel answered but not installed), ready, declaring, declared (the exchange answered but
not cached), draining, confirming, sleeping, and the two ends. `Transmit` is the
call of channel.publish() together with what follows it in the same turn. `waits` holds the messages
that waitForConfirms() waits for: all that are unconfirmed on the channel at that moment,
those of other publishes included. A nack ends the wait of everybody who waits for that message.
`sent`, `declared`, `confirmed`, `nacked`, `heldUp` (a full buffer held the message up) and `late`
(a channel was installed after its close event) are history. publishToMany() is `Publish` of a set
of messages.

## 3. Runs

| Run | Instance | States | What it shows |
|---|---|---|---|
| `breaker` | 3 overlapping calls, threshold 2, 2 probes | 1,422 | trips at the threshold, bounded probes, never stuck, recovers once the service stays up |
| `rpc_client` | 2 requests, 2 attempts each, 2 channels, one custom id, one signal | 408 thousand | entries, timers and promises agree, `RpcCall` is implemented, liveness included |
| `rpc_client_traced` | 1 request with a custom id **and** a signal | small | **violates** `NoCallOrphaned`: see findings |
| `connection` | 3 calls, 2 attempts, breaker with threshold 2, close | 113 thousand | waiters wake, the connection held is up, one flight without retries, the half-open breaker refuses only while an attempt it admitted dials, calls settle |
| `connection_single` | 2 calls | small | **violates** `OneConnection`: see findings |
| `server` | six settings (below), 2 channels, 3 deliveries, auto and manual mode, maxRetries 1, a cache of 1 entry, 2 start() calls, 2 callbacks, 2 attempts | 1.3 million | acked means handled, settled means answered, only a callback that throws leaves a delivery unsettled, a message that fails is put back once at most; a stop that drained closes under no handler; a server that listens to its channel knows when it stops consuming; no step loses a reconnection |
| `server_requeue` | 1 fire-and-forget message, 3 deliveries | small | **violates** `RequeuedOnce`: see findings |
| `server_listening` | 1 start() call, no messages, cancellations | small | **violates** `RunningIsListening`: see findings |
| `subscriber` | five settings (below), 2 events, one without an id, 2 handlers, 2 start() calls, 2 channels, both modes, timeouts, 2 callbacks, 2 attempts | 603 thousand | when an event is acknowledged or rejected, settled once, not forgotten; a stop that drained closes over no event in progress; a running subscriber consumes; reconnections settle |
| `subscriber_isolated` | 1 event, 1 handler, isolated mode | small | **violates** `IsolatedAlwaysAcks`: see findings |
| `subscriber_patterns` | 1 event "order", a handler for "order.#" | small | **violates** `RoutedIsCalled`: see findings |
| `publisher` | 2 messages, published apart or together, 2 exchanges, one of them preconfigured, 2 attempts, 2 channels, close | 237 thousand | resolved means confirmed, sent means declared, no needless resending, the channel held is alive, publishes settle |

*Settings.* The environment of the server, and of the subscriber, is checked in parts whose
product would be out of reach; each part keeps what its question needs.

| `server` | Messages | start() calls | Else |
|---|---|---|---|
| `Handling` | RPC and fire-and-forget | 1 | both modes |
| `Stopping` | RPC | 1 | stop() |
| `Overlapping` | RPC | 2 | |
| `Starting` | none | 2 | stop() |
| `Registering` | fire-and-forget | 1 | handlers come and go, none at first |
| `Reconnecting` | none | 1 | cancellations, stop() |

| `subscriber` | Events | Handlers | start() calls | Else |
|---|---|---|---|---|
| `Handling` | one without an id | 2 | 1 | both modes |
| `Overlapping` | one without an id | 1 | 2 | |
| `Stopping` | one with an id | 1 | 1 | stop() |
| `Draining` | both | 1 | 1 | stop() |
| `Reconnecting` | none | 1 | 1 | cancellations, stop() |

Channels break in all of them, and an RPC request or an event may be malformed. `Reconnecting` is where
callbacks overlap: a consumer is cancelled while the callback for an earlier cancellation is in
progress, its timer fires, and both callbacks fail or succeed in either order, with an attempt
that failed before the last one.

*Bounds.* Two calls suffice for an overlap and a third for one that is overtaken;
two attempts give a retry and a last attempt; two channels give a replaced one,
and two deliveries per channel a tag that means different things on two
channels; the third delivery of `server` is a redelivery after both. In `publisher` a message
creates at most one channel, so two channels are all that two messages can use. Two handlers
are needed for an outcome that comes after another has decided. With two
channels of one delivery each, an event is delivered again while the handlers of
its first delivery still run, and tags collide in the in-flight set. Two callbacks are all that
can be told apart: with one in progress and the timer set, the second is the one that fires. Three
deliveries under a `maxRetries` of 1 leave room for one more requeue than there may be. Counters
saturate above every threshold that is compared with them.
Deadlock is not checked where the system may stop: all requests settled,
all channels of the bound used.

*Fairness.* Timers fire, continuations of settled promises run, and an await on
the broker resolves or rejects (amqplib rejects what is pending when a channel
or socket dies). In `breaker` callers keep calling and calls end. No server is
obliged to reply, no handler to end, no signal to fire, nobody to call close(),
start() or stop(). `server` asks for no liveness and assumes no fairness. In `publisher` the broker answers for what it was sent and a full buffer drains
as long as the channel lives, and the client hears of a channel that broke: then nothing but a
`drain` on a dead channel keeps a publish() waiting.

## 4. Findings

* **A retried send() with its own correlation id and a signal may never settle**
  (`client/rpc/RpcClient.ts:344`, run `rpc_client_traced`). The abort listener of
  the first attempt stays registered and finds the entry of the second under the
  same id: it takes its timer and its entry and rejects a promise that is settled.
* **Two connections can be open** (`core/connection/ConnectionManager.ts:214`, run
  `connection_single`), against `src/README.md:13`: a call that sleeps between two
  attempts does not hold `isConnecting`.
* **A fire-and-forget message is requeued for ever** (`server/rpc/RpcServer.ts:755`,
  run `server_requeue`) under the default `maxRetries`, against `src/README.md:299`.
* **isServerRunning() may stay true on a dead channel**
  (`server/rpc/RpcServer.ts:304`, run `server_listening`), against line 777: the
  channel that reRegisterConsumer() creates has no event handlers.
* **An event may be rejected in isolated mode** (`server/pubsub/Subscriber.ts:616`, run
  `subscriber_isolated`), against line 592, "messages are ALWAYS ACKed regardless of handler
  success/failure": an `errorHandler` that throws is caught only by handleMessage(), which nacks.
* **"#" does not stand for zero words** (`server/pubsub/Subscriber.ts:825`, run
  `subscriber_patterns`), against lines 143, 219 and 822: the dot before it stays in the regex, so that
  "order.#" does not match "order", which the broker routes to the queue and the subscriber
  acknowledges unhandled.

Properties that hold only under a condition name it. What is let off, and where the code does it:

* `AckedWasHandled`, `SettledWasAnswered`, `RequeueLimit`, `StrictAcksAllOrNothing` and `SettledOnce`:
  histories in which a delivery was settled on another channel than its own (`crossed`;
  `server/rpc/RpcServer.ts:580`). `RequeueLimit` is about a `maxRetries` of 0 or 1: with more there
  is no limit (`server_requeue`).
* `SettledWasAnswered`: a request whose error cannot be encoded ("unsent";
  `server/rpc/RpcServer.ts:620`), although lines 723-726 say "always send error response immediately".
* `NothingForgotten` of the server: a delivery on which a `requeue` or `retryDelay` callback threw
  (`rejected`; lines 633 and 647), and manual mode, in which settling is the application's. Of both:
  deliveries that found no channel (line 341; line 508 of the subscriber).
* `HookedIsListening`, `RunningIsListening`, `RunningIsConsuming`: a registration that completed after
  its consumer had gone (`late`; `server/rpc/RpcServer.ts:276`).
* `DrainedMeansIdle`, `DrainedMeansSettled`: messages the in-flight set cannot count, for they have no
  id, or one that another delivery has removed.
* `WaitersWillWake`, `CallsSettle`: a manager that was closed, which removes the listeners of those who
  wait.
* `ConfirmedWhenResolved`: a message whose nack came while its publish waited for `drain`
  (`client/pubsub/Publisher.ts:268` looks only at what is unconfirmed by then). That publish()
  resolves, against `src/README.md:457`, "Ensure messages are safely persisted before considering
  them sent": TLC refutes the property without the condition.
* `PublishSettles`: a publish whose channel closed before the `drain` it waits for (line 262), which
  never settles, though lines 20 and 457 of `src/README.md` promise a verdict. TLC refutes the property without
  the condition.
* `ReadyMeansActive`: a channel that closed before its handlers were attached. TLC refutes it without.
* The properties of `rpc_client`: no two send() calls share a custom correlation id. With one
  (`client/rpc/RpcClient.ts:241-245` suggests a trace id of the caller's) the second takes the entry of
  the first, a reply to either settles the second, and the first can only time out (lines 303, 335, 394). `RpcCall`
  says that a send() which resolves was served, not that the reply is to it.

## 5. Proofs

For every value of the constants that satisfies the assumptions of the modules:

* **`CircuitBreaker_proof`** - the type invariant, `ClosedIffBelowThreshold`,
  `ProbeBudget`, `HalfOpenNeverStuck` and `OpensOnConsecutiveFailures`. Together they are
  nearly inductive; what is missing is that, while CLOSED, every failure counted came
  after the last success (`CountedFailuresAreConsecutive`). The cardinality
  of the probes is handled by lemmas on what a step adds or removes.
* **`RpcClient_proof`** - the type invariant, `EntriesAreLive`, `NoCallOrphaned`,
  `NoStrayTimer`, and that every behaviour is one of `RpcCall!Spec`. The
  assumption `OwnIds` says that requests do not share ids and that none with a
  signal brings its own: without it `rpc_client_traced` is a counterexample. The
  invariant adds `TableConsistent`: an attempt waits exactly while its timer
  runs and exactly while it owns the entry under its id.
* **`ConnectionManager_proof`** - the type invariant, `WaitersWillWake`, `HeldIsUp`,
  `SingleFlight`, and, under the breaker's own assumption on its configuration, `RefusedWhileProbing`.
  The last instantiates `CircuitBreaker_proof` with the calls of getConnection()
  (`ManagerCircuitIsSound`): a breaker that refuses has a probe in progress; and `AdmittedDials` says
  that who is in the breaker dials, through every wake-up, retry, close() and reset. The
  invariant adds that isConnecting implies an attempt in progress, that listeners
  belong to waiting calls, and, for the policy "off", that the one attempt runs
  with no connection there. That the attempts of a call never exceed maxAttempts, which is part
  of its type, rests on `AttemptsLeft`: a call that dials, or sleeps before it does, has one left.
* **`Publisher_proof`** - the type invariant, `ConfirmedWhenResolved`, `SentToDeclared`,
  `ResentForAnother` and `ReadyMeansActive`, assuming that undefined is no channel
  number.
  The invariant adds where each publish's last message is (`OwnFate`: among those it waits
  for, until it is answered or the channel ends), that what is cached is declared and an
  exchange still undeclared is on the list (`Known`), that a channel not yet installed is
  used by its maker alone (`Alone`), and that nothing is sent before the first attempt
  (`Counted`), so that a publish that takes a channel takes no message with it.

* **`RpcServer_proof`** - the type invariant, `AckedWasHandled`, `SettledWasAnswered`,
  `NothingForgotten`, `DrainedMeansIdle`, `HookedIsListening`, `RequeueLimit`, and the action properties
  `ReconnectGoesOn` (no step loses a reconnection) and `SettledForGood` (what left the queue does
  not come back, also when answers cross). The proof first says once what each step does to the deliveries
  (`DeliveryCases`: nothing, an arrival, the end of handleRequest() with some verdict and reply, the
  start of a handler, the loss of a channel), so that each property is then shown over these five
  and not over twenty actions. The hard one is the end: it settles a tag on whatever `this.channel`
  is by then, which may be the delivery itself, another one, or none, upon which the broker drops
  the channel (`EndEffect`, `Reaches`, `Moves`). The invariant adds that what waits for an answer is
  on an open channel (`Owned`: hence no delivery of a message that broke is settled later), that
  every key the deduplicator remembers was handled (`CachedWasHandled`: hence a duplicate's ack
  follows a handler), that a request being handled is in the in-flight set unless it has no id or
  another removed it (`Tracked`), and that channels are opened before they are used (`InUse`,
  `Placed`). `RequeueLimit` needs two more: a message that waits for an answer is out and waits for
  one only (`OneDelivery`), and one that was put back once is marked redelivered, in the queue as in
  the delivery it is out with (`Flagged`). Then the end of a request's handling that puts it back
  saw no flag, so it is the first. `SettledForGood` is `OneDelivery` again: an answer or a loss
  moves only messages that are out. What an answer or a loss leaves of the other deliveries is said
  once (`Others`). `ReconnectGoesOn` follows from the types, which tie the manager's callbacks to
  the calls in progress: a call that fails leaves a timer or was the last.
* **`MessageDeduplicator_proof`** - what the operators of the cache return: `Set` keeps it within
  its size, with one entry for a key, and evicts the least recently used entry and no other;
  a lookup adds no key and finds only keys that are there. `RpcServer_proof` rests on them.
* **`Subscriber_proof`** - the type invariant, `StrictAcksAllOrNothing`, `SettledOnce`,
  `NothingForgotten`, `DrainedMeansSettled`, `RunningIsConsuming`, and the action
  property `ReconnectGoesOn`. The argument goes through the same view of the steps. The
  invariant adds that an event is not answered before its handling ends (`AnsweredAtTheEnd`), that
  in strict mode an event being handled has no failure and waits for exactly the handlers
  that run (`StrictWaits`: the first failure ends it, the last success acknowledges it), that an
  event being handled knows the channel it will be answered on (`Captured`), and `Tracked` as above.
* **`TopicPatterns_proof`** - for every pattern and every name, of any length, the regex matches
  what the broker routes with "#" as one word or more (`MatchesWhatIsRouted`): the missing zero of `subscriber_patterns` is all that
  sets them apart. The argument turns a cut of the text into a cut of
  the name and back. An escaped dot of the regex takes one character, which is a dot of the text
  (`PlaceOfDot`), so that what lies between two of them begins and ends with a word: the parts
  at odd places are whole words and the parts at even ones the dots between them
  (`MatchedIsRouted`). Conversely the words a part of the name has, with the dots between them, are
  what its piece takes (`RoutedIsMatched`), where "#" needs a word, or the two dots around it would
  have to be one: that is why the least is 1 and not 0.

`RpcServer` and `Subscriber` assume, as `Publisher` does, that null is neither a channel nor a
delivery nor a consumer's tag (`NoneAssumption`); TLC evaluates it on every run of theirs.

Only model-checked: every liveness property (`Recovers`, `CallsSettle`, `ReconnectSettles`,
`PublishSettles`, the liveness of `RpcCall` in `KeepsContract`), whose fairness arguments the proof
system does not reach. `ReconnectGoesOn` is what of `ReconnectSettles` is safety: while a timer is set or a
callback runs, only a consumer that runs or the last failed attempt ends it; `SettledForGood`, and
`ReconnectGoesOn` of the subscriber, are stated in the proof modules. Every invariant of a passing run, and every action
property, is proved; the type invariant of the breaker is proved and not run, since what could break
it breaks `ProbeBudget`.

## 6. Plan

1. An abstract specification of Publisher's contract, as `RpcCall` is of the client's, with the
   publishes of one publishToMany() told apart from those of others.
2. The asynchronous confirm mode of the publisher and its returned messages.
3. Generated queue names in `Subscriber`, where each start() declares a queue of its own.
4. Runs that state the guarantee of `src/README.md:457` without the conditions of section 4 (a nack
   while the publish waits for `drain`, a `drain` that cannot come), and one in which two send() calls
   share a correlation id.

## 7. Not modelled

Message contents, JSON, sizes and validators (a message is malformed or not);
metrics, slow-message warnings (but for a callback that throws), logging, error wording and statistics; delays
(a retry happens later); reserved headers; the mocks. The health checker reads the state of the
other components and changes nothing; what would make it wrong is a component that misreports
itself, which `HookedIsListening`, `RunningIsConsuming` and `HeldIsUp` are about. The message buffer is
used by nothing in the repository. Of the publisher, the types of exchanges
(the broker may refuse any declaration), returned messages and the asynchronous confirm mode, in
which nobody waits, are left out; of the topic patterns, characters other than the
wildcards that mean something in a regex, a wildcard beside other characters of its word ("user*", which
is no wildcard to the broker and one to the regex), and empty words. stop() or cancel() beside a reconnection in progress may
leave a component running again; nothing documented says what it should do, so no property does. A queue that vanished is not declared again when its
consumer is registered again. assertQueue() of the connection manager and the consumer of dead letters it may start
(`core/connection/ConnectionManager.ts:348-452`) keep no state and share nothing with the rest but
getConnection().
