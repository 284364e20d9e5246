------------------------------- MODULE RpcServer -------------------------------
(***************************************************************************)
(* The RPC server of src/server/rpc/RpcServer.ts with the deduplicator and *)
(* the reconnection manager it owns, on a broker that redelivers what was  *)
(* not settled.                                                            *)
(*                                                                         *)
(* Two things make it hard.  Every step reads this.channel anew, after     *)
(* awaits during which events, a start(), a reconnection or a stop() may   *)
(* have replaced it or set it to null; and a delivery is settled by its    *)
(* tag on THAT channel, where the number may mean another delivery.        *)
(*                                                                         *)
(* Channels are numbered in the order they are created, the deliveries of  *)
(* a channel by their tags.  A channel that dies at the broker ("broken")  *)
(* requeues its unsettled deliveries at once and tells the client later.   *)
(***************************************************************************)
EXTENDS Integers, FiniteSets, MessageDeduplicator

CONSTANTS
  None,                  \* null or undefined
  Messages,              \* requests in the queue
  RpcMessages,           \* those with a replyTo
  Commands, Command,     \* the commands, and the one each message asks for
  Malformable,           \* messages the parser may refuse
  CorrelationId,         \* of each message; None where it has none
  DedupKey,              \* of each message: its id or the hash of its content
  MaxRetries,            \* ackStrategy.maxRetries
  RequeueAnswers,        \* what ackStrategy.requeue may answer
  MalformedStrategies,   \* messageValidation.malformedMessageStrategy
  Deduplicate,           \* deduplication.enabled
  CacheSize,             \* deduplication.cacheSize
  Prefetch,
  Starters,              \* start() calls that may be in progress
  Callbacks, MaxReconnectAttempts,      \* the reconnection manager's
  Settings,              \* what the environment may do in one behaviour
  MaxChannels, MaxTags,  \* bounds: channels created, deliveries per channel
  MaxDeliveries          \* and on all of them

(* Which messages are delivered, which start() calls are made, the modes   *)
(* ackStrategy.mode may have and the commands with a handler at first, and *)
(* whether handlers then come and go, the broker cancels consumers, and    *)
(* stop() is called.                                                       *)
Setting ==
  [messages : SUBSET Messages, starters : SUBSET Starters, modes : SUBSET {"auto", "manual"},
   commands : SUBSET Commands, changes : BOOLEAN, cancels : BOOLEAN, stops : BOOLEAN]

ASSUME ServerAssumption ==
  /\ RpcMessages \subseteq Messages
  /\ Malformable \subseteq Messages
  /\ Command \in [Messages -> Commands]
  /\ MaxRetries \in Nat
  /\ RequeueAnswers \in (SUBSET BOOLEAN) \ {{}}
  /\ MalformedStrategies \subseteq {"reject", "dlq", "ignore"}
  /\ Deduplicate \in BOOLEAN
  /\ CacheSize \in Nat
  /\ Prefetch \in Nat \ {0}
  /\ Settings \subseteq Setting
  /\ Starters \cap Callbacks = {}
  /\ None \notin Messages
  /\ {MaxChannels, MaxReconnectAttempts} \subseteq Nat
  /\ {MaxTags, MaxDeliveries} \subseteq Nat

VARIABLES
  \* RpcServer's fields
  handlers,              \* this.handlers: the commands that have one
  channel,               \* this.channel
  consumerTag,           \* this.consumerTag
  isRunning,             \* this.isRunning
  inFlight,              \* this.inFlightMessages
  cache,                 \* the deduplicator's cache
  \* the reconnection manager
  reconnectAttempts, reconnectTimer, running,
  \* calls in progress
  pc,                    \* of each start() and reconnection callback
  on,                    \* the channel its consumer was accepted on
  stop,                  \* where stop() is
  stopping,              \* what it works on: the consumer, then the channel
  \* channels and broker
  chan,                  \* "none", "open", "broken" or "closed"
  hooked,                \* channels whose events start() listens to
  consumers,             \* active consumers: <<channel, who created it>>
  setting,               \* the environment's, and
  mode,                  \* ackStrategy.mode, and
  malformed,             \* messages the parser refuses: these never change
  where, redelivered,    \* of each message: its place, its redelivered flag
  deliv,                 \* of each channel and tag: the delivery, or None
  \* history
  handled,               \* messages a handler has completed
  sent,                  \* replies to each message: "ok", "error", or "unsent",
                         \* an error that could not be encoded
  requeues,              \* messages nacked with requeue twice or more: "more"
  crossed,               \* a delivery was settled on another channel than its own
  rejected,              \* deliveries handleRequest() rejected on
  late,                  \* the last registration completed when its consumer had gone
  drained                \* stop() found no message in flight

serverVars == << handlers, channel, consumerTag, isRunning >>
reconnectVars == << reconnectAttempts, reconnectTimer, running >>
callVars == << pc, on, stop, stopping, drained, late >>
linkVars == << chan, hooked, consumers >>
givenVars == << setting, mode, malformed >>
messageVars == << givenVars, where, redelivered, deliv >>
workVars == << inFlight, cache, handled, sent, requeues, crossed, rejected >>
vars == << serverVars, reconnectVars, callVars, linkVars, messageVars, workVars >>

Manager == INSTANCE ConsumerReconnectionManager

Channels == 1..MaxChannels
Deliveries == Channels \X (1..MaxTags)
Threads == Starters \cup Callbacks

Places == {"queued", "out", "acked", "dead"}

(* A request under way; unsettled: the broker waits for its answer. *)
Delivery ==
  [msg : Messages, redelivered : BOOLEAN, unsettled : BOOLEAN,
   at : {"arrived", "running", "ended"}]

ASSUME NoneAssumption == None \notin Channels \cup Delivery \cup (Channels \X Threads)

Delivered == {d \in Deliveries : deliv[d] # None}
Unsettled == {d \in Delivered : deliv[d].unsettled}
OpenNow == channel # None /\ chan[channel] = "open"

Init ==
  /\ setting \in Settings
  /\ handlers = setting.commands
  /\ channel = None
  /\ consumerTag = None
  /\ isRunning = FALSE
  /\ inFlight = {}
  /\ cache = << >>
  /\ Manager!Init
  /\ pc = [t \in Threads |-> "idle"]
  /\ on = [t \in Threads |-> None]
  /\ stop = "idle"
  /\ stopping = None
  /\ chan = [c \in Channels |-> "none"]
  /\ hooked = {}
  /\ consumers = {}
  /\ mode \in setting.modes
  /\ malformed \in SUBSET (Malformable \cap setting.messages)
  /\ where = [m \in Messages |-> "queued"]
  /\ redelivered = [m \in Messages |-> FALSE]
  /\ deliv = [d \in Deliveries |-> None]
  /\ handled = {}
  /\ sent = [m \in Messages |-> {}]
  /\ requeues = [m \in Messages |-> 0]
  /\ crossed = FALSE
  /\ rejected = {}
  /\ late = FALSE
  /\ drained = FALSE

-------------------------------------------------------------------------------
(* The broker's side of a channel *)

(* Channel c is gone: its consumers with it, and what it had delivered     *)
(* without an answer (f: the deliveries as this step leaves them) is back  *)
(* in the queue, marked redelivered.                                       *)
Drop(c, state, f) ==
  LET back == {m \in Messages : \E d \in Unsettled : d[1] = c /\ deliv[d].msg = m}
  IN  /\ UNCHANGED givenVars
      /\ chan' = [chan EXCEPT ![c] = state]
      /\ consumers' = {k \in consumers : k[1] # c}
      /\ where' = [m \in Messages |-> IF m \in back THEN "queued" ELSE where[m]]
      /\ redelivered' = [m \in Messages |-> m \in back \/ redelivered[m]]
      /\ deliv' = [d \in Deliveries |->
                     IF d \in Unsettled /\ d[1] = c
                     THEN [f[d] EXCEPT !.unsettled = FALSE] ELSE f[d]]

End(d) == [deliv EXCEPT ![d].at = "ended"]

(* handleRequest() for d is over and channel.ack / channel.nack was called *)
(* on this.channel with d's tag: on a null or closed channel it throws and *)
(* is caught, or is skipped; a tag unknown there makes the broker close    *)
(* the channel.                                                            *)
Settle(d, verdict) ==
  \/ /\ verdict = "nothing" \/ ~OpenNow
     /\ deliv' = End(d)
     /\ UNCHANGED << givenVars, where, redelivered, linkVars, requeues >>
  \/ /\ verdict # "nothing"
     /\ OpenNow
     /\ UNCHANGED hooked
     /\ LET t == << channel, d[2] >> IN
        \/ /\ t \in Unsettled
           /\ deliv' = [End(d) EXCEPT ![t].unsettled = FALSE]
           /\ where' = [where EXCEPT ![deliv[t].msg] = verdict]
           /\ redelivered' = [redelivered EXCEPT ![deliv[t].msg] =
                                @ \/ verdict = "queued"]
           /\ requeues' = [requeues EXCEPT ![deliv[t].msg] =
                             IF verdict = "queued" /\ @ < 2 THEN @ + 1 ELSE @]
           /\ UNCHANGED << givenVars, chan, consumers >>
        \/ /\ t \notin Unsettled
           /\ Drop(channel, "broken", End(d))
           /\ UNCHANGED requeues

-------------------------------------------------------------------------------
(* handleRequest() *)

(* The end of handleRequest(): a reply if there is a replyTo, ack or nack, *)
(* and the request is no longer in flight.                                 *)
Conclude(d, verdict, reply) ==
  LET m == deliv[d].msg IN
  /\ Settle(d, verdict)
  /\ crossed' = (crossed \/ (verdict # "nothing" /\ OpenNow /\ channel # d[1]))
  /\ sent' = IF m \in RpcMessages /\ reply # "nothing" /\ OpenNow
             THEN [sent EXCEPT ![m] = @ \cup {reply}] ELSE sent
  /\ inFlight' = inFlight \ {CorrelationId[m]}

Finish(d, verdict, reply) == Conclude(d, verdict, reply) /\ UNCHANGED rejected

(* A callback throws: handleRequest() rejects with nothing settled, and    *)
(* nobody listens.                                                         *)
Reject(d) ==
  /\ Conclude(d, "nothing", "nothing")
  /\ rejected' = rejected \cup {d}

(* Mutant: every delivery is taken for the first. *)
Attempts_First(d) == 0

(* shouldRequeueMessage(): the only attempt known is the redelivered flag. *)
Attempts(d) == IF deliv[d].redelivered THEN 1 ELSE 0

(* Mutant: no reply to a request that failed.                              *)
HandleRequestError_NoReply(d) ==
  Finish(d, "dead", "nothing")

(* Mutant: the request is answered but not settled.                        *)
HandleRequestError_NoNack(d) ==
  Finish(d, "nothing", "error")

(* sendErrorResponse() only logs that an error cannot be encoded: the      *)
(* request is dead all the same.  A requeue or retryDelay callback may     *)
(* throw before the nack.                                                  *)
HandleRequestError(d) ==
  LET m == deliv[d].msg IN
  \/ /\ mode = "manual"
     /\ Finish(d, "dead", "nothing")
  \/ /\ mode = "auto"
     /\ m \in RpcMessages
     /\ \E reply \in {"error", "unsent"} : Finish(d, "dead", reply)
  \/ /\ mode = "auto"
     /\ m \notin RpcMessages
     /\ \E requeue \in RequeueAnswers :
          Finish(d, IF Attempts(d) < MaxRetries /\ requeue THEN "queued" ELSE "dead",
                 "nothing")
  \/ /\ mode = "auto"
     /\ m \notin RpcMessages
     /\ Attempts(d) < MaxRetries
     /\ Reject(d)

(* collectMetrics(), sendSuccessResponse() and acknowledgeMessage(): when  *)
(* onSlowMessage throws, or the result cannot be encoded, the request has  *)
(* failed after all, though the handler has done its work.                 *)
Respond(d) ==
  \/ Finish(d, IF mode = "auto" THEN "acked" ELSE "nothing", "ok")
  \/ HandleRequestError(d)

(* Mutant: an id that is missing is in flight like any other.              *)
Track_Missing(m) == inFlight' = inFlight \cup {CorrelationId[m]}
Track(m) == inFlight' = inFlight \cup ({CorrelationId[m]} \ {None})

(* The broker delivers m to a consumer with room, and handleRequest() runs *)
(* up to its first await.  Without this.channel it returns, leaving the    *)
(* delivery for ever.                                                      *)
Deliver(m, k) ==
  /\ k \in consumers
  /\ m \in setting.messages
  /\ where[m] = "queued"
  /\ Cardinality({d \in Unsettled : d[1] = k[1]}) < Prefetch
  /\ Cardinality(Delivered) < MaxDeliveries
  /\ \E tag \in 1..MaxTags :
       /\ deliv[<< k[1], tag >>] = None
       /\ \A less \in 1..(tag - 1) : deliv[<< k[1], less >>] # None
       /\ deliv' = [deliv EXCEPT ![<< k[1], tag >>] =
                      [msg |-> m, redelivered |-> redelivered[m], unsettled |-> TRUE,
                       at |-> IF channel = None THEN "ended" ELSE "arrived"]]
  /\ where' = [where EXCEPT ![m] = "out"]
  /\ IF channel = None THEN UNCHANGED inFlight ELSE Track(m)
  /\ UNCHANGED << serverVars, reconnectVars, callVars, linkVars, givenVars, redelivered, cache,
                  handled, sent, requeues, crossed, rejected >>

(* handlemalformedMessage() *)
HandleMalformed(d) ==
  \E strategy \in MalformedStrategies :
    Finish(d, IF strategy = "ignore" THEN "acked" ELSE "dead", "nothing")

(* Mutant: the request is in flight until its handler is called.           *)
Begin_Untracks(d) ==
  /\ deliv' = [deliv EXCEPT ![d].at = "running"]
  /\ inFlight' = inFlight \ {CorrelationId[deliv[d].msg]}
  /\ UNCHANGED << givenVars, where, redelivered, linkVars, requeues, crossed, rejected, sent >>

(* Mutant: a message is acknowledged as soon as it is parsed. *)
Begin_AcksFirst(d) == Finish(d, "acked", "nothing")

(* The handler is called: nothing is settled until it ends. *)
Begin(d) ==
  /\ deliv' = [deliv EXCEPT ![d].at = "running"]
  /\ UNCHANGED << givenVars, where, redelivered, linkVars, requeues, crossed, rejected, sent,
                  inFlight >>

(* process(): duplicates are answered from the cache. *)
Deduplicated(d) ==
  LET key == DedupKey[deliv[d].msg] IN
  \/ ~Deduplicate /\ Begin(d) /\ UNCHANGED cache
  \/ Deduplicate /\ cache' \in Hits(cache, key) /\ Respond(d)
  \/ Deduplicate /\ cache' \in Misses(cache, key) /\ Begin(d)

(* Parsed: refused, answered from the cache, or handed to its handler.     *)
Parsed(d) ==
  LET m == deliv[d].msg IN
  /\ d \in Delivered
  /\ deliv[d].at = "arrived"
  /\ \/ m \in malformed /\ HandleMalformed(d) /\ UNCHANGED cache
     \/ m \notin malformed /\ Command[m] \notin handlers /\ HandleRequestError(d)
        /\ UNCHANGED cache
     \/ m \notin malformed /\ Command[m] \in handlers /\ Deduplicated(d)
  /\ UNCHANGED << serverVars, reconnectVars, callVars, handled >>

(* The handler completes, with a result or with undefined. *)
HandlerSucceeds(d) ==
  LET m == deliv[d].msg IN
  /\ d \in Delivered
  /\ deliv[d].at = "running"
  /\ IF Deduplicate
     THEN \E defined \in BOOLEAN : cache' = Set(cache, DedupKey[m], defined, CacheSize)
     ELSE UNCHANGED cache
  /\ handled' = handled \cup {m}
  /\ Respond(d)
  /\ UNCHANGED << serverVars, reconnectVars, callVars >>

HandlerFails(d) ==
  /\ d \in Delivered
  /\ deliv[d].at = "running"
  /\ HandleRequestError(d)
  /\ UNCHANGED << serverVars, reconnectVars, callVars, cache, handled >>

RegisterHandler(c) ==
  /\ setting.changes
  /\ handlers' = handlers \cup {c}
  /\ UNCHANGED << channel, consumerTag, isRunning, reconnectVars, callVars, linkVars,
                  messageVars, workVars >>

UnregisterHandler(c) ==
  /\ setting.changes
  /\ handlers' = handlers \ {c}
  /\ UNCHANGED << channel, consumerTag, isRunning, reconnectVars, callVars, linkVars,
                  messageVars, workVars >>

-------------------------------------------------------------------------------
(* start() and reRegisterConsumer() *)

restOfStep == << handlers, stop, stopping, drained, inFlight, cache, handled, sent,
                 requeues, crossed, rejected >>

(* start(), past its guard: it waits for a connection and a channel.       *)
Start(s) ==
  /\ s \in setting.starters
  /\ pc[s] = "idle"
  /\ ~isRunning
  /\ pc' = [pc EXCEPT ![s] = "opening"]
  /\ UNCHANGED << channel, consumerTag, isRunning, on, late, reconnectVars, linkVars,
                  messageVars, restOfStep >>

(* The reconnection timer fires: a new channel only if there is none       *)
(* (amqplib's channels keep their .connection when they close).            *)
ReRegister(b) ==
  /\ ~isRunning
  /\ Manager!TimerFires(b)
  /\ pc' = [pc EXCEPT ![b] = IF channel = None THEN "opening" ELSE "setup"]

(* The server runs again: the callback returns, and the manager is reset,  *)
(* before anything else can happen.                                        *)
NothingToDo ==
  /\ isRunning
  /\ reconnectTimer
  /\ Manager!Reset
  /\ UNCHANGED pc

TimerFires ==
  /\ NothingToDo \/ \E b \in Callbacks : ReRegister(b)
  /\ UNCHANGED << channel, consumerTag, isRunning, on, late, linkVars,
                  messageVars, restOfStep >>

(* createConfirmChannel() resolves.  Only start() listens to the channel.  *)
Opened(t) ==
  /\ pc[t] = "opening"
  /\ \E c \in Channels :
       /\ chan[c] = "none"
       /\ \A less \in 1..(c - 1) : chan[less] # "none"
       /\ chan' = [chan EXCEPT ![c] = "open"]
       /\ channel' = c
       /\ hooked' = IF t \in Starters THEN hooked \cup {c} ELSE hooked
  /\ pc' = [pc EXCEPT ![t] = "setup"]
  /\ UNCHANGED << consumerTag, isRunning, on, late, consumers, reconnectVars,
                  messageVars, restOfStep >>

(* assertQueue, prefetch and consume on this.channel as each finds it: the *)
(* broker accepts the consumer and says so.                                *)
Consume(t) ==
  /\ pc[t] = "setup"
  /\ OpenNow
  /\ consumers' = consumers \cup {<< channel, t >>}
  /\ on' = [on EXCEPT ![t] = channel]
  /\ pc' = [pc EXCEPT ![t] = "accepted"]
  /\ UNCHANGED << channel, consumerTag, isRunning, late, chan, hooked, reconnectVars,
                  messageVars, restOfStep >>

(* The continuation of that await: events may have been dispatched first,  *)
(* when their frames arrived together with the broker's consent.           *)
Registered(t) ==
  /\ pc[t] = "accepted"
  /\ consumerTag' = << on[t], t >>
  /\ isRunning' = TRUE
  /\ late' = (<< on[t], t >> \notin consumers)
  /\ on' = [on EXCEPT ![t] = None]
  /\ pc' = [pc EXCEPT ![t] = "idle"]
  /\ IF t \in Starters THEN Manager!Reset ELSE Manager!CallbackSucceeds(t)
  /\ UNCHANGED << channel, linkVars, messageVars, restOfStep >>

(* No connection, a null or dead channel, or a refusal: start() throws;    *)
(* a callback is tried again later, until the last attempt.                *)
RegistrationFails(t) ==
  /\ pc[t] \in {"opening", "setup"}
  /\ pc' = [pc EXCEPT ![t] = "idle"]
  /\ IF t \in Starters THEN UNCHANGED reconnectVars ELSE Manager!CallbackFails(t)
  /\ UNCHANGED << channel, consumerTag, isRunning, on, late, linkVars, messageVars,
                  restOfStep >>

-------------------------------------------------------------------------------
(* Channel and consumer events *)

(* The broker cancels a consumer: a null message (and, on a channel        *)
(* start() opened, a 'cancel' event, whose second scheduleReconnect() does *)
(* nothing more than the first).                                           *)
ConsumerCancelled(k) ==
  /\ setting.cancels
  /\ k \in consumers
  /\ consumers' = consumers \ {k}
  /\ isRunning' = FALSE
  /\ Manager!ScheduleReconnect
  /\ UNCHANGED << channel, consumerTag, pc, on, late, chan, hooked, messageVars,
                  restOfStep >>

(* The connection or the broker ends an open channel. *)
ChannelBreaks(c) ==
  /\ chan[c] = "open"
  /\ Drop(c, "broken", deliv)
  /\ UNCHANGED << serverVars, reconnectVars, callVars, hooked, workVars >>

(* Mutant: the 'close' handler forgets isRunning. *)
OnChannelDown_KeepsRunning(c, error) ==
  /\ UNCHANGED isRunning
  /\ channel' = IF c \in hooked /\ error THEN None ELSE channel

(* 'close', after 'error' if the channel broke the protocol: the handlers  *)
(* act on this.channel, whichever channel they belong to.                  *)
OnChannelDown(c, error) ==
  /\ isRunning' = IF c \in hooked THEN FALSE ELSE isRunning
  /\ channel' = IF c \in hooked /\ error THEN None ELSE channel

ChannelDown(c) ==
  /\ chan[c] = "broken"
  /\ chan' = [chan EXCEPT ![c] = "closed"]
  /\ \E error \in BOOLEAN : OnChannelDown(c, error)
  /\ UNCHANGED << consumerTag, pc, on, late, hooked, consumers, reconnectVars,
                  messageVars, restOfStep >>

-------------------------------------------------------------------------------
(* stop() *)

(* Past its guard: the reconnection timer is cancelled, the consumer next. *)
StopBegins ==
  /\ setting.stops
  /\ stop = "idle"
  /\ isRunning
  /\ Manager!Cancel
  /\ stop' = IF consumerTag # None /\ channel # None THEN "cancelling" ELSE "waiting"
  /\ stopping' = IF consumerTag # None /\ channel = consumerTag[1]
                 THEN consumerTag ELSE None
  /\ UNCHANGED << serverVars, pc, on, drained, late, linkVars, messageVars, workVars >>

(* channel.cancel() returns; an error is only logged.                      *)
StopCancels ==
  /\ stop = "cancelling"
  /\ consumers' = consumers \ {stopping}
  /\ stop' = "waiting"
  /\ stopping' = None
  /\ UNCHANGED << serverVars, reconnectVars, pc, on, drained, late, chan, hooked,
                  messageVars, workVars >>

(* What stop() leaves behind, whatever start() has done meanwhile. *)
Stopped ==
  /\ stop' = "idle"
  /\ stopping' = None
  /\ drained' = FALSE
  /\ channel' = None
  /\ isRunning' = FALSE
  /\ UNCHANGED << handlers, consumerTag, reconnectVars, pc, on, late >>

(* The wait ends when nothing is in flight, when it times out, or at once  *)
(* under force.  If there is a channel, its closing is asked for in the    *)
(* same step: nothing goes through it any more, either way.                *)
StopWaited ==
  /\ stop = "waiting"
  /\ cache' = << >>
  /\ \/ /\ channel = None
        /\ Stopped
        /\ UNCHANGED << chan, consumers, messageVars >>
     \/ /\ channel # None
        /\ drained' \in {inFlight = {}, FALSE}
        /\ stop' = "closing"
        /\ stopping' = channel
        /\ Drop(channel, IF OpenNow THEN "broken" ELSE chan[channel], deliv)
        /\ UNCHANGED << serverVars, reconnectVars, pc, on, late >>
  /\ UNCHANGED << hooked, inFlight, handled, sent, requeues, crossed, rejected >>

(* channel.close() returns, or throws as it was closed already.            *)
StopCloses ==
  /\ stop = "closing"
  /\ chan' = [chan EXCEPT ![stopping] = "closed"]
  /\ Stopped
  /\ UNCHANGED << hooked, consumers, messageVars, workVars >>

-------------------------------------------------------------------------------
Register ==
  \/ \E s \in Starters : Start(s)
  \/ TimerFires
  \/ \E t \in Threads : Opened(t) \/ Consume(t) \/ Registered(t) \/ RegistrationFails(t)

Stop == StopBegins \/ StopCancels \/ StopWaited \/ StopCloses

Handle ==
  \/ \E m \in Messages, k \in consumers : Deliver(m, k)
  \/ \E d \in Deliveries : Parsed(d) \/ HandlerSucceeds(d) \/ HandlerFails(d)

Next ==
  \/ Register
  \/ Stop
  \/ Handle
  \/ \E c \in Commands : RegisterHandler(c) \/ UnregisterHandler(c)
  \/ \E k \in consumers : ConsumerCancelled(k)
  \/ \E c \in Channels : ChannelBreaks(c) \/ ChannelDown(c)

Spec == Init /\ [][Next]_vars

-------------------------------------------------------------------------------
(* Properties *)

TypeOK ==
  /\ handlers \subseteq Commands
  /\ channel \in Channels \cup {None}
  /\ consumerTag \in (Channels \X Threads) \cup {None}
  /\ isRunning \in BOOLEAN
  /\ inFlight \subseteq {CorrelationId[m] : m \in Messages} \ {None}
  /\ cache \in Seq([key : {DedupKey[m] : m \in Messages}, defined : BOOLEAN])
  /\ \A i, j \in DOMAIN cache : cache[i].key = cache[j].key => i = j
  /\ Len(cache) <= CacheSize
  /\ reconnectAttempts \in 0..(MaxReconnectAttempts + 1)
  /\ reconnectTimer \in BOOLEAN
  /\ running = {b \in Callbacks : pc[b] # "idle"}
  /\ pc \in [Threads -> {"idle", "opening", "setup", "accepted"}]
  /\ on \in [Threads -> Channels \cup {None}]
  /\ stop \in {"idle", "cancelling", "waiting", "closing"}
  /\ chan \in [Channels -> {"none", "open", "broken", "closed"}]
  /\ hooked \subseteq Channels
  /\ consumers \subseteq Channels \X Threads
  /\ setting \in Settings
  /\ mode \in {"auto", "manual"}
  /\ malformed \subseteq Malformable
  /\ where \in [Messages -> Places]
  /\ redelivered \in [Messages -> BOOLEAN]
  /\ deliv \in [Deliveries -> Delivery \cup {None}]
  /\ handled \subseteq Messages
  /\ sent \in [Messages -> SUBSET {"ok", "error", "unsent"}]
  /\ requeues \in [Messages -> 0..2]
  /\ {crossed, late, drained} \subseteq BOOLEAN
  /\ rejected \subseteq Deliveries

(* A message is acknowledged only once a handler has completed it (or it   *)
(* was malformed and ignored), as long as no delivery was settled on a     *)
(* channel that is not its own (line 580 acks on this.channel).            *)
AckedWasHandled ==
  \A m \in Messages \ malformed :
    where[m] = "acked" /\ ~crossed =>
      m \in handled \/ \E n \in handled : Deduplicate /\ DedupKey[n] = DedupKey[m]

(* In auto mode a well-formed RPC request that has left the queue was      *)
(* replied to on a channel that was open, whatever was redelivered, cached *)
(* or lost; all that is let off is an error that could not be encoded,     *)
(* which line 621 only logs, although lines 723-726 say "always send error *)
(* response immediately".                                                  *)
SettledWasAnswered ==
  mode = "auto" =>
    \A m \in RpcMessages \ malformed :
      where[m] \in {"acked", "dead"} /\ ~crossed => sent[m] # {}

(* In auto mode only a callback that throws (lines 633 and 647) leaves a   *)
(* delivery unanswered on the channel in use when handleRequest() ends, to *)
(* take one place of the prefetch for ever; nothing else does, however     *)
(* channels, tags and duplicates interleave.                               *)
NothingForgotten ==
  mode = "auto" =>
    \A d \in Unsettled :
      d[1] = channel /\ deliv[d].at = "ended" => d \in rejected

(* When stop() closes the channel having found nothing in flight, nothing  *)
(* delivered on it is still being handled, but for requests the set cannot *)
(* count: those without a correlation id, and those whose id another       *)
(* delivery has removed (lines 381-394 keep a Set).                        *)
DrainedMeansIdle ==
  stop = "closing" /\ drained =>
    \A d \in Delivered :
      LET id == CorrelationId[deliv[d].msg] IN
      d[1] = stopping /\ deliv[d].at # "ended" =>
        \/ id = None
        \/ \E e \in Delivered \ {d} :
             CorrelationId[deliv[e].msg] = id /\ deliv[e].at = "ended"

(* A server that says it runs (isServerRunning(), line 779) consumes, or is *)
(* about to hear that it does not - if it listens to the channel of its    *)
(* consumer and no registration was completed after the fact: then neither *)
(* an error of another channel, nor a start() or a reconnection beside the *)
(* one that made the consumer, deceives it.                                *)
HookedIsListening ==
  isRunning /\ stop = "idle" /\ consumerTag[1] \in hooked /\ ~late =>
    consumerTag \in consumers \/ chan[consumerTag[1]] = "broken"

(* "@returns true if server is actively listening for requests" (line 777), *)
(* at least when the registration did not complete too late.               *)
RunningIsListening ==
  isRunning /\ stop = "idle" /\ ~late =>
    consumerTag \in consumers \/ chan[consumerTag[1]] = "broken"

(* "requeue is attempted once based on the redelivered flag [...] After    *)
(* that, the message is sent to the DLQ" (README.md:299).                  *)
RequeuedOnce == \A m \in Messages : requeues[m] <= 1

(* The redelivered flag is all the memory there is of earlier attempts     *)
(* (line 755); where maxRetries is at most 1 it is enough: through         *)
(* redeliveries, broken channels and answers that close them, a message    *)
(* that keeps failing is put back no more than maxRetries times, unless a  *)
(* tag was answered on a channel that is not its own.                      *)
RequeueLimit ==
  MaxRetries <= 1 /\ ~crossed => \A m \in Messages : requeues[m] <= MaxRetries

(* No step loses a reconnection: while its timer is set or a callback is   *)
(* in progress, only a server that runs or the last failed attempt ends it *)
(* - neither stop()'s cancel(), nor the reset() of another call, nor a     *)
(* scheduleReconnect() that finds the timer set.                           *)
Recovering == reconnectTimer \/ \E b \in Callbacks : pc[b] # "idle"

ReconnectGoesOn ==
  [][Recovering =>
       Recovering' \/ isRunning' \/ reconnectAttempts' > MaxReconnectAttempts]_vars
=============================================================================
