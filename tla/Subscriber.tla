------------------------------- MODULE Subscriber -------------------------------
(***************************************************************************)
(* The event subscriber of src/server/pubsub/Subscriber.ts with the        *)
(* reconnection manager it owns.                                           *)
(*                                                                         *)
(* An event is settled once, on the channel that was this.channel when it  *)
(* arrived, by a rule that depends on the mode: isolated mode waits for    *)
(* every matching handler and acknowledges whatever they did; strict mode  *)
(* acknowledges when all have succeeded and rejects at the first failure,  *)
(* while the others keep running.  A handler that exceeds its time has     *)
(* failed for the subscriber, and keeps running too.                       *)
(*                                                                         *)
(* Every channel is listened to, and the close of ANY of them makes the    *)
(* subscriber forget its channel and stop.  The queue has a name, so it    *)
(* outlives the consumers; bindings and routing are the broker's.          *)
(***************************************************************************)
EXTENDS Integers, FiniteSets, TopicPatterns

CONSTANTS
  None,                  \* undefined
  Messages,              \* events in the queue
  Handlers,              \* registrations made with on()
  Patterns, EventNames,  \* as users may write them
  Pattern,               \* of each registration,
  EventName,             \* and the name of each event, its routing key
  MessageId,             \* of each event; None where it has none
  HandlerTimeout,        \* whether config.handlerTimeout is set
  MalformedStrategies,   \* messageValidation.malformedMessageStrategy
  Prefetch,
  Starters,              \* start() calls that may be in progress
  Callbacks, MaxReconnectAttempts,      \* the reconnection manager's
  Settings,              \* what the environment may do in one behaviour
  MaxChannels, MaxTags   \* bounds: channels created, deliveries per channel

(* Which events are published, which handlers on() is given and which      *)
(* start() calls are made, the values errorHandling.isolateErrors may have, *)
(* and whether the broker cancels consumers and stop() is called.          *)
Setting ==
  [events : SUBSET Messages, handlers : SUBSET Handlers, starters : SUBSET Starters,
   modes : SUBSET BOOLEAN, cancels : BOOLEAN, stops : BOOLEAN]

ASSUME SubscriberAssumption ==
  /\ Patterns \cup EventNames \subseteq Texts
  /\ Pattern \in [Handlers -> Patterns]
  /\ EventName \in [Messages -> EventNames]
  /\ HandlerTimeout \in BOOLEAN
  /\ MalformedStrategies \subseteq {"reject", "dlq", "ignore"}
  /\ Prefetch \in Nat \ {0}
  /\ Settings \subseteq Setting
  /\ Starters \cap Callbacks = {}
  /\ {MaxChannels, MaxTags, MaxReconnectAttempts} \subseteq Nat

VARIABLES
  setting,               \* the environment's; never changes
  \* Subscriber's fields
  isolateErrors,         \* config.errorHandling.isolateErrors; never changes
  handlers,              \* this.handlers
  channel,               \* this.channel
  consumerTag,           \* this.consumerTag
  running,               \* this.running
  inFlight,              \* this.inFlightMessages
  \* the reconnection manager
  reconnectAttempts, reconnectTimer, reconnecting,
  \* calls in progress
  pc, on,                \* each start() and callback, and the channel it uses
  stop, stopping,        \* where stop() is, and what it works on
  \* channels and broker
  chan,                  \* "none", "open", "broken" or "closed"
  consumers,             \* active consumers: <<channel, who created it>>
  malformed,             \* events the parser refuses; never changes
  queued,                \* events waiting in the queue
  deliv,                 \* of each channel and tag: the delivery, or None
  \* history
  crossed,               \* an event was settled on another channel than its own
  unknownTag,            \* the broker was given a tag it did not know
  late,                  \* the last registration completed when its consumer had gone
  drained                \* stop() found no event in flight

givenVars == << setting, isolateErrors >>
fieldVars == << givenVars, handlers, channel, consumerTag, running >>
reconnectVars == << reconnectAttempts, reconnectTimer, reconnecting >>
callVars == << pc, on, late >>
stopVars == << stop, stopping, drained >>
linkVars == << chan, consumers >>
eventVars == << malformed, queued, deliv >>
workVars == << inFlight, crossed, unknownTag >>
vars == << fieldVars, reconnectVars, callVars, stopVars, linkVars, eventVars, workVars >>

Manager == INSTANCE ConsumerReconnectionManager WITH running <- reconnecting

Channels == 1..MaxChannels
Deliveries == Channels \X (1..MaxTags)
Threads == Starters \cup Callbacks

(* An event under way: what has become of it, the channel captured when it *)
(* arrived, and its handlers.                                              *)
Delivery ==
  [msg : Messages, settled : {"no", "acked", "dead", "lost"},
   via : Channels \cup {None}, at : {"arrived", "handling", "ended"},
   waits : SUBSET Handlers, failed : SUBSET Handlers, busy : SUBSET Handlers]

ASSUME NoneAssumption == None \notin Channels \cup Delivery \cup (Channels \X Threads)

Delivered == {d \in Deliveries : deliv[d] # None}
Unsettled == {d \in Delivered : deliv[d].settled = "no"}

(* Mutant: the tag does not stand in for a missing messageId. *)
KeyOf_IdOnly(m, tag) == MessageId[m]

(* messageId, or the tag as a string. *)
KeyOf(m, tag) == IF MessageId[m] # None THEN MessageId[m] ELSE tag
Key(d) == KeyOf(deliv[d].msg, d[2])

(* The registrations whose regex matches the name. *)
Calls == {call \in Handlers \X Messages : Matches(Pattern[call[1]], EventName[call[2]])}
Matching(m) == {h \in handlers : << h, m >> \in Calls}

Init ==
  /\ setting \in Settings
  /\ isolateErrors \in setting.modes
  /\ handlers = {}
  /\ channel = None
  /\ consumerTag = None
  /\ running = FALSE
  /\ inFlight = {}
  /\ Manager!Init
  /\ pc = [t \in Threads |-> "idle"]
  /\ on = [t \in Threads |-> None]
  /\ stop = "idle"
  /\ stopping = None
  /\ chan = [c \in Channels |-> "none"]
  /\ consumers = {}
  /\ malformed \in SUBSET setting.events
  /\ queued = setting.events
  /\ deliv = [d \in Deliveries |-> None]
  /\ crossed = FALSE
  /\ unknownTag = FALSE
  /\ late = FALSE
  /\ drained = FALSE

(* on() *)
On(h) ==
  /\ h \in setting.handlers
  /\ h \notin handlers
  /\ handlers' = handlers \cup {h}
  /\ UNCHANGED << givenVars, channel, consumerTag, running, reconnectVars, callVars,
                  stopVars, linkVars, eventVars, workVars >>

-------------------------------------------------------------------------------
(* Settling *)

(* Channel c is gone with its consumers; what it had delivered without an  *)
(* answer (f: the deliveries as this step leaves them) is queued again.    *)
Drop(c, state, f) ==
  LET lost == {d \in Unsettled : d[1] = c}
  IN  /\ UNCHANGED malformed
      /\ chan' = [chan EXCEPT ![c] = state]
      /\ consumers' = {k \in consumers : k[1] # c}
      /\ queued' = queued \cup {deliv[d].msg : d \in lost}
      /\ deliv' = [d \in Deliveries |->
                     IF d \in lost THEN [f[d] EXCEPT !.settled = "lost"] ELSE f[d]]

(* handleMessage() for d ends: g is deliv with the work of d brought up to *)
(* date.  ack or nack goes to the channel captured at the arrival; it      *)
(* throws when that is closed, and goes nowhere when it is broken.         *)
Settle(d, g, verdict) ==
  LET via == deliv[d].via
      t == << via, d[2] >>
      ended == [g EXCEPT ![d].at = "ended"]
  IN  /\ crossed' = (crossed \/ (chan[via] = "open" /\ via # d[1]))
      /\ unknownTag' = (unknownTag \/ (chan[via] = "open" /\ t \notin Unsettled))
      /\ \/ /\ chan[via] # "open"
            /\ deliv' = ended
            /\ UNCHANGED << linkVars, malformed, queued >>
         \/ /\ chan[via] = "open"
            /\ t \in Unsettled
            /\ deliv' = [ended EXCEPT ![t].settled = verdict]
            /\ UNCHANGED << linkVars, malformed, queued >>
         \/ /\ chan[via] = "open"
            /\ t \notin Unsettled
            /\ Drop(via, "broken", ended)

Finish(d, g, verdict) ==
  /\ Settle(d, g, verdict)
  /\ inFlight' = inFlight \ {Key(d)}

-------------------------------------------------------------------------------
(* handleMessage() *)

idle == << fieldVars, reconnectVars, callVars, stopVars >>

(* An event arrives.  Without this.channel it is left alone for ever.      *)
Deliver(m, k) ==
  /\ k \in consumers
  /\ m \in queued
  /\ Cardinality({d \in Unsettled : d[1] = k[1]}) < Prefetch
  /\ \E tag \in 1..MaxTags :
       LET d == << k[1], tag >> IN
       /\ deliv[d] = None
       /\ \A less \in 1..(tag - 1) : deliv[<< k[1], less >>] # None
       /\ deliv' = [deliv EXCEPT ![d] =
                      [msg |-> m, settled |-> "no", via |-> channel,
                       at |-> IF channel = None THEN "ended" ELSE "arrived",
                       waits |-> {}, failed |-> {}, busy |-> {}]]
       /\ inFlight' = IF channel = None THEN inFlight
                      ELSE inFlight \cup {KeyOf(m, tag)}
  /\ queued' = queued \ {m}
  /\ UNCHANGED << idle, linkVars, malformed, crossed, unknownTag >>

(* Mutant: an event that cannot be parsed gets no answer. *)
Refuse_Silent(d) ==
  /\ deliv' = [deliv EXCEPT ![d].at = "ended"]
  /\ inFlight' = inFlight \ {Key(d)}
  /\ UNCHANGED << linkVars, malformed, queued, crossed, unknownTag >>

Refuse(d) ==
  \E strategy \in MalformedStrategies :
    Finish(d, deliv, IF strategy = "ignore" THEN "acked" ELSE "dead")

(* Mutant: the event leaves inFlightMessages before its handlers end. *)
CallHandlers_Untracks(d) ==
  LET hs == Matching(deliv[d].msg) IN
  /\ hs # {}
  /\ deliv' = [deliv EXCEPT ![d].at = "handling", ![d].waits = hs, ![d].busy = hs]
  /\ inFlight' = inFlight \ {Key(d)}
  /\ UNCHANGED << linkVars, malformed, queued, crossed, unknownTag >>

(* All matching handlers are called at once, on the same turn.             *)
CallHandlers(d) ==
  LET hs == Matching(deliv[d].msg) IN
  /\ hs # {}
  /\ deliv' = [deliv EXCEPT ![d].at = "handling", ![d].waits = hs, ![d].busy = hs]
  /\ UNCHANGED << linkVars, malformed, queued, workVars >>

Parsed(d) ==
  LET m == deliv[d].msg IN
  /\ d \in Delivered
  /\ deliv[d].at = "arrived"
  /\ \/ m \in malformed /\ Refuse(d)
     \/ m \notin malformed /\ Matching(m) = {} /\ Finish(d, deliv, "acked")
     \/ m \notin malformed /\ CallHandlers(d)
  /\ UNCHANGED idle

(* Mutant: strict mode looks only at the last handler's outcome.           *)
Strict_LastDecides(d, g, ok) ==
  IF g[d].waits = {}
  THEN Finish(d, g, IF ok THEN "acked" ELSE "dead")
  ELSE deliv' = g /\ UNCHANGED << linkVars, malformed, queued, workVars >>

(* executeHandlersStrict(): Promise.all. *)
Strict(d, g, ok) ==
  IF ok /\ g[d].waits # {}
  THEN deliv' = g /\ UNCHANGED << linkVars, malformed, queued, workVars >>
  ELSE Finish(d, g, IF ok THEN "acked" ELSE "dead")

(* executeHandlersIsolated(): Promise.allSettled, then the error handler   *)
(* for each failure, which may throw and is outside of any try.            *)
Isolated(d, g) ==
  IF g[d].waits # {}
  THEN deliv' = g /\ UNCHANGED << linkVars, malformed, queued, workVars >>
  ELSE \/ Finish(d, g, "acked")
       \/ g[d].failed # {} /\ Finish(d, g, "dead")

(* The outcome of handler h reaches the strategy, which waits for it.      *)
Outcome(d, h, ok, stillBusy) ==
  LET g == [deliv EXCEPT ![d].waits = @ \ {h},
                         ![d].failed = IF ok THEN @ ELSE @ \cup {h},
                         ![d].busy = IF stillBusy THEN @ ELSE @ \ {h}]
  IN  IF isolateErrors THEN Isolated(d, g) ELSE Strict(d, g, ok)

(* Mutant: a failure nobody waits for any more still rejects the event. *)
HandlerEnds_Late(d, h, ok) ==
  /\ d \in Delivered
  /\ h \in deliv[d].busy
  /\ IF deliv[d].at = "handling" /\ h \in deliv[d].waits
     THEN Outcome(d, h, ok, FALSE)
     ELSE Finish(d, [deliv EXCEPT ![d].busy = @ \ {h}], "dead")
  /\ UNCHANGED idle

(* A handler returns or throws.  Nobody listens to it any more when it has *)
(* timed out, or when strict mode has settled the event.                   *)
HandlerEnds(d, h, ok) ==
  /\ d \in Delivered
  /\ h \in deliv[d].busy
  /\ IF deliv[d].at = "handling" /\ h \in deliv[d].waits
     THEN Outcome(d, h, ok, FALSE)
     ELSE /\ deliv' = [deliv EXCEPT ![d].busy = @ \ {h}]
          /\ UNCHANGED << linkVars, malformed, queued, workVars >>
  /\ UNCHANGED idle

(* Promise.race with the timer: the handler is not stopped.                *)
HandlerTimesOut(d, h) ==
  /\ HandlerTimeout
  /\ d \in Delivered
  /\ deliv[d].at = "handling"
  /\ h \in deliv[d].waits
  /\ Outcome(d, h, FALSE, TRUE)
  /\ UNCHANGED idle

-------------------------------------------------------------------------------
(* start() and reRegisterConsumer() *)

restOfStep == << givenVars, handlers, stopVars, malformed, queued, deliv, workVars >>

(* ensureChannel(): the channel held, or a new one. *)
EnsureChannel(t) ==
  /\ pc' = [pc EXCEPT ![t] = IF channel = None THEN "opening" ELSE "setup"]
  /\ on' = [on EXCEPT ![t] = channel]

Start(s) ==
  /\ s \in setting.starters
  /\ pc[s] = "idle"
  /\ ~running
  /\ handlers # {}
  /\ EnsureChannel(s)
  /\ UNCHANGED << channel, consumerTag, running, late, reconnectVars, linkVars, restOfStep >>

ReRegister(b) ==
  /\ ~running
  /\ Manager!TimerFires(b)
  /\ EnsureChannel(b)

(* The subscriber runs again: the callback returns at once and the manager *)
(* is reset.                                                               *)
NothingToDo ==
  /\ running
  /\ reconnectTimer
  /\ Manager!Reset
  /\ UNCHANGED << pc, on >>

TimerFires ==
  /\ NothingToDo \/ \E b \in Callbacks : ReRegister(b)
  /\ UNCHANGED << channel, consumerTag, running, late, linkVars, restOfStep >>

(* createChannel() resolves: two calls in progress make two channels.      *)
Opened(t) ==
  /\ pc[t] = "opening"
  /\ \E c \in Channels :
       /\ chan[c] = "none"
       /\ \A less \in 1..(c - 1) : chan[less] # "none"
       /\ chan' = [chan EXCEPT ![c] = "open"]
       /\ channel' = c
       /\ on' = [on EXCEPT ![t] = c]
  /\ pc' = [pc EXCEPT ![t] = "setup"]
  /\ UNCHANGED << consumerTag, running, late, consumers, reconnectVars, restOfStep >>

(* Exchange, queue, bindings, prefetch, and the broker accepts a consumer. *)
Consume(t) ==
  /\ pc[t] = "setup"
  /\ chan[on[t]] = "open"
  /\ consumers' = consumers \cup {<< on[t], t >>}
  /\ pc' = [pc EXCEPT ![t] = "accepted"]
  /\ UNCHANGED << channel, consumerTag, running, on, late, chan, reconnectVars, restOfStep >>

(* The continuation of that await. *)
Registered(t) ==
  /\ pc[t] = "accepted"
  /\ consumerTag' = << on[t], t >>
  /\ running' = TRUE
  /\ late' = (<< on[t], t >> \notin consumers)
  /\ pc' = [pc EXCEPT ![t] = "idle"]
  /\ on' = [on EXCEPT ![t] = None]
  /\ IF t \in Starters THEN Manager!Reset ELSE Manager!CallbackSucceeds(t)
  /\ UNCHANGED << channel, linkVars, restOfStep >>

(* Mutant: a callback that fails does not say so. *)
RegistrationFails_Unheard(t) ==
  /\ pc[t] \in {"opening", "setup"}
  /\ pc' = [pc EXCEPT ![t] = "idle"]
  /\ on' = [on EXCEPT ![t] = None]
  /\ IF t \in Starters THEN UNCHANGED reconnectVars
     ELSE reconnecting' = reconnecting \ {t} /\ UNCHANGED << reconnectAttempts, reconnectTimer >>
  /\ UNCHANGED << channel, consumerTag, running, late, linkVars, restOfStep >>

RegistrationFails(t) ==
  /\ pc[t] \in {"opening", "setup"}
  /\ pc' = [pc EXCEPT ![t] = "idle"]
  /\ on' = [on EXCEPT ![t] = None]
  /\ IF t \in Starters THEN UNCHANGED reconnectVars ELSE Manager!CallbackFails(t)
  /\ UNCHANGED << channel, consumerTag, running, late, linkVars, restOfStep >>

-------------------------------------------------------------------------------
(* Channel and consumer events *)

(* A null message and a 'cancel' event, both of which schedule. *)
ConsumerCancelled(k) ==
  /\ setting.cancels
  /\ k \in consumers
  /\ consumers' = consumers \ {k}
  /\ running' = FALSE
  /\ Manager!ScheduleReconnect
  /\ UNCHANGED << channel, consumerTag, callVars, chan, restOfStep >>

ChannelBreaks(c) ==
  /\ chan[c] = "open"
  /\ Drop(c, "broken", deliv)
  /\ UNCHANGED << fieldVars, reconnectVars, callVars, stopVars, workVars >>

(* Mutant: the handler of 'close' leaves running alone. *)
OnClose_KeepsRunning == channel' = None /\ UNCHANGED running
OnClose == channel' = None /\ running' = FALSE

ChannelDown(c) ==
  /\ chan[c] = "broken"
  /\ chan' = [chan EXCEPT ![c] = "closed"]
  /\ OnClose
  /\ UNCHANGED << consumerTag, consumers, reconnectVars, callVars, restOfStep >>

-------------------------------------------------------------------------------
(* stop() *)

StopBegins ==
  /\ setting.stops
  /\ stop = "idle"
  /\ running
  /\ Manager!Cancel
  /\ stop' = IF channel # None /\ consumerTag # None THEN "cancelling" ELSE "waiting"
  /\ stopping' = IF consumerTag # None /\ channel = consumerTag[1] THEN consumerTag ELSE None
  /\ UNCHANGED << fieldVars, callVars, drained, linkVars, eventVars, workVars >>

(* channel.cancel() returns, or throws and leaves the tag.                 *)
StopCancels ==
  /\ stop = "cancelling"
  /\ consumers' = consumers \ {stopping}
  /\ consumerTag' \in {None, consumerTag}
  /\ stop' = "waiting"
  /\ stopping' = None
  /\ UNCHANGED << givenVars, handlers, channel, running, reconnectVars, callVars, drained,
                  chan, eventVars, workVars >>

(* What stop() leaves behind. *)
Stopped ==
  /\ stop' = "idle"
  /\ stopping' = None
  /\ drained' = FALSE
  /\ channel' = None
  /\ running' = FALSE
  /\ UNCHANGED << givenVars, handlers, consumerTag, reconnectVars, callVars >>

(* The wait is over: nothing in flight, out of time, or force.             *)
StopWaited ==
  /\ stop = "waiting"
  /\ \/ /\ channel = None
        /\ Stopped
        /\ UNCHANGED << linkVars, eventVars >>
     \/ /\ channel # None
        /\ drained' \in {inFlight = {}, FALSE}
        /\ stop' = "closing"
        /\ stopping' = channel
        /\ Drop(channel, IF chan[channel] = "open" THEN "broken" ELSE chan[channel], deliv)
        /\ UNCHANGED << fieldVars, reconnectVars, callVars >>
  /\ UNCHANGED workVars

(* channel.close() returns or throws. *)
StopCloses ==
  /\ stop = "closing"
  /\ chan' = [chan EXCEPT ![stopping] = "closed"]
  /\ Stopped
  /\ UNCHANGED << consumers, eventVars, workVars >>

-------------------------------------------------------------------------------
Register ==
  \/ \E s \in Starters : Start(s)
  \/ TimerFires
  \/ \E t \in Threads : Opened(t) \/ Consume(t) \/ Registered(t) \/ RegistrationFails(t)

Handle ==
  \/ \E m \in Messages, k \in consumers : Deliver(m, k)
  \/ \E d \in Deliveries :
       \/ Parsed(d)
       \/ \E h \in Handlers :
            HandlerTimesOut(d, h) \/ \E ok \in BOOLEAN : HandlerEnds(d, h, ok)

Next ==
  \/ \E h \in Handlers : On(h)
  \/ Register
  \/ Handle
  \/ \E k \in consumers : ConsumerCancelled(k)
  \/ \E c \in Channels : ChannelBreaks(c) \/ ChannelDown(c)
  \/ StopBegins \/ StopCancels \/ StopWaited \/ StopCloses

Spec == Init /\ [][Next]_vars

(***************************************************************************)
(* Awaits on the broker settle, continuations run, timers fire.  Nothing   *)
(* obliges a handler to end, the broker to deliver, or anyone to call.     *)
(***************************************************************************)
Fairness ==
  /\ \A t \in Threads :
       WF_vars(Opened(t) \/ Consume(t) \/ Registered(t) \/ RegistrationFails(t))
  /\ WF_vars(TimerFires)

FairSpec == Spec /\ Fairness

-------------------------------------------------------------------------------
(* Properties *)

TypeOK ==
  /\ setting \in Settings
  /\ isolateErrors \in BOOLEAN
  /\ handlers \subseteq Handlers
  /\ channel \in Channels \cup {None}
  /\ consumerTag \in (Channels \X Threads) \cup {None}
  /\ running \in BOOLEAN
  /\ inFlight \subseteq ({MessageId[m] : m \in Messages} \ {None}) \cup (1..MaxTags)
  /\ reconnectAttempts \in 0..(MaxReconnectAttempts + 1)
  /\ reconnectTimer \in BOOLEAN
  /\ reconnecting = {b \in Callbacks : pc[b] # "idle"}
  /\ pc \in [Threads -> {"idle", "opening", "setup", "accepted"}]
  /\ on \in [Threads -> Channels \cup {None}]
  /\ stop \in {"idle", "cancelling", "waiting", "closing"}
  /\ chan \in [Channels -> {"none", "open", "broken", "closed"}]
  /\ consumers \subseteq Channels \X Threads
  /\ malformed \subseteq Messages
  /\ queued \subseteq Messages
  /\ deliv \in [Deliveries -> Delivery \cup {None}]
  /\ {crossed, unknownTag, late, drained} \subseteq BOOLEAN

(* In strict mode ("all-or-nothing", line 660) an event is acknowledged    *)
(* only if no handler failed on it and none is still running, whichever    *)
(* order they ended in - unless the ack named another channel's delivery.  *)
StrictAcksAllOrNothing ==
  ~isolateErrors /\ ~crossed =>
    \A d \in Delivered :
      deliv[d].settled = "acked" => deliv[d].failed = {} /\ deliv[d].busy = {}

(* "messages are ALWAYS ACKed regardless of handler success/failure"       *)
(* (line 592): in isolated mode no event is rejected but a malformed one.  *)
IsolatedAlwaysAcks ==
  isolateErrors /\ ~crossed =>
    \A d \in Delivered : deliv[d].settled = "dead" => deliv[d].msg \in malformed

(* An event is settled once: while every event is settled on the channel   *)
(* it came from, no late handler, timeout or error sends a second answer,  *)
(* for which the broker would close the channel.                           *)
SettledOnce == ~crossed => ~unknownTag

(* When handleMessage() has ended, its delivery has been answered: nothing *)
(* is left to fill the prefetch window of a channel in use.                *)
NothingForgotten ==
  \A d \in Unsettled : deliv[d].via = d[1] => deliv[d].at # "ended"

(* When stop() closes the channel having found nothing in flight, no event *)
(* that arrived on it is still to be settled, but for those whose key      *)
(* another delivery has removed (lines 511-512 keep a Set).                *)
DrainedMeansSettled ==
  stop = "closing" /\ drained =>
    \A d \in Delivered : d[1] = stopping /\ deliv[d].at # "ended" =>
      \E e \in Delivered \ {d} : Key(e) = Key(d) /\ deliv[e].at = "ended"

(* "@returns true if subscriber is actively consuming messages" (line      *)
(* 395): a subscriber that says it runs consumes, or is about to hear that *)
(* it does not - unless its registration completed after the fact.         *)
RunningIsConsuming ==
  running /\ stop = "idle" /\ ~late =>
    consumerTag \in consumers \/ chan[consumerTag[1]] = "broken"

(* "# (zero or more words)" (line 219): an event that arrives and that a   *)
(* registered pattern covers in the documented meaning, with a "#" that    *)
(* stands for any number of words, none included, is one its handler is    *)
(* called for.                                                             *)
RoutedIsCalled ==
  \A d \in Delivered, h \in handlers :
    RoutesWith(Pattern[h], EventName[deliv[d].msg], 0) => h \in Matching(deliv[d].msg)

(* A reconnection that is scheduled is tried until the subscriber runs or  *)
(* the last attempt has failed, whatever runs beside it: another callback  *)
(* of the manager, whose timer can be set again while the first is in      *)
(* progress (line 77 of ConsumerReconnectionManager.ts looks at the timer  *)
(* alone), a start(), or a stop().                                         *)
ReconnectSettles ==
  reconnectTimer ~> running \/ reconnectAttempts > MaxReconnectAttempts
=============================================================================
