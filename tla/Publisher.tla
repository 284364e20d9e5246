------------------------------- MODULE Publisher -------------------------------
(***************************************************************************)
(* The event publisher of src/client/pubsub/Publisher.ts with the retry    *)
(* loop of src/core/retry/RetryPolicy.ts around each of its messages.      *)
(*                                                                         *)
(* A publish() takes this.channel, or makes one, and stays with it for all *)
(* its attempts.  Publishes that overlap may each make a channel; the      *)
(* close of any of them clears this.channel and the exchange cache.  What  *)
(* an attempt waits for is not its own confirmation but that of everything *)
(* unconfirmed on its channel when it starts to wait.                      *)
(*                                                                         *)
(* Continuations of awaits are steps of their own: other events of the     *)
(* same read may be dispatched before them.  The type an exchange is       *)
(* declared with (exchangeTypes) is left out: the broker may refuse any    *)
(* declaration, and then closes the channel.                               *)
(***************************************************************************)
EXTENDS Integers, Sequences

CONSTANTS
  None,               \* undefined
  Publishes,          \* the messages published, one for each exchange of a call
  Calls,              \* the publish() and publishToMany() calls: sets of those
  Exchanges, Exchange,\* and the exchange each message goes to
  Preconfigured,      \* config.exchanges, a sequence
  WaitsForConfirms,   \* publisherConfirms in confirmMode "sync"
  Retries,            \* retry is on, with patterns that match every error
  MaxAttempts,        \* retry.maxAttempts
  MaxChannels         \* bound: channels created

ASSUME PublisherAssumption ==
  /\ Calls \subseteq SUBSET Publishes
  /\ Exchange \in [Publishes -> Exchanges]
  /\ Preconfigured \in Seq(Exchanges)
  /\ {WaitsForConfirms, Retries} \subseteq BOOLEAN
  /\ {MaxAttempts, MaxChannels} \subseteq Nat \ {0}
  /\ None \notin Nat

VARIABLES
  channel,            \* this.channel
  asserted,           \* this.assertedExchanges
  closing,            \* the channel close() waits for, or None
  \* each publish
  at,                 \* where it is
  on,                 \* the channel it works on
  todo,               \* exchanges it has yet to find asserted
  attempt,            \* attempts made
  waits,              \* the messages whose confirmation it waits for
  \* channels and broker
  chan,               \* "none", "open", "broken", "closing" or "closed"
  unconfirmed,        \* messages sent, <<publish, attempt>>, without an answer
  \* history
  declared,           \* exchanges the broker has declared for the publisher
  sent,               \* messages sent
  confirmed, nacked,  \* and what the broker answered
  heldUp,             \* those for which publish() on the channel returned false
  late                \* this.channel was installed after its close event

publisherVars == << channel, asserted, closing >>
callVars == << at, on, todo, attempt, waits >>
linkVars == << chan, unconfirmed >>
historyVars == << declared, sent, confirmed, nacked, heldUp, late >>
vars == << publisherVars, callVars, linkVars, historyVars >>

Channels == 1..MaxChannels
Messages == Publishes \X (1..MaxAttempts)

(* A client that has not heard of the end of a channel goes on using it. *)
Usable(c) == chan[c] \in {"open", "broken"}

(* The messages without an answer on a channel. *)
Pending(c, messages) == {m \in messages : on[m[1]] = c}

Init ==
  /\ channel = None
  /\ asserted = {}
  /\ closing = None
  /\ at = [p \in Publishes |-> "idle"]
  /\ on = [p \in Publishes |-> None]
  /\ todo = [p \in Publishes |-> << >>]
  /\ attempt = [p \in Publishes |-> 0]
  /\ waits = [p \in Publishes |-> {}]
  /\ chan = [c \in Channels |-> "none"]
  /\ unconfirmed = {}
  /\ declared = {}
  /\ sent = {}
  /\ confirmed = {}
  /\ nacked = {}
  /\ heldUp = {}
  /\ late = FALSE

-------------------------------------------------------------------------------
(* ensureChannel() and assertExchange() *)

(* publish() and publishToMany(): every message takes the channel held, or *)
(* makes one.                                                              *)
Publish(P) ==
  /\ \A p \in P : at[p] = "idle"
  /\ at' = [p \in Publishes |->
              IF p \notin P THEN at[p] ELSE IF channel = None THEN "opening" ELSE "ready"]
  /\ on' = [p \in Publishes |-> IF p \in P THEN channel ELSE on[p]]
  /\ todo' = [p \in Publishes |-> IF p \in P THEN << Exchange[p] >> ELSE todo[p]]
  /\ UNCHANGED << publisherVars, attempt, waits, linkVars, historyVars >>

(* createConfirmChannel() is answered, *)
ChannelCreated(p) ==
  /\ at[p] = "opening"
  /\ \E c \in Channels :
       /\ chan[c] = "none"
       /\ \A less \in 1..(c - 1) : chan[less] # "none"
       /\ chan' = [chan EXCEPT ![c] = "open"]
       /\ on' = [on EXCEPT ![p] = c]
  /\ at' = [at EXCEPT ![p] = "created"]
  /\ UNCHANGED << publisherVars, todo, attempt, waits, unconfirmed, historyVars >>

(* and the channel installed, its handlers attached. *)
Install(p) ==
  /\ at[p] = "created"
  /\ channel' = on[p]
  /\ late' = (chan[on[p]] = "closed")
  /\ at' = [at EXCEPT ![p] = "ready"]
  /\ todo' = [todo EXCEPT ![p] = Preconfigured \o @]
  /\ UNCHANGED << asserted, closing, on, attempt, waits, linkVars,
                  declared, sent, confirmed, nacked, heldUp >>

(* The connection or the channel is refused, or the payload has no         *)
(* encoding.                                                               *)
Reject(p) ==
  /\ \/ at[p] = "opening"
     \/ at[p] = "ready" /\ todo[p] = << >> /\ attempt[p] = 0
  /\ at' = [at EXCEPT ![p] = "rejected"]
  /\ UNCHANGED << publisherVars, on, todo, attempt, waits, linkVars, historyVars >>

(* Mutant: the exchange is in the cache before the broker has it. *)
AssertExchange_CachesEarly(p) ==
  /\ at[p] = "ready"
  /\ todo[p] # << >>
  /\ IF Head(todo[p]) \in asserted
     THEN todo' = [todo EXCEPT ![p] = Tail(@)] /\ UNCHANGED << at, asserted >>
     ELSE /\ at' = [at EXCEPT ![p] = IF Usable(on[p]) THEN "declaring" ELSE "rejected"]
          /\ asserted' = asserted \cup {Head(todo[p])}
          /\ UNCHANGED todo
  /\ UNCHANGED << channel, closing, on, attempt, waits, linkVars, historyVars >>

(* assertExchange() up to its await. *)
AssertExchange(p) ==
  /\ at[p] = "ready"
  /\ todo[p] # << >>
  /\ IF Head(todo[p]) \in asserted
     THEN todo' = [todo EXCEPT ![p] = Tail(@)] /\ UNCHANGED at
     ELSE /\ at' = [at EXCEPT ![p] = IF Usable(on[p]) THEN "declaring" ELSE "rejected"]
          /\ UNCHANGED todo
  /\ UNCHANGED << publisherVars, on, attempt, waits, linkVars, historyVars >>

(* The broker declares the exchange; it refuses by breaking the channel. *)
Declare(p) ==
  /\ at[p] = "declaring"
  /\ chan[on[p]] = "open"
  /\ declared' = declared \cup {Head(todo[p])}
  /\ at' = [at EXCEPT ![p] = "declared"]
  /\ UNCHANGED << publisherVars, on, todo, attempt, waits, linkVars,
                  sent, confirmed, nacked, heldUp, late >>

Remember(p) ==
  /\ at[p] = "declared"
  /\ asserted' = asserted \cup {Head(todo[p])}
  /\ todo' = [todo EXCEPT ![p] = Tail(@)]
  /\ at' = [at EXCEPT ![p] = "ready"]
  /\ UNCHANGED << channel, closing, on, attempt, waits, linkVars, historyVars >>

-------------------------------------------------------------------------------
(* One attempt, and the retry loop *)

(* Mutant: the last attempt is one too many. *)
AfterFailure_OffByOne(p, made) ==
  IF Retries /\ made <= MaxAttempts THEN "sleeping" ELSE "rejected"

(* RetryPolicy: what a failed attempt leads to. *)
AfterFailure(p, made) ==
  IF Retries /\ made < MaxAttempts THEN "sleeping" ELSE "rejected"

(* Mutant: only what was unconfirmed before the message is waited for. *)
Awaited_Before(p, messages) == Pending(on[p], unconfirmed)

(* waitForConfirms(): everything unconfirmed on the channel now. *)
Awaited(p, messages) == Pending(on[p], messages)

(* Where p is when it waits for these. *)
Waiting(messages) == IF WaitsForConfirms /\ messages # {} THEN "confirming" ELSE "resolved"

(* channel.publish(): it throws on a channel known to be closed, tells by  *)
(* its result whether to wait for 'drain', and on a broken channel the     *)
(* message goes nowhere.                                                   *)
Transmit(p) ==
  LET m == << p, attempt[p] + 1 >> IN
  /\ \/ at[p] = "ready" /\ todo[p] = << >>
     \/ at[p] = "sleeping"
  /\ attempt' = [attempt EXCEPT ![p] = @ + 1]
  /\ IF ~Usable(on[p])
     THEN /\ at' = [at EXCEPT ![p] = AfterFailure(p, m[2])]
          /\ UNCHANGED << waits, unconfirmed, sent, heldUp >>
     ELSE /\ unconfirmed' = unconfirmed \cup {m}
          /\ sent' = sent \cup {m}
          /\ \/ /\ waits' = [waits EXCEPT ![p] = Awaited(p, unconfirmed \cup {m})]
                /\ at' = [at EXCEPT ![p] = Waiting(waits'[p])]
                /\ UNCHANGED heldUp
             \/ /\ at' = [at EXCEPT ![p] = "draining"]
                /\ heldUp' = heldUp \cup {m}
                /\ UNCHANGED waits
  /\ UNCHANGED << publisherVars, on, todo, chan, declared, confirmed, nacked, late >>

(* Mutant: an attempt that had to wait for 'drain' is made again. *)
Drained_Resends(c) ==
  LET P == {p \in Publishes : at[p] = "draining" /\ on[p] = c} IN
  /\ Usable(c)
  /\ P # {}
  /\ at' = [p \in Publishes |-> IF p \in P THEN AfterFailure(p, attempt[p]) ELSE at[p]]
  /\ UNCHANGED << publisherVars, on, todo, attempt, waits, linkVars, historyVars >>

(* 'drain' wakes all that wait for it on the channel. *)
Drained(c) ==
  LET P == {p \in Publishes : at[p] = "draining" /\ on[p] = c} IN
  /\ Usable(c)
  /\ P # {}
  /\ waits' = [p \in Publishes |-> IF p \in P THEN Awaited(p, unconfirmed) ELSE waits[p]]
  /\ at' = [p \in Publishes |-> IF p \in P THEN Waiting(waits'[p]) ELSE at[p]]
  /\ UNCHANGED << publisherVars, on, todo, attempt, linkVars, historyVars >>

Hearing(m) == {p \in Publishes : at[p] = "confirming" /\ m \in waits[p]}

(* The broker answers for a message: to all who wait for it. *)
Confirm(m) ==
  /\ m \in unconfirmed
  /\ chan[on[m[1]]] = "open"
  /\ unconfirmed' = unconfirmed \ {m}
  /\ confirmed' = confirmed \cup {m}
  /\ waits' = [p \in Publishes |-> waits[p] \ {m}]
  /\ at' = [p \in Publishes |->
              IF p \in Hearing(m) /\ waits[p] = {m} THEN "resolved" ELSE at[p]]
  /\ UNCHANGED << publisherVars, on, todo, attempt, chan, declared, sent, nacked, heldUp, late >>

(* Mutant: nobody is told of a nack. *)
Nack_Unheard(m) ==
  /\ m \in unconfirmed
  /\ chan[on[m[1]]] = "open"
  /\ unconfirmed' = unconfirmed \ {m}
  /\ nacked' = nacked \cup {m}
  /\ UNCHANGED << publisherVars, callVars, chan, declared, sent, confirmed, heldUp, late >>

Nack(m) ==
  /\ m \in unconfirmed
  /\ chan[on[m[1]]] = "open"
  /\ unconfirmed' = unconfirmed \ {m}
  /\ nacked' = nacked \cup {m}
  /\ waits' = [p \in Publishes |-> IF p \in Hearing(m) THEN {} ELSE waits[p]]
  /\ at' = [p \in Publishes |->
              IF p \in Hearing(m) THEN AfterFailure(p, attempt[p]) ELSE at[p]]
  /\ UNCHANGED << publisherVars, on, todo, attempt, chan, declared, sent, confirmed, heldUp, late >>

-------------------------------------------------------------------------------
(* Channel events and close() *)

ChannelBreaks(c) ==
  /\ chan[c] = "open"
  /\ chan' = [chan EXCEPT ![c] = "broken"]
  /\ UNCHANGED << publisherVars, callVars, unconfirmed, historyVars >>

(* Mutant: the handlers only empty the exchange cache. *)
OnClose_Keeps == asserted' = {} /\ UNCHANGED channel

(* The handlers of 'error' and 'close'. *)
OnClose == asserted' = {} /\ channel' = None

(* What waits for an answer on c is told that none will come.  A channel   *)
(* that its publish() has not installed yet has no handlers.               *)
ChannelDown(c) ==
  /\ chan[c] \in {"broken", "closing"}
  /\ chan' = [chan EXCEPT ![c] = "closed"]
  /\ unconfirmed' = unconfirmed \ Pending(c, unconfirmed)
  /\ at' = [p \in Publishes |->
              IF on[p] # c THEN at[p]
              ELSE IF at[p] = "declaring" THEN "rejected"
              ELSE IF at[p] = "confirming" THEN AfterFailure(p, attempt[p])
              ELSE at[p]]
  /\ waits' = [p \in Publishes |-> IF on[p] = c THEN {} ELSE waits[p]]
  /\ IF \E p \in Publishes : at[p] = "created" /\ on[p] = c
     THEN UNCHANGED << channel, asserted >>
     ELSE OnClose
  /\ UNCHANGED << closing, on, todo, attempt, historyVars >>

(* close() up to its await, and after it. *)
Close ==
  /\ closing = None
  /\ asserted' = {}
  /\ closing' = channel
  /\ chan' = [c \in Channels |-> IF c = channel /\ Usable(c) THEN "closing" ELSE chan[c]]
  /\ UNCHANGED << channel, callVars, unconfirmed, historyVars >>

Closed ==
  /\ closing # None
  /\ chan[closing] = "closed"
  /\ channel' = None
  /\ closing' = None
  /\ UNCHANGED << asserted, callVars, linkVars, historyVars >>

-------------------------------------------------------------------------------
Proceed(p) ==
  \/ ChannelCreated(p) \/ Install(p) \/ Reject(p)
  \/ AssertExchange(p) \/ Declare(p) \/ Remember(p) \/ Transmit(p)

Answer == \E m \in Messages : Confirm(m) \/ Nack(m)

Next ==
  \/ \E P \in Calls : Publish(P)
  \/ \E p \in Publishes : Proceed(p)
  \/ Answer
  \/ \E c \in Channels : Drained(c) \/ ChannelBreaks(c) \/ ChannelDown(c)
  \/ Close \/ Closed

Spec == Init /\ [][Next]_vars

(***************************************************************************)
(* Awaits on the broker settle, continuations run, timers fire; the broker *)
(* confirms or nacks what it was sent, and a socket drains, while the      *)
(* channel lives; a client hears of a channel that broke.                  *)
(***************************************************************************)
Fairness ==
  /\ \A p \in Publishes : WF_vars(Proceed(p))
  /\ WF_vars(Answer)
  /\ \A c \in Channels : WF_vars(Drained(c)) /\ WF_vars(ChannelDown(c))

FairSpec == Spec /\ Fairness

-------------------------------------------------------------------------------
(* Properties *)

Stages == {"idle", "opening", "created", "ready", "declaring", "declared",
           "draining", "confirming", "sleeping", "resolved", "rejected"}

TypeOK ==
  /\ channel \in Channels \cup {None}
  /\ asserted \subseteq Exchanges
  /\ closing \in Channels \cup {None}
  /\ at \in [Publishes -> Stages]
  /\ on \in [Publishes -> Channels \cup {None}]
  /\ todo \in [Publishes -> Seq(Exchanges)]
  /\ attempt \in [Publishes -> 0..MaxAttempts]
  /\ waits \in [Publishes -> SUBSET Messages]
  /\ chan \in [Channels -> {"none", "open", "broken", "closing", "closed"}]
  /\ unconfirmed \subseteq Messages
  /\ declared \subseteq Exchanges
  /\ sent \subseteq Messages
  /\ confirmed \subseteq Messages
  /\ nacked \subseteq Messages
  /\ heldUp \subseteq Messages
  /\ late \in BOOLEAN

(* "Ensure messages are safely persisted before considering them sent"     *)
(* (README, Publisher Confirms): a publish() that waits for confirms       *)
(* resolves only when the broker has confirmed its last attempt - but for  *)
(* one whose nack came while it waited for 'drain', before line 268 looked *)
(* at what is unconfirmed.                                                 *)
ConfirmedWhenResolved ==
  WaitsForConfirms =>
    \A p \in Publishes : at[p] = "resolved" =>
      LET m == << p, attempt[p] >> IN m \in confirmed \/ m \in nacked \cap heldUp

(* No message is sent to an exchange the broker has not declared for this  *)
(* publisher, although publishes share the cache while their declarations  *)
(* are in progress on channels of their own.                               *)
SentToDeclared == \A m \in sent : Exchange[m[1]] \in declared

(* A message the broker has confirmed is sent again only because its       *)
(* publish() also waited for another message, which was nacked, or whose   *)
(* answer was lost with the channel.                                       *)
ResentForAnother ==
  \A m \in confirmed : attempt[m[1]] > m[2] =>
    \/ chan[on[m[1]]] = "closed"
    \/ \E other \in nacked : other[1] # m[1] /\ on[other[1]] = on[m[1]]

(* "@returns true if the publisher has an active channel" (line 359), and  *)
(* "the channel is automatically recreated on the next publish()" (README):*)
(* the channel publishes will use is one whose end has not been reported,  *)
(* whichever of the channels made ended before - unless it ended before    *)
(* its handlers were attached.                                             *)
ReadyMeansActive == channel # None /\ ~late => chan[channel] # "closed"

(* Every publish() resolves or rejects, except one that waits for a        *)
(* 'drain' its channel can no longer emit (line 262).                      *)
PublishSettles ==
  \A p \in Publishes :
    at[p] # "idle" ~> \/ at[p] \in {"resolved", "rejected"}
                      \/ at[p] = "draining" /\ chan[on[p]] = "closed"
=============================================================================
