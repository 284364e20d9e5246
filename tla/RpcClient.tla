------------------------------ MODULE RpcClient ------------------------------
(***************************************************************************)
(* The RPC client of src/client/rpc/RpcClient.ts with the retry loop of    *)
(* src/core/retry/RetryPolicy.ts around every send().                      *)
(*                                                                         *)
(* A request makes up to MaxAttempts attempts.  An attempt waits for       *)
(* initialize() (three awaits on the broker), then in one synchronous step *)
(* arms its timer, enters the map of pending requests under its            *)
(* correlation id, registers an abort listener and sends the message.  A   *)
(* reply, the timer, the abort signal, the periodic cleanup or close()     *)
(* settle it.  Each of these finds the entry by correlation id alone.      *)
(*                                                                         *)
(* Attempts are pairs <<request, number>>.  A generated UUID is as unique  *)
(* as the attempt, so the attempt itself stands for it.                    *)
(***************************************************************************)
EXTENDS Integers

CONSTANTS
  Requests,        \* calls of send()
  MaxAttempts,     \* retry.maxAttempts; 1 when the retry policy is off
  CustomId,        \* options.correlationId, for the requests in its domain
  WithSignal,      \* the requests that pass options.signal
  TimeoutOf,       \* options.timeout || config.timeout, per request, in ticks
  DefaultTimeout,  \* config.timeout
  MaxChannels,     \* bound: channels the client may create
  AgeCap           \* bound: the age of a timer saturates here

Attempts == Requests \X (1..MaxAttempts)

ASSUME ClientAssumption ==
  /\ MaxAttempts \in Nat \ {0}
  /\ MaxChannels \in Nat \ {0}
  /\ AgeCap \in Nat
  /\ DefaultTimeout \in Nat
  /\ DOMAIN CustomId \subseteq Requests
  /\ \A r \in DOMAIN CustomId : CustomId[r] \notin Attempts
  /\ WithSignal \subseteq Requests
  /\ TimeoutOf \in [Requests -> 0..AgeCap]

IdOf(a) == IF a[1] \in DOMAIN CustomId THEN CustomId[a[1]] ELSE a
Ids == {IdOf(a) : a \in Attempts}
None == << >>
Off == -1
Channels == 1..MaxChannels

VARIABLES
  pc,          \* where each send() is
  attempt,     \* the number of its current attempt
  result,      \* how its promise settled
  served,      \* history: the requests a message was sent for
  pending,     \* this.pendingRequests: correlation id -> the entry's owner
  timer,       \* Off, or the age of the attempt's setTimeout
  listening,   \* attempts whose abort listener is registered
  aborted,     \* requests whose signal has fired
  chan,        \* broker: the state of each channel
  sentOn,      \* broker: the channel an attempt's message went through, or 0
  onChan,      \* the channel the initialize() of a request is waiting on, or 0
  channel,     \* this.channel, 0 for null
  isReady,     \* this.isReady
  hasTag,      \* this.consumerTag # null
  sweeping,    \* this.cleanupInterval # null
  closer       \* where close() is

callVars == << pc, attempt, result, served >>
tableVars == << pending, timer, listening, aborted >>
wireVars == << chan, sentOn, onChan >>
clientVars == << channel, isReady, hasTag, sweeping, closer >>
vars == << callVars, tableVars, wireVars, clientVars >>

(* Inside initialize(); "ready" is the return of initialize().             *)
Initializing == {"creating", "asserting", "consuming", "consumed"}
CallStates == {"idle", "ready", "waiting", "backoff", "done"} \cup Initializing
Results == {"none", "reply", "remoteError", "timeout", "aborted", "closing", "failed"}
ChannelStates == {"unused", "open", "replies", "closing", "closed"}

Init ==
  /\ pc = [r \in Requests |-> "idle"]
  /\ attempt = [r \in Requests |-> 1]
  /\ result = [r \in Requests |-> "none"]
  /\ served = {}
  /\ pending = [i \in Ids |-> None]
  /\ timer = [a \in Attempts |-> Off]
  /\ listening = {}
  /\ aborted = {}
  /\ chan = [n \in Channels |-> "unused"]
  /\ sentOn = [a \in Attempts |-> 0]
  /\ onChan = [r \in Requests |-> 0]
  /\ channel = 0
  /\ isReady = FALSE
  /\ hasTag = FALSE
  /\ sweeping = TRUE
  /\ closer = "open"

Current(r) == << r, attempt[r] >>
Armed(a) == timer[a] # Off
Entries == {i \in Ids : pending[i] # None}

-------------------------------------------------------------------------------
(* Settling promises *)

(***************************************************************************)
(* The promises of the attempts in S are rejected.  A promise settles      *)
(* once, so only the attempt its request is waiting on notices; the retry  *)
(* loop then decides: retry after a backoff, or throw.                     *)
(***************************************************************************)
Waiting(a) == pc[a[1]] = "waiting" /\ attempt[a[1]] = a[2]

(* Mutant: the outcome of an attempt that is retried is reported already.  *)
Reject_Early(S, how, retryable) ==
  LET hit(r) == pc[r] = "waiting" /\ Current(r) \in S
      again(r) == retryable /\ attempt[r] < MaxAttempts
  IN /\ pc' = [r \in Requests |->
                 IF ~hit(r) THEN pc[r] ELSE IF again(r) THEN "backoff" ELSE "done"]
     /\ result' = [r \in Requests |-> IF hit(r) THEN how ELSE result[r]]

Reject(S, how, retryable) ==
  LET hit(r) == pc[r] = "waiting" /\ Current(r) \in S
      again(r) == retryable /\ attempt[r] < MaxAttempts
  IN /\ pc' = [r \in Requests |->
                 IF ~hit(r) THEN pc[r] ELSE IF again(r) THEN "backoff" ELSE "done"]
     /\ result' = [r \in Requests |->
                     IF hit(r) /\ ~again(r) THEN how ELSE result[r]]

(* clearTimeout of the timers of S *)
Disarm(S) == timer' = [a \in Attempts |-> IF a \in S THEN Off ELSE timer[a]]

(* pendingRequests.delete for the ids in S *)
Delete(S) == pending' = [i \in Ids |-> IF i \in S THEN None ELSE pending[i]]

(* Mutant: the retry loop counts attempts one too far.                     *)
Throw_OffByOne(r, retryable) ==
  LET again == retryable /\ attempt[r] <= MaxAttempts
  IN /\ pc' = [pc EXCEPT ![r] = IF again THEN "backoff" ELSE "done"]
     /\ result' = [result EXCEPT ![r] = IF again THEN @ ELSE "failed"]

(* An attempt that never registered ends with an error.                    *)
Throw(r, retryable) ==
  LET again == retryable /\ attempt[r] < MaxAttempts
  IN /\ pc' = [pc EXCEPT ![r] = IF again THEN "backoff" ELSE "done"]
     /\ result' = [result EXCEPT ![r] = IF again THEN @ ELSE "failed"]

-------------------------------------------------------------------------------
(* send() and initialize() *)

(* The retry loop calls sendInternal(), which calls initialize(): a ready  *)
(* client returns at once, otherwise a connection and a channel are asked  *)
(* for.  Nothing tells a second caller that the first is already at it.    *)
Enter(r) ==
  pc' = [pc EXCEPT ![r] = IF isReady THEN "ready" ELSE "creating"]

Send(r) ==
  /\ pc[r] = "idle"
  /\ Enter(r)
  /\ UNCHANGED << attempt, result, served, tableVars, wireVars, clientVars >>

Retry(r) ==
  /\ pc[r] = "backoff"
  /\ attempt' = [attempt EXCEPT ![r] = @ + 1]
  /\ Enter(r)
  /\ UNCHANGED << result, served, tableVars, wireVars, clientVars >>

(* createConfirmChannel() resolved: this.channel is replaced, assertQueue  *)
(* is sent on it.                                                          *)
ChannelCreated(r) ==
  \E n \in Channels :
    /\ pc[r] = "creating"
    /\ chan[n] = "unused"
    /\ \A m \in 1..(n - 1) : chan[m] # "unused"
    /\ chan' = [chan EXCEPT ![n] = "open"]
    /\ channel' = n
    /\ onChan' = [onChan EXCEPT ![r] = n]
    /\ pc' = [pc EXCEPT ![r] = "asserting"]
    /\ UNCHANGED << attempt, result, served, tableVars, sentOn, isReady, hasTag,
                    sweeping, closer >>

(* assertQueue() resolved: consume() is sent on whatever this.channel is   *)
(* by now.                                                                 *)
QueueAsserted(r) ==
  /\ pc[r] = "asserting"
  /\ chan[onChan[r]] \in {"open", "replies"}
  /\ channel # 0
  /\ chan[channel] \in {"open", "replies"}
  /\ onChan' = [onChan EXCEPT ![r] = channel]
  /\ pc' = [pc EXCEPT ![r] = "consuming"]
  /\ UNCHANGED << attempt, result, served, tableVars, chan, sentOn, clientVars >>

(* The broker accepts the reply consumer of the channel.                   *)
ConsumeAccepted(r) ==
  /\ pc[r] = "consuming"
  /\ chan[onChan[r]] = "open"
  /\ chan' = [chan EXCEPT ![onChan[r]] = "replies"]
  /\ pc' = [pc EXCEPT ![r] = "consumed"]
  /\ UNCHANGED << attempt, result, served, tableVars, sentOn, onChan, clientVars >>

(* consume() resolved. *)
Initialized(r) ==
  /\ pc[r] = "consumed"
  /\ hasTag' = TRUE
  /\ isReady' = TRUE
  /\ pc' = [pc EXCEPT ![r] = "ready"]
  /\ onChan' = [onChan EXCEPT ![r] = 0]
  /\ UNCHANGED << attempt, result, served, tableVars, chan, sentOn, channel,
                  sweeping, closer >>

(* A channel dies: amqplib emits 'close' (and 'error'), and both handlers  *)
(* clear isReady, whichever channel this.channel is.  Replies to what it   *)
(* carried are lost.                                                       *)
ChannelDown(n) ==
  /\ chan' = [chan EXCEPT ![n] = "closed"]
  /\ sentOn' = [a \in Attempts |-> IF sentOn[a] = n THEN 0 ELSE sentOn[a]]
  /\ isReady' = FALSE

ChannelLost ==
  \E n \in Channels :
    /\ chan[n] \in {"open", "replies"}
    /\ ChannelDown(n)
    /\ UNCHANGED << callVars, tableVars, onChan, channel, hasTag, sweeping, closer >>

(* A second reply consumer on one channel is a channel error.              *)
ConsumeRefused(r) ==
  /\ pc[r] = "consuming"
  /\ chan[onChan[r]] = "replies"
  /\ ChannelDown(onChan[r])
  /\ Throw(r, FALSE)
  /\ onChan' = [onChan EXCEPT ![r] = 0]
  /\ UNCHANGED << attempt, served, tableVars, channel, hasTag, sweeping, closer >>

(* initialize() throws: no connection or channel, or its channel died, or  *)
(* close() took this.channel away.                                         *)
InitializeFails(r) ==
  /\ \/ pc[r] = "creating"
     \/ pc[r] = "asserting" /\ channel = 0
     \/ pc[r] = "asserting" /\ channel # 0 /\ chan[channel] \in {"closing", "closed"}
     \/ pc[r] \in {"asserting", "consuming"} /\ chan[onChan[r]] \in {"closing", "closed"}
  /\ \E retryable \in BOOLEAN : Throw(r, retryable)
  /\ onChan' = [onChan EXCEPT ![r] = 0]
  /\ UNCHANGED << attempt, served, tableVars, chan, sentOn, clientVars >>

(* initialize() returned, but the client is not ready any more: StateError *)
NotReady(r) ==
  /\ pc[r] = "ready"
  /\ channel = 0 \/ ~isReady
  /\ Throw(r, FALSE)
  /\ UNCHANGED << attempt, served, tableVars, wireVars, clientVars >>

CanTransmit(r) == pc[r] = "ready" /\ channel # 0 /\ isReady

Listen(r) ==
  listening' = IF r \in WithSignal /\ r \notin aborted
               THEN listening \cup {Current(r)} ELSE listening

(* Timer, entry, listener and message, in one synchronous step.  The entry *)
(* replaces one that has the same correlation id.                          *)
Transmit(r) ==
  /\ CanTransmit(r)
  /\ chan[channel] \in {"open", "replies"}
  /\ timer' = [timer EXCEPT ![Current(r)] = 0]
  /\ pending' = [pending EXCEPT ![IdOf(Current(r))] = Current(r)]
  /\ Listen(r)
  /\ sentOn' = [sentOn EXCEPT ![Current(r)] = channel]
  /\ served' = served \cup {r}
  /\ pc' = [pc EXCEPT ![r] = "waiting"]
  /\ UNCHANGED << attempt, result, aborted, chan, onChan, clientVars >>

(* The encoder or sendToQueue() throws after the entry was made: the catch *)
(* clears the new timer and deletes the entry of this correlation id.      *)
TransmitFails(r) ==
  /\ CanTransmit(r)
  /\ Delete({IdOf(Current(r))})
  /\ Listen(r)
  /\ Throw(r, FALSE)
  /\ UNCHANGED << attempt, served, timer, aborted, wireVars, clientVars >>

-------------------------------------------------------------------------------
(* What settles an attempt *)

(* handleReply(): the entry found loses its timer and is settled with the  *)
(* reply.  Any server that got the message may reply, at any time, any     *)
(* number of times.  A remoteError is an error response, whose text may    *)
(* name a network error and so be retried, or one that cannot be decoded.  *)
HandleReply(a, kind, retryable) ==
  LET i == IdOf(a)
      owner == pending[i]
  IN /\ sentOn[a] # 0
     /\ chan[sentOn[a]] = "replies"
     /\ owner # None
     /\ Disarm({owner})
     /\ Delete({i})
     /\ IF kind = "reply"
        THEN /\ pc' = IF Waiting(owner) THEN [pc EXCEPT ![owner[1]] = "done"] ELSE pc
             /\ result' = IF Waiting(owner) THEN [result EXCEPT ![owner[1]] = "reply"]
                                            ELSE result
        ELSE Reject({owner}, "remoteError", retryable)
     /\ UNCHANGED << attempt, served, listening, aborted, wireVars, clientVars >>

(* Mutant: the timeout leaves the entry to the cleanup.                    *)
TimerFires_KeepsEntry(a) ==
  /\ Armed(a)
  /\ timer[a] >= TimeoutOf[a[1]]
  /\ Disarm({a})
  /\ Reject({a}, "timeout", TRUE)
  /\ UNCHANGED << attempt, served, pending, listening, aborted, wireVars,
                  clientVars >>

(* The setTimeout of an attempt: delete by id, reject its own promise.     *)
TimerFires(a) ==
  /\ Armed(a)
  /\ timer[a] >= TimeoutOf[a[1]]
  /\ Disarm({a})
  /\ Delete({IdOf(a)})
  /\ Reject({a}, "timeout", TRUE)
  /\ UNCHANGED << attempt, served, listening, aborted, wireVars, clientVars >>

(***************************************************************************)
(* The signal of r fires: its listeners run in the order of its attempts.  *)
(* A listener acts if there is an entry under its id, so of the attempts   *)
(* that share an id the first acts: it stops the timer of the entry's      *)
(* owner, deletes the entry, and rejects its own promise.                  *)
(***************************************************************************)
FirstWithEntry(S) ==
  {a \in S : /\ pending[IdOf(a)] # None
             /\ \A b \in S : IdOf(b) = IdOf(a) => a[2] <= b[2]}

(* Mutant: the listener does not stop the timer. *)
Abort_KeepsTimer(r) ==
  LET acting == FirstWithEntry({a \in listening : a[1] = r})
  IN /\ pc[r] # "idle"
     /\ r \in WithSignal \ aborted
     /\ aborted' = aborted \cup {r}
     /\ Delete({IdOf(a) : a \in acting})
     /\ Reject(acting, "aborted", FALSE)
     /\ UNCHANGED << attempt, served, timer, listening, wireVars, clientVars >>

Abort(r) ==
  LET acting == FirstWithEntry({a \in listening : a[1] = r})
  IN /\ pc[r] # "idle"
     /\ r \in WithSignal \ aborted
     /\ aborted' = aborted \cup {r}
     /\ Disarm({pending[IdOf(a)] : a \in acting})
     /\ Delete({IdOf(a) : a \in acting})
     /\ Reject(acting, "aborted", FALSE)
     /\ UNCHANGED << attempt, served, listening, wireVars, clientVars >>

(* cleanupExpiredRequests(): every entry older than twice config.timeout.  *)
Expired == {i \in Entries : timer[pending[i]] > 2 * DefaultTimeout}

(* Mutant: the cleanup frees the entries but rejects nobody. *)
Cleanup_Silent ==
  /\ sweeping
  /\ Expired # {}
  /\ Disarm({pending[i] : i \in Expired})
  /\ Delete(Expired)
  /\ UNCHANGED << callVars, listening, aborted, wireVars, clientVars >>

Cleanup ==
  LET owners == {pending[i] : i \in Expired}
  IN /\ sweeping
     /\ Expired # {}
     /\ Disarm(owners)
     /\ Delete(Expired)
     /\ Reject(owners, "timeout", TRUE)
     /\ UNCHANGED << attempt, served, listening, aborted, wireVars, clientVars >>

(* Time passes for every armed timer.  The event loop may be late.         *)
Tick ==
  /\ \E a \in Attempts : Armed(a) /\ timer[a] < AgeCap
  /\ timer' = [a \in Attempts |->
                 IF Armed(a) /\ timer[a] < AgeCap THEN timer[a] + 1 ELSE timer[a]]
  /\ UNCHANGED << callVars, pending, listening, aborted, wireVars, clientVars >>

-------------------------------------------------------------------------------
(* close() *)

(* Up to the await on channel.cancel(), if there is a consumer to cancel.  *)
Close ==
  /\ closer = "open"
  /\ sweeping' = FALSE
  /\ closer' = IF hasTag /\ channel # 0 THEN "cancelling" ELSE "rejecting"
  /\ UNCHANGED << callVars, tableVars, wireVars, channel, isReady, hasTag >>

(* The broker stops the consumer. *)
Cancelled ==
  /\ closer = "cancelling"
  /\ closer' = "rejecting"
  /\ chan' = [n \in Channels |-> IF n = channel /\ chan[n] = "replies"
                                 THEN "open" ELSE chan[n]]
  /\ UNCHANGED << callVars, tableVars, sentOn, onChan, channel, isReady, hasTag,
                  sweeping >>

(* Every entry is rejected and the map cleared; then channel.close() is    *)
(* sent, after which the channel refuses to send.                          *)
RejectAll ==
  LET owners == {pending[i] : i \in Entries}
  IN /\ closer = "rejecting"
     /\ closer' = "closing"
     /\ Disarm(owners)
     /\ Delete(Entries)
     /\ Reject(owners, "closing", FALSE)
     /\ chan' = [n \in Channels |-> IF n = channel /\ chan[n] # "closed"
                                    THEN "closing" ELSE chan[n]]
     /\ UNCHANGED << attempt, served, listening, aborted, sentOn, onChan, channel,
                     isReady, hasTag, sweeping >>

(* channel.close() resolved (at once when there is no channel).            *)
Closed ==
  /\ closer = "closing"
  /\ closer' = "closed"
  /\ chan' = [n \in Channels |-> IF chan[n] = "closing" THEN "closed" ELSE chan[n]]
  /\ sentOn' = [a \in Attempts |->
                  IF sentOn[a] # 0 /\ chan[sentOn[a]] = "closing" THEN 0 ELSE sentOn[a]]
  /\ channel' = 0
  /\ isReady' = FALSE
  /\ UNCHANGED << callVars, tableVars, onChan, hasTag, sweeping >>

-------------------------------------------------------------------------------
Initialize(r) ==
  \/ ChannelCreated(r) \/ QueueAsserted(r) \/ ConsumeAccepted(r) \/ ConsumeRefused(r)
  \/ Initialized(r) \/ InitializeFails(r)

Register(r) == Transmit(r) \/ TransmitFails(r) \/ NotReady(r)

Reply(a) ==
  \/ HandleReply(a, "reply", FALSE)
  \/ \E retryable \in BOOLEAN : HandleReply(a, "remoteError", retryable)

Next ==
  \/ \E r \in Requests : Send(r) \/ Retry(r) \/ Initialize(r) \/ Register(r) \/ Abort(r)
  \/ \E a \in Attempts : Reply(a) \/ TimerFires(a)
  \/ Cleanup \/ Tick \/ ChannelLost
  \/ Close \/ Cancelled \/ RejectAll \/ Closed

Spec == Init /\ [][Next]_vars

(***************************************************************************)
(* The event loop runs what is due, and what the broker was asked it       *)
(* answers or fails.  Nothing obliges a server to reply, a signal to fire, *)
(* a channel to die or the application to close the client.                *)
(***************************************************************************)
Fairness ==
  /\ \A r \in Requests :
       /\ WF_vars(Retry(r) \/ Initialize(r) \/ Register(r))
       /\ WF_vars(\E k \in 1..MaxAttempts : TimerFires(<< r, k >>))
  /\ WF_vars(Tick)
  /\ WF_vars(Cancelled \/ RejectAll \/ Closed)

FairSpec == Spec /\ Fairness

-------------------------------------------------------------------------------
(* Properties *)

CallTypes ==
  /\ pc \in [Requests -> CallStates]
  /\ attempt \in [Requests -> 1..MaxAttempts]
  /\ result \in [Requests -> Results]
  /\ served \subseteq Requests

TableTypes ==
  /\ pending \in [Ids -> Attempts \cup {None}]
  /\ timer \in [Attempts -> {Off} \cup 0..AgeCap]
  /\ listening \subseteq Attempts
  /\ aborted \subseteq WithSignal

WireTypes ==
  /\ chan \in [Channels -> ChannelStates]
  /\ sentOn \in [Attempts -> {0} \cup Channels]
  /\ onChan \in [Requests -> {0} \cup Channels]

ClientTypes ==
  /\ channel \in {0} \cup Channels
  /\ isReady \in BOOLEAN
  /\ hasTag \in BOOLEAN
  /\ sweeping \in BOOLEAN
  /\ closer \in {"open", "cancelling", "rejecting", "closing", "closed"}

TypeOK == CallTypes /\ TableTypes /\ WireTypes /\ ClientTypes

(* An entry of pendingRequests always stands for a promise that is not     *)
(* settled, is filed under its own id, and has its timer running: whatever *)
(* settled an attempt (reply, timeout, abort, cleanup, close, a throwing   *)
(* send) left no entry that a later reply could resolve twice, and no      *)
(* entry waits without a timeout.                                          *)
EntriesAreLive ==
  \A i \in Entries : Waiting(pending[i]) /\ IdOf(pending[i]) = i /\ Armed(pending[i])

(* An attempt that waits has its timer running, so that send() ends as     *)
(* documented ("@throws {TimeoutError} When request times out", line 224)  *)
(* even if no reply comes.                                                 *)
NoCallOrphaned == \A r \in Requests : pc[r] = "waiting" => Armed(Current(r))

(* No timer outlives its attempt: one that did would fire later, delete    *)
(* another attempt's entry under the same correlation id, and keep the     *)
(* process alive.                                                          *)
NoStrayTimer == \A a \in Attempts : Armed(a) => Waiting(a)

(* send() keeps its contract: every call settles, exactly once, and with a *)
(* reply only if a message for it was sent.                                *)
Contract ==
  INSTANCE RpcCall WITH
    called <- {r \in Requests : pc[r] # "idle"},
    outcome <- result,
    Errors <- Results \ {"none", "reply"}

KeepsContract == Contract!FairSpec
=============================================================================
