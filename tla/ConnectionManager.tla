--------------------------- MODULE ConnectionManager ---------------------------
(***************************************************************************)
(* The connection manager of src/core/connection/ConnectionManager.ts with *)
(* the circuit breaker and the retry policy it connects through.           *)
(*                                                                         *)
(* Concurrent getConnection() calls either take the connection held, wait  *)
(* for the attempt in progress ('connected' / 'error' of the manager), or  *)
(* connect.  isConnecting is meant to let one call connect at a time; it   *)
(* is cleared by every failed ATTEMPT, while the call it belongs to sleeps *)
(* and tries again.                                                        *)
(*                                                                         *)
(* Each call of getConnection() opens at most one connection, so           *)
(* connections are named by the call that opened them.  The application is *)
(* assumed to listen for 'error' (without a listener the emit of line 244  *)
(* throws inside amqplib).                                                 *)
(***************************************************************************)
EXTENDS Integers, FiniteSets

CONSTANTS
  Callers,           \* getConnection() calls, and the connections they open
  None,              \* null
  MaxAttempts,       \* config.retry.maxAttempts
  FailureThreshold, HalfOpenMax, ResetTimeout, CountCap   \* the breaker's

ASSUME ManagerAssumption ==
  /\ None \notin Callers
  /\ MaxAttempts \in Nat \ {0}

VARIABLES
  policy,            \* "off": retry.enabled is false, no RetryPolicy is made;
                     \* "default": the default patterns, which the message
                     \* "Failed to connect to RabbitMQ" matches none of;
                     \* "custom": patterns that match it
  connection,        \* this.connection
  isConnecting,      \* this.isConnecting
  isClosed,          \* this.isClosed
  listeners,         \* calls whose 'connected' / 'error' handlers are attached
  pc,                \* where each getConnection() call is
  attempt,           \* RetryPolicy.execute: attempts that failed, per call
  conn,              \* each connection, as the broker and amqplib see it
  \* the breaker
  state, failureCount, halfOpenAttempts, sinceFailure, call, serviceUp,
  failureStreak

managerVars == << policy, connection, isConnecting, isClosed, listeners, pc,
                  attempt, conn >>
breakerVars == << state, failureCount, halfOpenAttempts, sinceFailure, call,
                  serviceUp, failureStreak >>
vars == << managerVars, breakerVars >>

(* execute() runs once per connection attempt, at most one per caller.     *)
Breaker == INSTANCE CircuitBreaker WITH Calls <- Callers

PCs == {"idle", "dialing", "failing", "backoff", "waiting", "served", "failed"}
Settled == {"served", "failed"}
Dialing == {c \in Callers : pc[c] = "dialing"}
Live == {k \in Callers : conn[k] = "live"}

Init ==
  /\ policy \in {"off", "default", "custom"}
  /\ connection = None
  /\ isConnecting = FALSE
  /\ isClosed = FALSE
  /\ listeners = {}
  /\ pc = [c \in Callers |-> "idle"]
  /\ attempt = [c \in Callers |-> 0]
  /\ conn = [k \in Callers |-> "down"]
  /\ Breaker!Init

(* emit(): the once-handlers of every waiting call run, and detach.        *)
Wake(outcome, f) == [c \in Callers |-> IF c \in listeners THEN outcome ELSE f[c]]

-------------------------------------------------------------------------------
(* getConnection() *)

(* CircuitBreaker.execute throws at once. *)
BreakerRefuses ==
  \/ state = "OPEN" /\ sinceFailure < ResetTimeout
  \/ state = "HALF_OPEN" /\ ~Breaker!HalfOpenHasRoom

(* connectInternal() up to its await: amqp.connect runs if the breaker     *)
(* admits it.  A call refused is "dialing" with nothing to wait for.       *)
Dial(c) ==
  /\ pc' = [pc EXCEPT ![c] = "dialing"]
  /\ Breaker!Execute(c) \/ (BreakerRefuses /\ UNCHANGED breakerVars)

Refuse(c) ==
  /\ isClosed
  /\ pc' = [pc EXCEPT ![c] = "failed"]
  /\ UNCHANGED << listeners, isConnecting, breakerVars >>

TakeHeld(c) ==
  /\ ~isClosed
  /\ connection # None
  /\ ~isConnecting
  /\ pc' = [pc EXCEPT ![c] = "served"]
  /\ UNCHANGED << listeners, isConnecting, breakerVars >>

Wait(c) ==
  /\ ~isClosed
  /\ isConnecting
  /\ listeners' = listeners \cup {c}
  /\ pc' = [pc EXCEPT ![c] = "waiting"]
  /\ UNCHANGED << isConnecting, breakerVars >>

(* Mutant: isConnecting is set only once the connection is there.          *)
Connect_Unguarded(c) ==
  /\ ~isClosed
  /\ connection = None
  /\ ~isConnecting
  /\ Dial(c)
  /\ UNCHANGED << listeners, isConnecting >>

Connect(c) ==
  /\ ~isClosed
  /\ connection = None
  /\ ~isConnecting
  /\ isConnecting' = TRUE
  /\ Dial(c)
  /\ UNCHANGED listeners

GetConnection(c) ==
  /\ pc[c] = "idle"
  /\ Refuse(c) \/ TakeHeld(c) \/ Wait(c) \/ Connect(c)
  /\ UNCHANGED << policy, connection, isClosed, attempt, conn >>

-------------------------------------------------------------------------------
(* connectInternal(), after its await *)

(* The connection is adopted whatever happened meanwhile: neither isClosed *)
(* nor a connection already held is looked at again.                       *)
Connected(c) ==
  /\ pc[c] = "dialing"
  /\ Breaker!Succeed(c)
  /\ connection' = c
  /\ conn' = [conn EXCEPT ![c] = "live"]
  /\ isConnecting' = FALSE
  /\ pc' = Wake("served", [pc EXCEPT ![c] = "served"])
  /\ listeners' = {}
  /\ UNCHANGED << policy, isClosed, attempt >>

(* Mutant: a failure in HALF_OPEN, or of a retry, is not reported: the     *)
(* attempt is given up from outside of execute().                          *)
Reports_NotRetries(c) ==
  \/ state = "CLOSED" /\ attempt[c] = 0 /\ Breaker!Fail(c)
  \/ (state # "CLOSED" \/ attempt[c] > 0) /\ UNCHANGED breakerVars

Reports(c) ==
  \/ Breaker!Fail(c)
  \/ call[c] = Breaker!Idle /\ UNCHANGED breakerVars

(* Mutant: emit('error') is missing: nobody wakes those who wait. *)
AttemptFails_Silent(c) ==
  /\ pc[c] = "dialing"
  /\ Reports(c)
  /\ isConnecting' = FALSE
  /\ pc' = [pc EXCEPT ![c] = "failing"]
  /\ attempt' = [attempt EXCEPT ![c] = @ + 1]
  /\ UNCHANGED << policy, connection, isClosed, listeners, conn >>

(* Mutant: the failed attempt leaves isConnecting set. *)
AttemptFails_StillConnecting(c) ==
  /\ pc[c] = "dialing"
  /\ Reports(c)
  /\ pc' = Wake("failed", [pc EXCEPT ![c] = "failing"])
  /\ listeners' = {}
  /\ attempt' = [attempt EXCEPT ![c] = @ + 1]
  /\ UNCHANGED << policy, connection, isConnecting, isClosed, conn >>

AttemptFails(c) ==
  /\ pc[c] = "dialing"
  /\ Reports(c)
  /\ isConnecting' = FALSE
  /\ pc' = Wake("failed", [pc EXCEPT ![c] = "failing"])
  /\ listeners' = {}
  /\ attempt' = [attempt EXCEPT ![c] = @ + 1]
  /\ UNCHANGED << policy, connection, isClosed, conn >>

(* Mutant: one attempt more than maxAttempts. *)
ShouldRetry_OffByOne(c) == policy = "custom" /\ attempt[c] <= MaxAttempts
ShouldRetry(c) == policy = "custom" /\ attempt[c] < MaxAttempts

(* The rejection reaches RetryPolicy.execute and connect() some microtasks *)
(* after the waiters were rejected: a step of its own.  connect()'s catch  *)
(* clears isConnecting whoever set it since.                               *)
GiveUp(c) ==
  /\ pc[c] = "failing"
  /\ ~ShouldRetry(c)
  /\ pc' = [pc EXCEPT ![c] = "failed"]
  /\ isConnecting' = IF policy = "off" THEN isConnecting ELSE FALSE
  /\ UNCHANGED << policy, connection, isClosed, listeners, attempt, conn, breakerVars >>

Sleep(c) ==
  /\ pc[c] = "failing"
  /\ ShouldRetry(c)
  /\ pc' = [pc EXCEPT ![c] = "backoff"]
  /\ UNCHANGED << policy, connection, isConnecting, isClosed, listeners, attempt,
                  conn, breakerVars >>

(* The sleep ends: connectInternal() again, with isConnecting as it is.    *)
Redial(c) ==
  /\ pc[c] = "backoff"
  /\ Dial(c)
  /\ UNCHANGED << policy, connection, isConnecting, isClosed, listeners, attempt, conn >>

-------------------------------------------------------------------------------
(* Connection events, close() and resetCircuitBreaker() *)

(* Mutant: the handler of 'close' leaves this.connection alone. *)
OnClose_Keeps(k) == UNCHANGED connection
OnClose(k) == connection' = None

(* A connection is lost, or its close() completes.  An 'error' event may   *)
(* come first and rejects whoever waits, whichever connection it is for    *)
(* ("Unexpected close" is swallowed); then 'close'; then, if close() is    *)
(* waiting for this connection, its removeAllListeners.                    *)
ConnectionEnds(k) ==
  /\ conn[k] # "down"
  /\ conn' = [conn EXCEPT ![k] = "down"]
  /\ OnClose(k)
  /\ \E error \in BOOLEAN :
       /\ pc' = IF error THEN Wake("failed", pc) ELSE pc
       /\ listeners' = IF error \/ conn[k] = "closing" THEN {} ELSE listeners
  /\ UNCHANGED << policy, isConnecting, isClosed, attempt, breakerVars >>

(* close() with a connection to close first. *)
CloseHeld ==
  /\ connection # None
  /\ conn[connection] = "live"
  /\ conn' = [conn EXCEPT ![connection] = "closing"]
  /\ UNCHANGED << connection, listeners >>

(* close() with none, or with one that is closing (its close() throws and  *)
(* is caught).                                                             *)
CloseNow ==
  /\ connection # None => conn[connection] # "live"
  /\ connection' = None
  /\ listeners' = {}
  /\ UNCHANGED conn

Close ==
  /\ isClosed' = TRUE
  /\ CloseHeld \/ CloseNow
  /\ UNCHANGED << policy, isConnecting, pc, attempt, breakerVars >>

ResetCircuitBreaker ==
  /\ Breaker!ForceReset
  /\ UNCHANGED managerVars

(* The clock, and the broker going down and coming back. *)
Environment ==
  /\ Breaker!Tick \/ Breaker!ServiceChanges
  /\ UNCHANGED managerVars

Next ==
  \/ \E c \in Callers :
       \/ GetConnection(c)
       \/ Connected(c)
       \/ AttemptFails(c)
       \/ GiveUp(c)
       \/ Sleep(c)
       \/ Redial(c)
       \/ ConnectionEnds(c)
  \/ Close
  \/ ResetCircuitBreaker
  \/ Environment

Spec == Init /\ [][Next]_vars

(***************************************************************************)
(* amqp.connect settles (its socket connects or errors), promises run on,  *)
(* the sleep of a retry ends.  Nothing obliges a connection to end or      *)
(* anyone to call.                                                         *)
(***************************************************************************)
Progress(c) ==
  Connected(c) \/ AttemptFails(c) \/ GiveUp(c) \/ Sleep(c) \/ Redial(c)

Fairness == \A c \in Callers : WF_vars(Progress(c))

FairSpec == Spec /\ Fairness

-------------------------------------------------------------------------------
(* Properties *)

TypeOK ==
  /\ policy \in {"off", "default", "custom"}
  /\ connection \in Callers \cup {None}
  /\ isConnecting \in BOOLEAN
  /\ isClosed \in BOOLEAN
  /\ listeners \subseteq Callers
  /\ pc \in [Callers -> PCs]
  /\ attempt \in [Callers -> 0..MaxAttempts]
  /\ conn \in [Callers -> {"down", "live", "closing"}]

(* A call that waits (line 130) has its handlers attached, and an attempt  *)
(* is in progress whose end will run them; only close(), which detaches    *)
(* every handler, can leave it waiting for nothing.                        *)
WaitersWillWake ==
  \A c \in Callers :
    pc[c] = "waiting" => (c \in listeners /\ Dialing # {}) \/ isClosed

(* The connection getConnection() hands out on its fast path (line 125) is *)
(* one that is up, although the 'close' of any older connection clears it. *)
HeldIsUp == connection # None => conn[connection] # "down"

(* Without a retry policy isConnecting does its work: one attempt at a     *)
(* time, and no connection is open that the manager does not hold.  (With  *)
(* one it does not: see OneConnection.)                                    *)
SingleFlight ==
  policy = "off" => Cardinality(Dialing) <= 1 /\ Live \subseteq {connection}

(* README.md:13 "Single connection shared across all components".          *)
OneConnection == Cardinality(Live) <= 1

(* The breaker turns getConnection() away in HALF_OPEN only while an       *)
(* attempt it admitted really dials and will report to it (lines 199-201   *)
(* wrap the whole of amqp.connect): no retry, wake-up, close() or forced reset  *)
(* leaves behind a call counted as a probe that has already given up, with *)
(* which the manager could never connect again.                            *)
RefusedWhileProbing ==
  /\ \A c \in Callers : call[c] # Breaker!Idle => pc[c] = "dialing"
  /\ state = "HALF_OPEN" /\ ~Breaker!HalfOpenHasRoom =>
       \E c \in Dialing : call[c] = "probe"

(* Every getConnection() call settles, unless the manager is closed.       *)
CallsSettle ==
  <>isClosed \/ \A c \in Callers : pc[c] # "idle" ~> pc[c] \in Settled
=============================================================================
