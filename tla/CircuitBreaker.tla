---------------------------- MODULE CircuitBreaker ----------------------------
(***************************************************************************)
(* The circuit breaker of src/core/resilience/CircuitBreaker.ts.           *)
(*                                                                         *)
(* execute() admits or refuses a call against the state it finds, then     *)
(* awaits the protected function; onSuccess / onFailure run later, against *)
(* the state they find THEN.  Any number of calls overlap, so a call       *)
(* admitted while CLOSED may complete while the breaker is OPEN or         *)
(* HALF_OPEN: a stale completion.  Everything between two awaits is one    *)
(* action, as the event loop makes it.                                     *)
(*                                                                         *)
(* Only the time since the last failure matters to the code; it is kept    *)
(* instead of two dates, and saturates at ResetTimeout.                    *)
(***************************************************************************)
EXTENDS Integers, FiniteSets

CONSTANTS
  Calls,             \* execute() invocations that may be in progress at once
  FailureThreshold,  \* config.failureThreshold
  HalfOpenMax,       \* config.halfOpenMaxAttempts
  ResetTimeout,      \* config.resetTimeout, in clock ticks
  CountCap           \* bound: failureCount and failureStreak stop growing here

ASSUME BreakerAssumption ==
  /\ IsFiniteSet(Calls)
  /\ FailureThreshold \in Nat \ {0}
  /\ HalfOpenMax \in Nat \ {0}
  /\ ResetTimeout \in Nat
  /\ CountCap \in Nat
  /\ CountCap >= FailureThreshold

VARIABLES
  state,             \* this.state
  failureCount,      \* this.failureCount
  halfOpenAttempts,  \* this.halfOpenAttempts
  sinceFailure,      \* min(Date.now() - (this.lastFailureTime || 0), ResetTimeout)
  call,              \* where each call is, and what it was admitted as
  serviceUp,         \* environment: whether the protected function succeeds
  failureStreak      \* history: failures since the last success or reset

vars == << state, failureCount, halfOpenAttempts, sinceFailure, call, serviceUp,
           failureStreak >>

(***************************************************************************)
(* "normal": admitted while CLOSED.  "probe": admitted by the half-open    *)
(* episode in progress.  "oldProbe": admitted by an earlier one.           *)
(***************************************************************************)
Idle == "idle"
CallStates == {Idle, "normal", "probe", "oldProbe"}
Running == {c \in Calls : call[c] # Idle}
Probes == {c \in Calls : call[c] = "probe"}

Bump(n) == IF n < CountCap THEN n + 1 ELSE n

Init ==
  /\ state = "CLOSED"
  /\ failureCount = 0
  /\ halfOpenAttempts = 0
  /\ sinceFailure = ResetTimeout     \* lastFailureTime = null reads as time 0
  /\ call = [c \in Calls |-> Idle]
  /\ serviceUp \in BOOLEAN
  /\ failureStreak = 0

(* The half-open episode ends: its probes still running are now old ones.  *)
EndEpisode(f) == [c \in Calls |-> IF f[c] = "probe" THEN "oldProbe" ELSE f[c]]

-------------------------------------------------------------------------------
(* execute(), up to its await *)

(* Mutant: >= became > in the half-open limit. *)
HalfOpenHasRoom_OffByOne == halfOpenAttempts <= HalfOpenMax
HalfOpenHasRoom == halfOpenAttempts < HalfOpenMax

(* CLOSED: the call runs. *)
AdmitNormal(c) ==
  /\ state = "CLOSED"
  /\ call' = [call EXCEPT ![c] = "normal"]
  /\ UNCHANGED << state, halfOpenAttempts >>

(* OPEN and the reset timeout is over: transitionTo('HALF_OPEN'), the      *)
(* attempts restart at 0 and this call takes the first of them.            *)
AdmitFirstProbe(c) ==
  /\ state = "OPEN"
  /\ sinceFailure >= ResetTimeout
  /\ state' = "HALF_OPEN"
  /\ halfOpenAttempts' = 1
  /\ call' = [call EXCEPT ![c] = "probe"]

(* HALF_OPEN with attempts left. *)
AdmitProbe(c) ==
  /\ state = "HALF_OPEN"
  /\ HalfOpenHasRoom
  /\ halfOpenAttempts' = halfOpenAttempts + 1
  /\ call' = [call EXCEPT ![c] = "probe"]
  /\ UNCHANGED state

(* A refused call (OPEN too early, HALF_OPEN full) throws and changes      *)
(* nothing: it is a stuttering step.                                       *)
Execute(c) ==
  /\ call[c] = Idle
  /\ AdmitNormal(c) \/ AdmitFirstProbe(c) \/ AdmitProbe(c)
  /\ UNCHANGED << failureCount, sinceFailure, serviceUp, failureStreak >>

-------------------------------------------------------------------------------
(* reset(), in the state the call c left by completing *)
Reset(f) ==
  /\ state' = "CLOSED"
  /\ failureCount' = 0
  /\ halfOpenAttempts' = 0
  /\ call' = EndEpisode(f)

Done(c) == [call EXCEPT ![c] = Idle]

(* Mutant: a success while CLOSED forgets to clear the failures before it. *)
OnSuccess_KeepsCount(c) ==
  IF state = "HALF_OPEN" /\ halfOpenAttempts >= HalfOpenMax
  THEN Reset(Done(c))
  ELSE call' = Done(c) /\ UNCHANGED << state, failureCount, halfOpenAttempts >>

(* Mutant: > for >= in the test that closes the circuit.                   *)
OnSuccess_Strict(c) ==
  /\ call' = Done(c)
  /\ failureCount' = IF state = "CLOSED" THEN 0 ELSE failureCount
  /\ UNCHANGED << state, halfOpenAttempts >>

OnSuccess(c) ==
  \/ /\ state = "HALF_OPEN"
     /\ ~HalfOpenHasRoom
     /\ Reset(Done(c))
  \/ /\ state = "CLOSED"
     /\ failureCount' = 0
     /\ call' = Done(c)
     /\ UNCHANGED << state, halfOpenAttempts >>
  \/ /\ state = "OPEN" \/ (state = "HALF_OPEN" /\ HalfOpenHasRoom)
     /\ call' = Done(c)
     /\ UNCHANGED << state, failureCount, halfOpenAttempts >>

(* Any failure while HALF_OPEN reopens the circuit. *)
Reopens(c) ==
  /\ state = "HALF_OPEN"
  /\ state' = "OPEN"
  /\ halfOpenAttempts' = 0
  /\ call' = EndEpisode(Done(c))

(* Mutant: the threshold test became strict. *)
ReachesThreshold_Strict == failureCount' > FailureThreshold
ReachesThreshold == failureCount' >= FailureThreshold

OnFailure(c) ==
  /\ failureCount' = Bump(failureCount)
  /\ \/ Reopens(c)
     \/ /\ state = "CLOSED"
        /\ state' = IF ReachesThreshold THEN "OPEN" ELSE "CLOSED"
        /\ call' = Done(c)
        /\ UNCHANGED halfOpenAttempts
     \/ /\ state = "OPEN"          \* a stale failure only moves the clock
        /\ call' = Done(c)
        /\ UNCHANGED << state, halfOpenAttempts >>

Succeed(c) ==
  /\ call[c] # Idle
  /\ serviceUp
  /\ OnSuccess(c)
  /\ failureStreak' = 0
  /\ UNCHANGED << sinceFailure, serviceUp >>

Fail(c) ==
  /\ call[c] # Idle
  /\ ~serviceUp
  /\ OnFailure(c)
  /\ sinceFailure' = 0
  /\ failureStreak' = Bump(failureStreak)
  /\ UNCHANGED serviceUp

-------------------------------------------------------------------------------
(* forceReset(), the clock, and the protected service *)

ForceReset ==
  /\ Reset(call)
  /\ failureStreak' = 0
  /\ UNCHANGED << sinceFailure, serviceUp >>

Tick ==
  /\ sinceFailure < ResetTimeout
  /\ sinceFailure' = sinceFailure + 1
  /\ UNCHANGED << state, failureCount, halfOpenAttempts, call, serviceUp,
                  failureStreak >>

ServiceChanges ==
  /\ serviceUp' = ~serviceUp
  /\ UNCHANGED << state, failureCount, halfOpenAttempts, sinceFailure, call,
                  failureStreak >>

Next ==
  \/ \E c \in Calls : Execute(c) \/ Succeed(c) \/ Fail(c)
  \/ ForceReset
  \/ Tick
  \/ ServiceChanges

Spec == Init /\ [][Next]_vars

(***************************************************************************)
(* Callers keep calling, a call that runs ends, and time passes.  Nothing  *)
(* obliges anyone to call forceReset().                                    *)
(***************************************************************************)
Fairness ==
  /\ WF_vars(Tick)
  /\ \A c \in Calls : WF_vars(Execute(c)) /\ WF_vars(Succeed(c) \/ Fail(c))

FairSpec == Spec /\ Fairness

-------------------------------------------------------------------------------
(* Properties *)

TypeOK ==
  /\ state \in {"CLOSED", "OPEN", "HALF_OPEN"}
  /\ failureCount \in 0..CountCap
  /\ halfOpenAttempts \in 0..HalfOpenMax
  /\ sinceFailure \in 0..ResetTimeout
  /\ call \in [Calls -> CallStates]
  /\ serviceUp \in BOOLEAN
  /\ failureStreak \in 0..CountCap

(* The circuit is CLOSED exactly while fewer than failureThreshold         *)
(* failures are recorded, whatever stale completions arrived meanwhile:    *)
(* onFailure (lines 178-208) tests the threshold only when it finds the    *)
(* breaker CLOSED, and must not be able to miss it.                        *)
ClosedIffBelowThreshold ==
  (state = "CLOSED") <=> (failureCount < FailureThreshold)

(* A half-open episode never has more than halfOpenMaxAttempts of its own  *)
(* probes in progress (line 125), and no probe outlives its episode as     *)
(* one: outside HALF_OPEN nothing still counts as a probe.                 *)
ProbeBudget ==
  /\ Cardinality(Probes) <= halfOpenAttempts
  /\ halfOpenAttempts <= HalfOpenMax
  /\ state # "HALF_OPEN" => halfOpenAttempts = 0

(* When HALF_OPEN refuses every further call (line 125), a probe is still  *)
(* running whose completion will close or reopen the circuit: the breaker  *)
(* can never be left refusing everything with nobody to decide.            *)
HalfOpenNeverStuck ==
  state = "HALF_OPEN" /\ halfOpenAttempts = HalfOpenMax => Probes # {}

(* "Number of consecutive failures before opening the circuit" (line 10):  *)
(* a CLOSED circuit opens only on failureThreshold failures with no        *)
(* success between them, although calls overlap.                           *)
OpensOnConsecutiveFailures ==
  [][state = "CLOSED" /\ state' = "OPEN" => failureStreak' >= FailureThreshold]_vars

(* If the protected service stays up, and callers keep calling, the        *)
(* circuit eventually stays CLOSED: no mix of stale and probing calls can  *)
(* keep it OPEN or HALF_OPEN for ever.                                     *)
Recovers == <>[]serviceUp => <>[](state = "CLOSED")
=============================================================================
