---------------------- MODULE ConsumerReconnectionManager ----------------------
(***************************************************************************)
(* The consumer reconnection manager of                                    *)
(* src/core/connection/ConsumerReconnectionManager.ts: one timer, a count  *)
(* of attempts, and the callbacks the timer started that are still in      *)
(* progress.  Its users are RpcServer and Subscriber, which compose it     *)
(* with their own state; the delays are abstracted to "later", and         *)
(* isReconnecting, which only its getter reads, is left out.               *)
(*                                                                         *)
(* scheduleReconnect() is refused only while a timer is set.  While a      *)
(* callback runs none is, so a second one can be scheduled and run beside  *)
(* the first.                                                              *)
(***************************************************************************)
EXTENDS Integers, FiniteSets

CONSTANTS
  Callbacks,             \* reconnectCallback() runs that may be in progress
  MaxReconnectAttempts   \* config.maxReconnectAttempts

VARIABLES
  reconnectAttempts,     \* this.reconnectAttempts, stopped at the first refused
  reconnectTimer,        \* this.reconnectTimer # null
  running                \* the callbacks in progress

vars == << reconnectAttempts, reconnectTimer, running >>

Init ==
  /\ reconnectAttempts = 0
  /\ reconnectTimer = FALSE
  /\ running = {}

(* Every call counts, those after the last attempt too; the model stops    *)
(* counting there, where nothing reads the number any more.                *)
NextAttempt ==
  IF reconnectAttempts > MaxReconnectAttempts
  THEN reconnectAttempts
  ELSE reconnectAttempts + 1

(* scheduleReconnect(): skipped while a timer is set, and given up after   *)
(* the last attempt.                                                       *)
Schedule ==
  \/ /\ reconnectTimer
     /\ UNCHANGED << reconnectAttempts, reconnectTimer >>
  \/ /\ ~reconnectTimer
     /\ reconnectAttempts' = NextAttempt
     /\ reconnectTimer' = IF NextAttempt <= MaxReconnectAttempts THEN TRUE ELSE FALSE

ScheduleReconnect == Schedule /\ UNCHANGED running

(* The timer fires and calls the callback. *)
TimerFires(b) ==
  /\ reconnectTimer
  /\ b \notin running
  /\ reconnectTimer' = FALSE
  /\ running' = running \cup {b}
  /\ UNCHANGED reconnectAttempts

(* reset(), which a successful callback and a successful start() call. *)
ClearAll ==
  /\ reconnectAttempts' = 0
  /\ reconnectTimer' = FALSE

Reset == ClearAll /\ UNCHANGED running

CallbackSucceeds(b) ==
  /\ b \in running
  /\ running' = running \ {b}
  /\ ClearAll

(* Mutant: a failed attempt is not followed by another. *)
CallbackFails_Forgets(b) ==
  /\ b \in running
  /\ running' = running \ {b}
  /\ UNCHANGED << reconnectAttempts, reconnectTimer >>

CallbackFails(b) ==
  /\ b \in running
  /\ running' = running \ {b}
  /\ Schedule

(* cancel(): the timer only; a callback in progress goes on, and           *)
(* schedules the next attempt if it fails.                                 *)
Cancel ==
  /\ reconnectTimer' = FALSE
  /\ UNCHANGED << reconnectAttempts, running >>

Next ==
  \/ ScheduleReconnect
  \/ Reset
  \/ Cancel
  \/ \E b \in Callbacks : TimerFires(b) \/ CallbackSucceeds(b) \/ CallbackFails(b)

Spec == Init /\ [][Next]_vars
=============================================================================
