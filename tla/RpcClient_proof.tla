--------------------------- MODULE RpcClient_proof ---------------------------
(***************************************************************************)
(* Proofs about the RPC client, for any requests, attempts, channels and   *)
(* timeouts.  The table of pending requests is consistent as long as       *)
(* correlation ids are used as the client expects: no id is shared by two  *)
(* requests, and a request that can be aborted lets the client generate    *)
(* its ids (OwnIds).  The traced run shows why the second half is needed.  *)
(***************************************************************************)
EXTENDS RpcClient, TLAPS

(* What the client takes for granted about options.correlationId. *)
OwnIds ==
  /\ \A a, b \in Attempts : IdOf(a) = IdOf(b) => a[1] = b[1]
  /\ \A r \in WithSignal : r \notin DOMAIN CustomId

(* An attempt waits exactly while its timer runs, and exactly while it     *)
(* owns the entry under its id.                                            *)
TableConsistent ==
  /\ \A a \in Attempts : Armed(a) <=> Waiting(a)
  /\ \A a \in Attempts : pending[IdOf(a)] = a <=> Waiting(a)
  /\ \A i \in Ids : pending[i] # None => IdOf(pending[i]) = i

(* The retry loop backs off only with an attempt left; only a finished     *)
(* call has a result; a call that waits has sent its message.              *)
ProgressConsistent ==
  \A r \in Requests :
    /\ pc[r] = "backoff" => attempt[r] < MaxAttempts
    /\ pc[r] # "done" => result[r] = "none"
    /\ pc[r] = "waiting" => r \in served

IInv ==
  /\ TypeOK
  /\ ProgressConsistent
  /\ TableConsistent

-----------------------------------------------------------------------------
(* Facts about the definitions *)

(* None is no attempt, so an entry tells its owner from no owner. *)
LEMMA NoneIsNoAttempt == None \notin Attempts
BY DEF None, Attempts

(* The current attempt of a request is an attempt, and is made of it. *)
LEMMA CurrentFacts ==
  ASSUME TypeOK, NEW r \in Requests
  PROVE  /\ Current(r) \in Attempts
         /\ Current(r)[1] = r
         /\ Current(r)[2] = attempt[r]
BY DEF TypeOK, CallTypes, TableTypes, Current, Attempts

(* An attempt is the pair of its request and its number. *)
LEMMA AttemptFacts ==
  ASSUME NEW a \in Attempts
  PROVE  /\ a[1] \in Requests
         /\ a[2] \in 1..MaxAttempts
         /\ a = << a[1], a[2] >>
         /\ IdOf(a) \in Ids
BY DEF Attempts, Ids

(* Waiting(a) says that a is the current attempt of a waiting request. *)
LEMMA WaitingFacts ==
  ASSUME TypeOK, NEW a \in Attempts
  PROVE  Waiting(a) <=> (pc[a[1]] = "waiting" /\ Current(a[1]) = a)
<1>1. a = << a[1], a[2] >>  BY AttemptFacts
<1> QED BY <1>1 DEF Waiting, Current

(* The owner of an entry is an attempt with that id, and waits. *)
LEMMA OwnerFacts ==
  ASSUME TypeOK, TableConsistent, NEW i \in Ids, pending[i] # None
  PROVE  /\ pending[i] \in Attempts
         /\ IdOf(pending[i]) = i
         /\ Waiting(pending[i])
         /\ Armed(pending[i])
<1>1. pending[i] \in Attempts  BY DEF TypeOK, CallTypes, TableTypes
<1>2. IdOf(pending[i]) = i  BY DEF TableConsistent
<1> QED BY <1>1, <1>2 DEF TableConsistent

(* The invariants the runs check follow from the inductive one. *)
LEMMA Consequences ==
  ASSUME IInv
  PROVE  EntriesAreLive /\ NoCallOrphaned /\ NoStrayTimer
<1>1. TypeOK /\ TableConsistent  BY DEF IInv
<1>2. EntriesAreLive  BY <1>1, OwnerFacts DEF EntriesAreLive, Entries
<1>3. NoCallOrphaned
  <2> SUFFICES ASSUME NEW r \in Requests, pc[r] = "waiting" PROVE Armed(Current(r))
    BY DEF NoCallOrphaned
  <2>1. Current(r) \in Attempts /\ Waiting(Current(r))
    BY <1>1, CurrentFacts DEF Waiting
  <2> QED BY <1>1, <2>1 DEF TableConsistent
<1>4. NoStrayTimer  BY <1>1 DEF NoStrayTimer, TableConsistent
<1> QED BY <1>2, <1>3, <1>4

-----------------------------------------------------------------------------
(* Steps that leave the table alone *)

(* If nobody starts or stops waiting, the table stays consistent. *)
LEMMA QuietTable ==
  ASSUME TableConsistent, UNCHANGED << pending, timer >>,
         \A a \in Attempts : Waiting(a)' <=> Waiting(a)
  PROVE  TableConsistent'
BY DEF TableConsistent, Armed

(* A request that neither waited nor will wait, and the attempts of the    *)
(* others unchanged: nobody starts or stops waiting.                       *)
LEMMA QuietWaiting ==
  ASSUME TypeOK, NEW r \in Requests, NEW p, p # "waiting", pc[r] # "waiting",
         pc' = [pc EXCEPT ![r] = p],
         \A q \in Requests : q # r => attempt'[q] = attempt[q]
  PROVE  \A a \in Attempts : Waiting(a)' <=> Waiting(a)
<1> SUFFICES ASSUME NEW a \in Attempts PROVE Waiting(a)' <=> Waiting(a)  OBVIOUS
<1>1. a[1] \in Requests  BY AttemptFacts
<1> QED BY <1>1 DEF Waiting, TypeOK, CallTypes

-----------------------------------------------------------------------------
(* Settling *)

(* Rejecting attempts that wait: exactly they stop waiting. *)
LEMMA RejectFacts ==
  ASSUME TypeOK, ProgressConsistent, NEW S \in SUBSET Attempts, \A a \in S : Waiting(a),
         NEW how \in Results \ {"none", "reply"}, NEW retryable,
         Reject(S, how, retryable), UNCHANGED << attempt, served >>
  PROVE  /\ pc' \in [Requests -> CallStates]
         /\ result' \in [Requests -> Results]
         /\ \A a \in Attempts : Waiting(a)' <=> (Waiting(a) /\ a \notin S)
         /\ ProgressConsistent'
         /\ \A r \in Requests : result'[r] # result[r] =>
              pc[r] = "waiting" /\ result'[r] \in Results \ {"none", "reply"}
         /\ \A r \in Requests : pc'[r] = "idle" <=> pc[r] = "idle"
<1> DEFINE hit(r) == pc[r] = "waiting" /\ Current(r) \in S
           again(r) == retryable /\ attempt[r] < MaxAttempts
<1>1. pc' = [r \in Requests |->
               IF ~hit(r) THEN pc[r] ELSE IF again(r) THEN "backoff" ELSE "done"]
  BY DEF Reject
<1>2. result' = [r \in Requests |-> IF hit(r) /\ ~again(r) THEN how ELSE result[r]]
  BY DEF Reject
<1>3. pc' \in [Requests -> CallStates]
  BY <1>1 DEF TypeOK, CallTypes, TableTypes, CallStates
<1>4. result' \in [Requests -> Results]
  BY <1>2 DEF TypeOK, CallTypes, TableTypes
<1>5. \A a \in Attempts : Waiting(a)' <=> (Waiting(a) /\ a \notin S)
  <2> SUFFICES ASSUME NEW a \in Attempts
               PROVE  Waiting(a)' <=> (Waiting(a) /\ a \notin S)
    OBVIOUS
  <2>1. a[1] \in Requests  BY AttemptFacts
  <2>2. Waiting(a) <=> (pc[a[1]] = "waiting" /\ Current(a[1]) = a)  BY WaitingFacts
  <2>3. Waiting(a)' <=> (pc'[a[1]] = "waiting" /\ Current(a[1]) = a)
    <3>1. a = << a[1], a[2] >>  BY AttemptFacts
    <3> QED BY <3>1 DEF Waiting, Current
  <2>4. pc'[a[1]] = "waiting" <=> (pc[a[1]] = "waiting" /\ ~hit(a[1]))
    BY <1>1, <2>1
  <2> QED BY <2>2, <2>3, <2>4
<1>6. ProgressConsistent'
  <2> SUFFICES ASSUME NEW r \in Requests
               PROVE  /\ pc'[r] = "backoff" => attempt'[r] < MaxAttempts
                      /\ pc'[r] # "done" => result'[r] = "none"
                      /\ pc'[r] = "waiting" => r \in served'
    BY DEF ProgressConsistent
  <2> QED BY <1>1, <1>2 DEF ProgressConsistent
<1>7. \A r \in Requests : result'[r] # result[r] =>
        pc[r] = "waiting" /\ result'[r] \in Results \ {"none", "reply"}
  BY <1>2
<1>8. \A r \in Requests : pc'[r] = "idle" <=> pc[r] = "idle"
  BY <1>1
<1> QED BY <1>3, <1>4, <1>5, <1>6, <1>7, <1>8

(* Taking the entries and the timers of attempts that stop waiting keeps   *)
(* the table consistent.                                                   *)
LEMMA SettleTable ==
  ASSUME TypeOK, TableConsistent, OwnIds,
         NEW S \in SUBSET Attempts, \A a \in S : Waiting(a),
         Disarm(S), Delete({IdOf(a) : a \in S}),
         \A a \in Attempts : Waiting(a)' <=> (Waiting(a) /\ a \notin S)
  PROVE  /\ TableConsistent'
         /\ pending' \in [Ids -> Attempts \cup {None}]
         /\ timer' \in [Attempts -> {Off} \cup 0..AgeCap]
<1> DEFINE I == {IdOf(a) : a \in S}
<1>1. pending' = [i \in Ids |-> IF i \in I THEN None ELSE pending[i]]
  BY DEF Delete
<1>2. timer' = [a \in Attempts |-> IF a \in S THEN Off ELSE timer[a]]
  BY DEF Disarm
<1>3. pending' \in [Ids -> Attempts \cup {None}]
  BY <1>1 DEF TypeOK, CallTypes, TableTypes
<1>4. timer' \in [Attempts -> {Off} \cup 0..AgeCap]
  BY <1>2 DEF TypeOK, CallTypes, TableTypes
<1>5. ASSUME NEW a \in Attempts PROVE Armed(a)' <=> Waiting(a)'
  BY <1>2, <1>5 DEF TableConsistent, Armed
<1>6. ASSUME NEW a \in Attempts PROVE pending'[IdOf(a)] = a <=> Waiting(a)'
  <2>1. IdOf(a) \in Ids  BY AttemptFacts
  <2>2. CASE IdOf(a) \in I
    <3>1. PICK b \in S : IdOf(a) = IdOf(b)  BY <2>2
    <3>2. b \in Attempts /\ Waiting(b)  BY <3>1
    <3>3. pending[IdOf(b)] = b  BY <3>2 DEF TableConsistent
    <3>4. Waiting(a) => a = b  BY <3>1, <3>3 DEF TableConsistent
    <3>5. ~Waiting(a)'  BY <3>1, <3>4
    <3>6. pending'[IdOf(a)] = None  BY <1>1, <2>1, <2>2
    <3> QED BY <3>5, <3>6, NoneIsNoAttempt
  <2>3. CASE IdOf(a) \notin I
    <3>1. a \notin S  BY <2>3
    <3>2. pending'[IdOf(a)] = pending[IdOf(a)]  BY <1>1, <2>1, <2>3
    <3> QED BY <3>1, <3>2 DEF TableConsistent
  <2> QED BY <2>2, <2>3
<1>7. ASSUME NEW i \in Ids, pending'[i] # None PROVE IdOf(pending'[i]) = i
  BY <1>1, <1>7 DEF TableConsistent
<1>8. TableConsistent'  BY <1>5, <1>6, <1>7 DEF TableConsistent
<1> QED BY <1>3, <1>4, <1>8

-----------------------------------------------------------------------------
(* The channels and the client's own fields *)

(* Losing a channel keeps the types of the wire. *)
LEMMA ChannelDownTypes ==
  ASSUME WireTypes, NEW n, ChannelDown(n)
  PROVE  /\ chan' \in [Channels -> ChannelStates]
         /\ sentOn' \in [Attempts -> {0} \cup Channels]
         /\ isReady' = FALSE
BY DEF WireTypes, ChannelDown, ChannelStates

(* Every step keeps the types of the channels. *)
LEMMA WireTypesKept == TypeOK /\ [Next]_vars => WireTypes'
<1> SUFFICES ASSUME TypeOK, [Next]_vars PROVE WireTypes'  OBVIOUS
<1> USE DEF WireTypes, ChannelStates
<1>0. WireTypes /\ channel \in {0} \cup Channels  BY DEF TypeOK, ClientTypes
<1>1. ASSUME UNCHANGED wireVars PROVE WireTypes'
  BY <1>0, <1>1 DEF wireVars
<1>2. ASSUME NEW r \in Requests, ChannelCreated(r) PROVE WireTypes'
  BY <1>0, <1>2 DEF ChannelCreated
<1>3. ASSUME NEW r \in Requests, QueueAsserted(r) PROVE WireTypes'
  BY <1>0, <1>3 DEF QueueAsserted
<1>4. ASSUME NEW r \in Requests, ConsumeAccepted(r) PROVE WireTypes'
  BY <1>0, <1>4 DEF ConsumeAccepted
<1>5. ASSUME NEW r \in Requests, ConsumeRefused(r) PROVE WireTypes'
  BY <1>0, <1>5, ChannelDownTypes DEF ConsumeRefused
<1>6. ASSUME NEW r \in Requests, Initialized(r) PROVE WireTypes'
  BY <1>0, <1>6 DEF Initialized
<1>7. ASSUME NEW r \in Requests, InitializeFails(r) PROVE WireTypes'
  BY <1>0, <1>7 DEF InitializeFails
<1>8. ASSUME NEW r \in Requests, Transmit(r) PROVE WireTypes'
  BY <1>0, <1>8 DEF Transmit, CanTransmit
<1>9. CASE ChannelLost
  BY <1>0, <1>9, ChannelDownTypes DEF ChannelLost
<1>10. CASE Cancelled  BY <1>0, <1>10 DEF Cancelled
<1>11. CASE RejectAll  BY <1>0, <1>11 DEF RejectAll
<1>12. CASE Closed  BY <1>0, <1>12 DEF Closed
<1>13. ASSUME NEW r \in Requests, Send(r) \/ Retry(r) \/ TransmitFails(r) \/ NotReady(r) \/ Abort(r)
       PROVE  WireTypes'
  BY <1>1, <1>13 DEF Send, Retry, TransmitFails, NotReady, Abort
<1>14. ASSUME NEW a \in Attempts, Reply(a) \/ TimerFires(a) PROVE WireTypes'
  BY <1>1, <1>14 DEF Reply, HandleReply, TimerFires
<1>15. CASE Cleanup \/ Tick \/ Close \/ UNCHANGED vars
  BY <1>1, <1>15 DEF Cleanup, Tick, Close, vars
<1> QED
  BY <1>2, <1>3, <1>4, <1>5, <1>6, <1>7, <1>8, <1>9, <1>10, <1>11, <1>12, <1>13,
     <1>14, <1>15
  DEF Next, Initialize, Register

(* Every step keeps the types of the client's own fields. *)
LEMMA ClientTypesKept == TypeOK /\ [Next]_vars => ClientTypes'
<1> SUFFICES ASSUME TypeOK, [Next]_vars PROVE ClientTypes'  OBVIOUS
<1> USE Zenon DEF ClientTypes
<1>0. ClientTypes  BY DEF TypeOK
<1>1. ASSUME UNCHANGED clientVars PROVE ClientTypes'
  BY <1>0, <1>1 DEF clientVars
<1>2. ASSUME NEW r \in Requests, ChannelCreated(r) PROVE ClientTypes'
  BY <1>0, <1>2 DEF ChannelCreated
<1>3. ASSUME NEW r \in Requests, ConsumeRefused(r) PROVE ClientTypes'
  BY <1>0, <1>3 DEF ConsumeRefused, ChannelDown
<1>4. ASSUME NEW r \in Requests, Initialized(r) PROVE ClientTypes'
  BY <1>0, <1>4 DEF Initialized
<1>5. CASE ChannelLost  BY <1>0, <1>5 DEF ChannelLost, ChannelDown
<1>6. CASE Close  BY <1>0, <1>6 DEF Close
<1>7. CASE Cancelled  BY <1>0, <1>7 DEF Cancelled
<1>8. CASE RejectAll  BY <1>0, <1>8 DEF RejectAll
<1>9. CASE Closed  BY <1>0, <1>9 DEF Closed
<1>10. ASSUME NEW r \in Requests,
              \/ Send(r) \/ Retry(r) \/ QueueAsserted(r) \/ ConsumeAccepted(r)
              \/ InitializeFails(r) \/ Transmit(r) \/ TransmitFails(r) \/ NotReady(r)
              \/ Abort(r)
       PROVE  ClientTypes'
  BY <1>1, <1>10
     DEF Send, Retry, QueueAsserted, ConsumeAccepted, InitializeFails, Transmit,
         TransmitFails, NotReady, Abort
<1>11. ASSUME NEW a \in Attempts, Reply(a) \/ TimerFires(a) PROVE ClientTypes'
  BY <1>1, <1>11 DEF Reply, HandleReply, TimerFires
<1>12. CASE Cleanup \/ Tick \/ UNCHANGED vars
  BY <1>1, <1>12 DEF Cleanup, Tick, vars
<1> QED
  BY <1>2, <1>3, <1>4, <1>5, <1>6, <1>7, <1>8, <1>9, <1>10, <1>11, <1>12
  DEF Next, Initialize, Register

-----------------------------------------------------------------------------
(* The calls and the table, action by action *)

Core ==
  /\ CallTypes
  /\ TableTypes
  /\ ProgressConsistent
  /\ TableConsistent

(* A step of a request that is not waiting, before or after, and has not   *)
(* ended before.                                                           *)
LEMMA QuietCall ==
  ASSUME IInv, NEW r \in Requests, NEW p \in CallStates \ {"waiting"},
         pc[r] \notin {"waiting", "done"},
         pc' = [pc EXCEPT ![r] = p],
         attempt' \in [Requests -> 1..MaxAttempts],
         \A q \in Requests : q # r => attempt'[q] = attempt[q],
         result' = IF p = "done" THEN [result EXCEPT ![r] = "failed"] ELSE result,
         p = "backoff" => attempt'[r] < MaxAttempts,
         UNCHANGED << served, tableVars >>
  PROVE  Core'
<1>1. TypeOK /\ CallTypes /\ TableTypes /\ ProgressConsistent /\ TableConsistent
  BY DEF IInv, TypeOK
<1>2. CallTypes'
  BY <1>1 DEF CallTypes, Results
<1>3. TableTypes'
  BY <1>1 DEF TableTypes, tableVars
<1>4. ProgressConsistent'
  BY <1>1 DEF ProgressConsistent, CallTypes
<1>5. TableConsistent'
  <2>1. \A a \in Attempts : Waiting(a)' <=> Waiting(a)
    BY <1>1, QuietWaiting
  <2> QED BY <1>1, <2>1, QuietTable DEF tableVars
<1> QED BY <1>2, <1>3, <1>4, <1>5 DEF Core

(* A step that changes neither calls nor table keeps them. *)
LEMMA CoreUnchanged ==
  ASSUME IInv, UNCHANGED << callVars, tableVars >>
  PROVE  Core'
<1>1. \A a \in Attempts : Waiting(a)' <=> Waiting(a)
  BY DEF callVars, Waiting
<1>2. TableConsistent'
  BY <1>1, QuietTable DEF IInv, tableVars
<1>3. CallTypes' /\ TableTypes'
  BY DEF IInv, TypeOK, CallTypes, TableTypes, callVars, tableVars
<1>4. ProgressConsistent'
  BY DEF IInv, ProgressConsistent, callVars
<1> QED BY <1>2, <1>3, <1>4 DEF Core

(* A throw ends the call or backs off. *)
LEMMA ThrowKeeps ==
  ASSUME IInv, NEW r \in Requests, NEW retryable, Throw(r, retryable),
         pc[r] \notin {"waiting", "done"},
         UNCHANGED << attempt, served, tableVars >>
  PROVE  Core'
<1>1. TypeOK /\ CallTypes  BY DEF IInv, TypeOK
<1>2. CASE retryable /\ attempt[r] < MaxAttempts
  <2>1. pc' = [pc EXCEPT ![r] = "backoff"]  BY <1>2 DEF Throw
  <2>2. result' = result  BY <1>1, <1>2 DEF Throw, CallTypes
  <2>3. "backoff" \in CallStates \ {"waiting"}  BY DEF CallStates
  <2> QED BY <1>1, <1>2, <2>1, <2>2, <2>3, QuietCall DEF CallTypes
<1>3. CASE ~(retryable /\ attempt[r] < MaxAttempts)
  <2>1. pc' = [pc EXCEPT ![r] = "done"]  BY <1>3 DEF Throw
  <2>2. result' = [result EXCEPT ![r] = "failed"]  BY <1>3 DEF Throw
  <2>3. "done" \in CallStates \ {"waiting"}  BY DEF CallStates
  <2> QED BY <1>1, <2>1, <2>2, <2>3, QuietCall DEF CallTypes
<1> QED BY <1>2, <1>3

(* send() and the retry loop *)
LEMMA EnterKeeps ==
  ASSUME IInv, NEW r \in Requests, Send(r) \/ Retry(r)
  PROVE  Core'
<1>1. TypeOK /\ CallTypes /\ ProgressConsistent  BY DEF IInv, TypeOK
<1> DEFINE p == IF isReady THEN "ready" ELSE "creating"
<1>2. p \in CallStates \ {"waiting"} /\ p \notin {"done", "backoff"}
  BY DEF CallStates, Initializing
<1>3. pc' = [pc EXCEPT ![r] = p] /\ pc[r] \in {"idle", "backoff"}
  BY DEF Send, Retry, Enter
<1>4. attempt' \in [Requests -> 1..MaxAttempts]
  BY <1>1, ClientAssumption DEF Send, Retry, CallTypes, ProgressConsistent
<1>5. \A q \in Requests : q # r => attempt'[q] = attempt[q]
  BY <1>1 DEF Send, Retry, CallTypes
<1>6. UNCHANGED << result, served, tableVars >>
  BY DEF Send, Retry
<1> HIDE DEF p
<1> QED BY <1>2, <1>3, <1>4, <1>5, <1>6, QuietCall

(* initialize(), when it goes on *)
LEMMA InitializeGoesOn ==
  ASSUME IInv, NEW r \in Requests,
         ChannelCreated(r) \/ QueueAsserted(r) \/ ConsumeAccepted(r) \/ Initialized(r)
  PROVE  Core'
<1>1. TypeOK /\ CallTypes  BY DEF IInv, TypeOK
<1>2. PICK p \in {"asserting", "consuming", "consumed", "ready"} :
        pc' = [pc EXCEPT ![r] = p]
  BY DEF ChannelCreated, QueueAsserted, ConsumeAccepted, Initialized
<1>3. pc[r] \in {"creating", "asserting", "consuming", "consumed"}
  BY DEF ChannelCreated, QueueAsserted, ConsumeAccepted, Initialized
<1>4. p \in CallStates \ {"waiting"} /\ p \notin {"done", "backoff"}
  BY DEF CallStates, Initializing
<1>5. UNCHANGED << attempt, result, served, tableVars >>
  BY DEF ChannelCreated, QueueAsserted, ConsumeAccepted, Initialized
<1> QED BY <1>1, <1>2, <1>3, <1>4, <1>5, QuietCall DEF CallTypes

(* initialize() or sendInternal(), when it throws before registering *)
LEMMA EarlyThrow ==
  ASSUME IInv, NEW r \in Requests,
         ConsumeRefused(r) \/ InitializeFails(r) \/ NotReady(r)
  PROVE  Core'
<1>1. PICK retryable \in BOOLEAN : Throw(r, retryable)
  BY DEF ConsumeRefused, InitializeFails, NotReady
<1>2. pc[r] \notin {"waiting", "done"}
  BY DEF ConsumeRefused, InitializeFails, NotReady
<1>3. UNCHANGED << attempt, served, tableVars >>
  BY DEF ConsumeRefused, InitializeFails, NotReady
<1> QED BY <1>1, <1>2, <1>3, ThrowKeeps

(* A request that is not waiting has no entry under the id of its current  *)
(* attempt: the entry's owner would be an attempt of the same request.     *)
LEMMA NoEntryYet ==
  ASSUME IInv, OwnIds, NEW r \in Requests, pc[r] # "waiting"
  PROVE  /\ pending[IdOf(Current(r))] = None
         /\ IdOf(Current(r)) \in Ids
         /\ Current(r) \in Attempts
         /\ \A a \in Attempts : Waiting(a) => a[1] # r /\ IdOf(a) # IdOf(Current(r))
<1>1. TypeOK /\ TableConsistent  BY DEF IInv
<1>2. Current(r) \in Attempts /\ Current(r)[1] = r  BY <1>1, CurrentFacts
<1>3. IdOf(Current(r)) \in Ids  BY <1>2, AttemptFacts
<1>4. ASSUME NEW a \in Attempts, Waiting(a)
      PROVE  a[1] # r /\ IdOf(a) # IdOf(Current(r))
  <2>1. a[1] # r  BY <1>4 DEF Waiting
  <2> QED BY <1>2, <2>1 DEF OwnIds
<1>5. pending[IdOf(Current(r))] = None
  <2> SUFFICES ASSUME pending[IdOf(Current(r))] # None PROVE FALSE  OBVIOUS
  <2> DEFINE o == pending[IdOf(Current(r))]
  <2>1. o \in Attempts /\ IdOf(o) = IdOf(Current(r)) /\ Waiting(o)
    BY <1>1, <1>3, OwnerFacts
  <2> QED BY <1>4, <2>1
<1> QED BY <1>2, <1>3, <1>4, <1>5

(* Registering an attempt: it waits, has a timer, and owns its entry. *)
LEMMA TransmitKeeps ==
  ASSUME IInv, OwnIds, NEW r \in Requests, Transmit(r)
  PROVE  Core'
<1> DEFINE c == Current(r)
<1>1. TypeOK /\ CallTypes /\ TableTypes /\ ProgressConsistent /\ TableConsistent
  BY DEF IInv, TypeOK
<1>2. pc[r] = "ready"  BY DEF Transmit, CanTransmit
<1>3. /\ pending[IdOf(c)] = None
      /\ IdOf(c) \in Ids
      /\ c \in Attempts
      /\ \A a \in Attempts : Waiting(a) => a[1] # r /\ IdOf(a) # IdOf(c)
  BY <1>2, NoEntryYet
<1>4. /\ timer' = [timer EXCEPT ![c] = 0]
      /\ pending' = [pending EXCEPT ![IdOf(c)] = c]
      /\ pc' = [pc EXCEPT ![r] = "waiting"]
      /\ served' = served \cup {r}
      /\ UNCHANGED << attempt, result, aborted >>
  BY DEF Transmit
<1>5. c[1] = r /\ c[2] = attempt[r]  BY <1>1, CurrentFacts
<1> HIDE DEF c
<1>6. ASSUME NEW a \in Attempts PROVE Waiting(a)' <=> (Waiting(a) \/ a = c)
  <2>1. a = << a[1], a[2] >> /\ c = << c[1], c[2] >> /\ a[1] \in Requests
    BY <1>3, AttemptFacts
  <2> QED BY <1>1, <1>2, <1>4, <1>5, <2>1 DEF Waiting, CallTypes
<1>7. CallTypes'
  BY <1>1, <1>4 DEF CallTypes, CallStates
<1>8. TableTypes'
  <2>1. listening' \subseteq Attempts
    BY <1>1, <1>3 DEF Transmit, Listen, TableTypes, c
  <2>2. 0 \in 0..AgeCap  BY ClientAssumption
  <2> QED BY <1>1, <1>3, <1>4, <2>1, <2>2 DEF TableTypes
<1>9. ProgressConsistent'
  BY <1>1, <1>2, <1>4 DEF ProgressConsistent, CallTypes
<1>10. TableConsistent'
  <2>1. ASSUME NEW a \in Attempts PROVE Armed(a)' <=> Waiting(a)'
    <3>1. Off # 0  BY DEF Off
    <3> QED BY <1>1, <1>3, <1>4, <1>6, <2>1, <3>1 DEF TableConsistent, Armed, TableTypes
  <2>2. ASSUME NEW a \in Attempts PROVE pending'[IdOf(a)] = a <=> Waiting(a)'
    <3>1. IdOf(a) \in Ids  BY AttemptFacts
    <3>2. CASE IdOf(a) = IdOf(c)
      <4>1. pending'[IdOf(a)] = c  BY <1>1, <1>3, <1>4, <3>2 DEF TableTypes
      <4>2. ~Waiting(a)  BY <1>3, <3>2
      <4> QED BY <1>6, <4>1, <4>2
    <3>3. CASE IdOf(a) # IdOf(c)
      <4>1. pending'[IdOf(a)] = pending[IdOf(a)]
        BY <1>1, <1>4, <3>1, <3>3 DEF TableTypes
      <4>2. a # c  BY <3>3
      <4> QED BY <1>1, <1>6, <4>1, <4>2 DEF TableConsistent
    <3> QED BY <3>2, <3>3
  <2>3. ASSUME NEW i \in Ids, pending'[i] # None PROVE IdOf(pending'[i]) = i
    BY <1>1, <1>3, <1>4, <2>3 DEF TableConsistent, TableTypes
  <2> QED BY <2>1, <2>2, <2>3 DEF TableConsistent
<1> QED BY <1>7, <1>8, <1>9, <1>10 DEF Core

(* A send that throws deletes an entry that was not there. *)
LEMMA TransmitFailsKeeps ==
  ASSUME IInv, OwnIds, NEW r \in Requests, TransmitFails(r)
  PROVE  Core'
<1>1. TypeOK /\ CallTypes /\ TableTypes /\ TableConsistent  BY DEF IInv, TypeOK
<1>2. pc[r] = "ready"  BY DEF TransmitFails, CanTransmit
<1>3. /\ pending[IdOf(Current(r))] = None
      /\ Current(r) \in Attempts
  BY <1>2, NoEntryYet
<1>4. pending' = pending
  BY <1>1, <1>3 DEF TransmitFails, Delete, TableTypes
<1>5. Throw(r, FALSE) /\ UNCHANGED << attempt, served, timer, aborted >>
  BY DEF TransmitFails
<1>6. pc' = [pc EXCEPT ![r] = "done"] /\ result' = [result EXCEPT ![r] = "failed"]
  BY <1>5 DEF Throw
<1>7. CallTypes'
  BY <1>1, <1>5, <1>6 DEF CallTypes, CallStates, Results
<1>8. TableTypes'
  BY <1>1, <1>3, <1>4, <1>5 DEF TransmitFails, Listen, TableTypes
<1>9. ProgressConsistent'
  BY <1>1, <1>5, <1>6 DEF IInv, ProgressConsistent, CallTypes
<1>10. \A a \in Attempts : Waiting(a)' <=> Waiting(a)
  BY <1>1, <1>2, <1>5, <1>6, QuietWaiting
<1>11. TableConsistent'
  BY <1>1, <1>4, <1>5, <1>10, QuietTable
<1> QED BY <1>7, <1>8, <1>9, <1>11 DEF Core

(* Rejecting attempts that wait, with their timers and their entries. *)
LEMMA RejectKeeps ==
  ASSUME IInv, OwnIds,
         NEW S \in SUBSET Attempts, \A a \in S : Waiting(a),
         NEW how \in Results \ {"none", "reply"}, NEW retryable,
         Reject(S, how, retryable), Disarm(S), Delete({IdOf(a) : a \in S}),
         UNCHANGED << attempt, served, listening >>,
         aborted' \subseteq WithSignal
  PROVE  Core'
<1>1. TypeOK /\ CallTypes /\ TableTypes /\ ProgressConsistent /\ TableConsistent
  BY DEF IInv, TypeOK
<1>2. /\ pc' \in [Requests -> CallStates]
      /\ result' \in [Requests -> Results]
      /\ \A a \in Attempts : Waiting(a)' <=> (Waiting(a) /\ a \notin S)
      /\ ProgressConsistent'
      /\ \A r \in Requests : result'[r] # result[r] =>
           pc[r] = "waiting" /\ result'[r] \in Results \ {"none", "reply"}
  <2>1. UNCHANGED << attempt, served >>  OBVIOUS
  <2> QED BY <1>1, <2>1, RejectFacts
<1>3. /\ TableConsistent'
      /\ pending' \in [Ids -> Attempts \cup {None}]
      /\ timer' \in [Attempts -> {Off} \cup 0..AgeCap]
  BY <1>1, <1>2, SettleTable
<1>4. CallTypes'  BY <1>1, <1>2 DEF CallTypes
<1>5. TableTypes'  BY <1>1, <1>3 DEF TableTypes
<1> QED BY <1>2, <1>3, <1>4, <1>5 DEF Core

(* A reply settles the owner of the entry under its id: by OwnIds, an      *)
(* attempt of the request the reply is for.                                *)
LEMMA HandleReplyKeeps ==
  ASSUME IInv, OwnIds, NEW a \in Attempts, Reply(a)
  PROVE  Core'
<1> DEFINE o == pending[IdOf(a)]
<1>1. TypeOK /\ CallTypes /\ TableTypes /\ ProgressConsistent /\ TableConsistent
  BY DEF IInv, TypeOK
<1>2. /\ o # None
      /\ Disarm({o})
      /\ Delete({IdOf(a)})
      /\ UNCHANGED << attempt, served, listening, aborted >>
  BY DEF Reply, HandleReply
<1>3. IdOf(a) \in Ids /\ a[1] \in Requests  BY AttemptFacts
<1>4. o \in Attempts /\ IdOf(o) = IdOf(a) /\ Waiting(o)
  BY <1>1, <1>2, <1>3, OwnerFacts
<1>5. o[1] = a[1] /\ o[1] \in Requests /\ pc[o[1]] = "waiting"
  BY <1>4, <1>3 DEF OwnIds, Waiting
<1>6. {IdOf(b) : b \in {o}} = {IdOf(a)}  BY <1>4
<1>7. Delete({IdOf(b) : b \in {o}})  BY <1>2, <1>6
<1>8. {o} \in SUBSET Attempts /\ \A b \in {o} : Waiting(b)  BY <1>4
<1> HIDE DEF o
<1>9. CASE HandleReply(a, "reply", FALSE)
  <2>1. /\ pc' = [pc EXCEPT ![o[1]] = "done"]
        /\ result' = [result EXCEPT ![o[1]] = "reply"]
    BY <1>4, <1>9 DEF HandleReply, o
  <2>2. \A b \in Attempts : Waiting(b)' <=> (Waiting(b) /\ b \notin {o})
    <3> SUFFICES ASSUME NEW b \in Attempts
                 PROVE  Waiting(b)' <=> (Waiting(b) /\ b # o)
      OBVIOUS
    <3>1. /\ b = << b[1], b[2] >> /\ b[1] \in Requests
          /\ o = << o[1], o[2] >>
      BY <1>4, AttemptFacts
    <3>2. attempt[o[1]] = o[2]  BY <1>4 DEF Waiting
    <3> QED BY <1>1, <1>2, <1>5, <2>1, <3>1, <3>2 DEF Waiting, CallTypes
  <2>3. CallTypes'
    BY <1>1, <1>2, <2>1 DEF CallTypes, CallStates, Results
  <2>4. TableConsistent' /\ TableTypes'
    BY <1>1, <1>2, <1>7, <1>8, <2>2, SettleTable DEF TableTypes
  <2>5. ProgressConsistent'
    BY <1>1, <1>2, <2>1 DEF ProgressConsistent, CallTypes
  <2> QED BY <2>3, <2>4, <2>5 DEF Core
<1>10. ASSUME NEW retryable \in BOOLEAN, HandleReply(a, "remoteError", retryable)
       PROVE  Core'
  <2>1. Reject({o}, "remoteError", retryable)
    BY <1>10 DEF HandleReply, o
  <2>2. "remoteError" \in Results \ {"none", "reply"}  BY DEF Results
  <2>3. aborted' \subseteq WithSignal  BY <1>1, <1>2 DEF TableTypes
  <2> QED BY <1>2, <1>7, <1>8, <2>1, <2>2, <2>3, RejectKeeps
<1> QED BY <1>9, <1>10 DEF Reply

(* A timer that fires belongs to an attempt that waits. *)
LEMMA TimerFiresKeeps ==
  ASSUME IInv, OwnIds, NEW a \in Attempts, TimerFires(a)
  PROVE  Core'
<1>1. TableConsistent /\ TableTypes  BY DEF IInv, TypeOK
<1>2. Waiting(a)  BY <1>1 DEF TimerFires, TableConsistent
<1>3. {a} \in SUBSET Attempts /\ \A b \in {a} : Waiting(b)  BY <1>2
<1>4. {IdOf(b) : b \in {a}} = {IdOf(a)}  OBVIOUS
<1>5. Disarm({a}) /\ Delete({IdOf(b) : b \in {a}}) /\ Reject({a}, "timeout", TRUE)
  BY <1>4 DEF TimerFires
<1>6. UNCHANGED << attempt, served, listening >> /\ aborted' \subseteq WithSignal
  BY <1>1 DEF TimerFires, TableTypes
<1>7. "timeout" \in Results \ {"none", "reply"}  BY DEF Results
<1> QED BY <1>3, <1>5, <1>6, <1>7, RejectKeeps

(* An abort listener that acts finds its own attempt's entry. *)
LEMMA AbortKeeps ==
  ASSUME IInv, OwnIds, NEW r \in Requests, Abort(r)
  PROVE  Core'
<1> DEFINE S == FirstWithEntry({a \in listening : a[1] = r})
<1>1. TypeOK /\ TableConsistent /\ TableTypes  BY DEF IInv, TypeOK
<1>2. r \in WithSignal /\ r \notin DOMAIN CustomId  BY DEF Abort, OwnIds
<1>3. ASSUME NEW a \in S
      PROVE  a \in Attempts /\ a[1] = r /\ pending[IdOf(a)] = a
  <2>1. a \in Attempts /\ a[1] = r /\ pending[IdOf(a)] # None
    BY <1>1 DEF FirstWithEntry, TableTypes
  <2>2. IdOf(a) = a /\ IdOf(a) \in Ids  BY <1>2, <2>1, AttemptFacts DEF IdOf
  <2> DEFINE o == pending[a]
  <2>3. o \in Attempts /\ IdOf(o) = a  BY <1>1, <2>1, <2>2, OwnerFacts
  <2>4. o[1] \notin DOMAIN CustomId
    BY <2>1, <2>3, ClientAssumption DEF IdOf
  <2>5. o = a  BY <2>3, <2>4 DEF IdOf
  <2> QED BY <2>1, <2>2, <2>5
<1>4. S \in SUBSET Attempts /\ \A a \in S : Waiting(a)
  BY <1>1, <1>3 DEF TableConsistent
<1>5. {pending[IdOf(a)] : a \in S} = S  BY <1>3
<1>6. /\ Disarm(S)
      /\ Delete({IdOf(a) : a \in S})
      /\ Reject(S, "aborted", FALSE)
      /\ aborted' = aborted \cup {r}
      /\ UNCHANGED << attempt, served, listening >>
  BY <1>5 DEF Abort
<1>7. aborted' \subseteq WithSignal  BY <1>1, <1>2, <1>6 DEF TableTypes
<1>8. "aborted" \in Results \ {"none", "reply"}  BY DEF Results
<1> HIDE DEF S
<1> QED BY <1>4, <1>6, <1>7, <1>8, RejectKeeps

(* The owners of entries wait, and own exactly those entries. *)
LEMMA OwnersOf ==
  ASSUME IInv, NEW I \in SUBSET Entries
  PROVE  LET S == {pending[i] : i \in I}
         IN  /\ S \in SUBSET Attempts
             /\ \A a \in S : Waiting(a)
             /\ {IdOf(a) : a \in S} = I
<1>1. TypeOK /\ TableConsistent  BY DEF IInv
<1>2. ASSUME NEW i \in I
      PROVE  /\ pending[i] \in Attempts
             /\ Waiting(pending[i])
             /\ IdOf(pending[i]) = i
  <2>1. i \in Ids /\ pending[i] # None  BY DEF Entries
  <2> QED BY <1>1, <2>1, OwnerFacts
<1> QED BY <1>2

(* The cleanup *)
LEMMA CleanupKeeps ==
  ASSUME IInv, OwnIds, Cleanup
  PROVE  Core'
<1> DEFINE S == {pending[i] : i \in Expired}
<1>1. Expired \in SUBSET Entries  BY DEF Expired
<1>2. S \in SUBSET Attempts /\ (\A a \in S : Waiting(a)) /\ {IdOf(a) : a \in S} = Expired
  BY <1>1, OwnersOf
<1>3. /\ Disarm(S)
      /\ Delete({IdOf(a) : a \in S})
      /\ Reject(S, "timeout", TRUE)
      /\ UNCHANGED << attempt, served, listening, aborted >>
  BY <1>2 DEF Cleanup
<1>4. aborted' \subseteq WithSignal  BY <1>3 DEF IInv, TypeOK, TableTypes
<1>5. "timeout" \in Results \ {"none", "reply"}  BY DEF Results
<1> HIDE DEF S
<1> QED BY <1>2, <1>3, <1>4, <1>5, RejectKeeps

(* close() rejecting everything *)
LEMMA RejectAllKeeps ==
  ASSUME IInv, OwnIds, RejectAll
  PROVE  Core'
<1> DEFINE S == {pending[i] : i \in Entries}
<1>1. S \in SUBSET Attempts /\ (\A a \in S : Waiting(a)) /\ {IdOf(a) : a \in S} = Entries
  BY OwnersOf
<1>2. /\ Disarm(S)
      /\ Delete({IdOf(a) : a \in S})
      /\ Reject(S, "closing", FALSE)
      /\ UNCHANGED << attempt, served, listening, aborted >>
  BY <1>1 DEF RejectAll
<1>3. aborted' \subseteq WithSignal  BY <1>2 DEF IInv, TypeOK, TableTypes
<1>4. "closing" \in Results \ {"none", "reply"}  BY DEF Results
<1> HIDE DEF S
<1> QED BY <1>1, <1>2, <1>3, <1>4, RejectKeeps

(* The clock ages armed timers and arms none. *)
LEMMA TickKeeps ==
  ASSUME IInv, Tick
  PROVE  Core'
<1>1. TypeOK /\ TableTypes /\ TableConsistent  BY DEF IInv, TypeOK
<1>2. timer' = [a \in Attempts |->
                 IF Armed(a) /\ timer[a] < AgeCap THEN timer[a] + 1 ELSE timer[a]]
  BY DEF Tick
<1>3. UNCHANGED << callVars, pending, listening, aborted >>  BY DEF Tick
<1>4. ASSUME NEW a \in Attempts
      PROVE  timer'[a] \in {Off} \cup 0..AgeCap /\ (Armed(a)' <=> Armed(a))
  BY <1>1, <1>2, ClientAssumption DEF Armed, Off, TableTypes
<1>5. TableTypes'  BY <1>1, <1>2, <1>3, <1>4 DEF TableTypes
<1>6. \A a \in Attempts : Waiting(a)' <=> Waiting(a)
  BY <1>3 DEF callVars, Waiting
<1>7. TableConsistent'
  BY <1>1, <1>3, <1>4, <1>6 DEF TableConsistent
<1>8. CallTypes' /\ ProgressConsistent'
  BY <1>3 DEF IInv, TypeOK, CallTypes, ProgressConsistent, callVars
<1> QED BY <1>5, <1>7, <1>8 DEF Core

-----------------------------------------------------------------------------
(* The invariant *)

(* The initial state satisfies it. *)
LEMMA InitEstablishes == Init => IInv
<1> SUFFICES ASSUME Init PROVE IInv  OBVIOUS
<1>1. CallTypes
  BY ClientAssumption DEF Init, CallTypes, CallStates, Results
<1>2. TableTypes  BY DEF Init, TableTypes
<1>3. WireTypes  BY DEF Init, WireTypes, ChannelStates
<1>4. ClientTypes  BY DEF Init, ClientTypes
<1>5. ProgressConsistent
  BY DEF Init, ProgressConsistent
<1>6. TableConsistent
  <2>1. ASSUME NEW a \in Attempts PROVE ~Armed(a) /\ ~Waiting(a) /\ pending[IdOf(a)] # a
    <3>1. a[1] \in Requests /\ IdOf(a) \in Ids  BY AttemptFacts
    <3> QED BY <3>1, NoneIsNoAttempt DEF Init, Armed, Waiting
  <2> QED BY <2>1 DEF Init, TableConsistent
<1> QED BY <1>1, <1>2, <1>3, <1>4, <1>5, <1>6 DEF IInv, TypeOK

(* Every step keeps it. *)
LEMMA NextKeeps == OwnIds /\ IInv /\ [Next]_vars => IInv'
<1> SUFFICES ASSUME OwnIds, IInv, [Next]_vars PROVE IInv'  OBVIOUS
<1>1. WireTypes' /\ ClientTypes'
  BY WireTypesKept, ClientTypesKept DEF IInv
<1>2. Core'
  <2>1. ASSUME NEW r \in Requests, Send(r) \/ Retry(r) PROVE Core'
    BY <2>1, EnterKeeps
  <2>2. ASSUME NEW r \in Requests, Initialize(r) PROVE Core'
    BY <2>2, InitializeGoesOn, EarlyThrow DEF Initialize
  <2>3. ASSUME NEW r \in Requests, Register(r) PROVE Core'
    BY <2>3, TransmitKeeps, TransmitFailsKeeps, EarlyThrow DEF Register
  <2>4. ASSUME NEW r \in Requests, Abort(r) PROVE Core'
    BY <2>4, AbortKeeps
  <2>5. ASSUME NEW a \in Attempts, Reply(a) \/ TimerFires(a) PROVE Core'
    BY <2>5, HandleReplyKeeps, TimerFiresKeeps
  <2>6. CASE Cleanup  BY <2>6, CleanupKeeps
  <2>7. CASE Tick  BY <2>7, TickKeeps
  <2>8. CASE RejectAll  BY <2>8, RejectAllKeeps
  <2>9. CASE ChannelLost \/ Close \/ Cancelled \/ Closed \/ UNCHANGED vars
    BY <2>9, CoreUnchanged DEF ChannelLost, Close, Cancelled, Closed, vars
  <2> QED BY <2>1, <2>2, <2>3, <2>4, <2>5, <2>6, <2>7, <2>8, <2>9 DEF Next
<1> QED BY <1>1, <1>2 DEF IInv, TypeOK, Core

LEMMA Invariance ==
  ASSUME OwnIds
  PROVE  Spec => []IInv
<1>1. Init => IInv  BY InitEstablishes
<1>2. IInv /\ [Next]_vars => IInv'  BY NextKeeps
<1> QED BY <1>1, <1>2, PTL DEF Spec

(* Type correctness of the client. *)
THEOREM ClientTypeCorrect ==
  ASSUME OwnIds
  PROVE  Spec => []TypeOK
<1>1. IInv => TypeOK  BY DEF IInv
<1> QED BY <1>1, Invariance, PTL

(* No entry stands for a settled promise, or lacks a timer. *)
THEOREM ClientEntriesAreLive ==
  ASSUME OwnIds
  PROVE  Spec => []EntriesAreLive
<1>1. IInv => EntriesAreLive  BY Consequences
<1> QED BY <1>1, Invariance, PTL

(* An attempt that waits always has its timer: no send() is left hanging.  *)
THEOREM ClientOrphansNobody ==
  ASSUME OwnIds
  PROVE  Spec => []NoCallOrphaned
<1>1. IInv => NoCallOrphaned  BY Consequences
<1> QED BY <1>1, Invariance, PTL

(* No timer outlives the attempt it belongs to. *)
THEOREM ClientLeavesNoTimer ==
  ASSUME OwnIds
  PROVE  Spec => []NoStrayTimer
<1>1. IInv => NoStrayTimer  BY Consequences
<1> QED BY <1>1, Invariance, PTL

-----------------------------------------------------------------------------
(* The contract of send() *)

(* Outcomes change only for calls in progress, to a reply only if served.  *)
OutcomeStep ==
  /\ UNCHANGED served
  /\ \A r \in Requests : pc'[r] = "idle" <=> pc[r] = "idle"
  /\ \A r \in Requests : result'[r] # result[r] =>
       /\ pc[r] \notin {"idle", "done"}
       /\ result'[r] = "reply" => r \in served

(* Such a step is a step of the contract. *)
LEMMA OutcomeStepSettles ==
  ASSUME IInv, TypeOK', OutcomeStep
  PROVE  Contract!Settle
<1>1. result' \in [Requests -> (Results \ {"none", "reply"}) \cup {"reply", "none"}]
  BY DEF TypeOK, CallTypes
<1>2. ASSUME NEW r \in Requests, result'[r] # result[r]
      PROVE  Contract!Active(r) /\ (result'[r] = "reply" => r \in served)
  BY <1>2 DEF OutcomeStep, Contract!Active, IInv, ProgressConsistent
<1>3. {r \in Requests : pc'[r] # "idle"} = {r \in Requests : pc[r] # "idle"}
  BY DEF OutcomeStep
<1> QED BY <1>1, <1>2, <1>3 DEF Contract!Settle, OutcomeStep

(* Rejecting, throwing and answering are such steps. *)
LEMMA RejectIsOutcome ==
  ASSUME CallTypes, NEW S, NEW how \in Results \ {"none", "reply"}, NEW retryable,
         Reject(S, how, retryable), UNCHANGED served
  PROVE  OutcomeStep
BY DEF Reject, OutcomeStep, CallTypes

LEMMA ThrowIsOutcome ==
  ASSUME CallTypes, NEW r \in Requests, NEW retryable, Throw(r, retryable),
         pc[r] \notin {"idle", "done"}, UNCHANGED served
  PROVE  OutcomeStep
BY DEF Throw, OutcomeStep, CallTypes

LEMMA ReplyIsOutcome ==
  ASSUME IInv, NEW a \in Attempts, Reply(a)
  PROVE  OutcomeStep
<1>1. CallTypes  BY DEF IInv, TypeOK
<1> DEFINE o == pending[IdOf(a)]
<1>2. UNCHANGED served /\ o # None  BY DEF Reply, HandleReply
<1>3. o \in Attempts /\ Waiting(o)
  BY <1>2, AttemptFacts, OwnerFacts DEF IInv
<1>4. o[1] \in Requests /\ pc[o[1]] = "waiting"  BY <1>3, AttemptFacts DEF Waiting
<1>5. o[1] \in served  BY <1>4 DEF IInv, ProgressConsistent
<1> HIDE DEF o
<1>6. CASE HandleReply(a, "reply", FALSE)
  <2>1. /\ pc' = [pc EXCEPT ![o[1]] = "done"]
        /\ result' = [result EXCEPT ![o[1]] = "reply"]
    BY <1>3, <1>6 DEF HandleReply, o
  <2> QED BY <1>1, <1>2, <1>4, <1>5, <2>1 DEF OutcomeStep, CallTypes
<1>7. ASSUME NEW retryable \in BOOLEAN, HandleReply(a, "remoteError", retryable)
      PROVE  OutcomeStep
  <2>1. Reject({o}, "remoteError", retryable)  BY <1>7 DEF HandleReply, o
  <2>2. "remoteError" \in Results \ {"none", "reply"}  BY DEF Results
  <2> QED BY <1>1, <1>2, <2>1, <2>2, RejectIsOutcome
<1> QED BY <1>6, <1>7 DEF Reply

(* Making a call and sending its message are steps of the contract. *)
LEMMA SendCalls ==
  ASSUME CallTypes, NEW r \in Requests, Send(r)
  PROVE  Contract!Call(r)
<1>1. {q \in Requests : pc'[q] # "idle"} = {q \in Requests : pc[q] # "idle"} \cup {r}
  BY DEF Send, Enter, CallTypes
<1>2. r \notin {q \in Requests : pc[q] # "idle"}  BY DEF Send
<1> QED BY <1>1, <1>2 DEF Contract!Call, Send

LEMMA TransmitServes ==
  ASSUME IInv, NEW r \in Requests, Transmit(r)
  PROVE  Contract!Serve(r)
<1>1. pc[r] = "ready" /\ pc' = [pc EXCEPT ![r] = "waiting"]
  BY DEF Transmit, CanTransmit
<1>2. {q \in Requests : pc'[q] # "idle"} = {q \in Requests : pc[q] # "idle"}
  BY <1>1 DEF IInv, TypeOK, CallTypes
<1>3. Contract!Active(r)
  BY <1>1 DEF Contract!Active, IInv, ProgressConsistent
<1> QED BY <1>2, <1>3 DEF Contract!Serve, Transmit

(* A step that moves a call along, or none. *)
LEMMA QuietIsOutcome ==
  ASSUME CallTypes, UNCHANGED << result, served >>,
         \A r \in Requests : pc'[r] = "idle" <=> pc[r] = "idle"
  PROVE  OutcomeStep
BY DEF OutcomeStep

(* Every step is a step of the contract, or stutters. *)
LEMMA StepsKeepContract ==
  ASSUME IInv, TypeOK', [Next]_vars
  PROVE  [Contract!Next]_(Contract!vars)
<1>1. CallTypes  BY DEF IInv, TypeOK
<1>2. ASSUME OutcomeStep PROVE Contract!Next
  BY <1>2, OutcomeStepSettles DEF Contract!Next
<1>3. ASSUME NEW r \in Requests, Send(r) PROVE Contract!Next
  BY <1>1, <1>3, SendCalls DEF Contract!Next
<1>4. ASSUME NEW r \in Requests, Transmit(r) PROVE Contract!Next
  BY <1>4, TransmitServes DEF Contract!Next
<1>5. ASSUME NEW r \in Requests, Retry(r) PROVE OutcomeStep
  BY <1>1, <1>5, QuietIsOutcome DEF Retry, Enter, CallTypes
<1>6. ASSUME NEW r \in Requests,
             ChannelCreated(r) \/ QueueAsserted(r) \/ ConsumeAccepted(r) \/ Initialized(r)
      PROVE  OutcomeStep
  BY <1>1, <1>6, QuietIsOutcome
     DEF ChannelCreated, QueueAsserted, ConsumeAccepted, Initialized, CallTypes
<1>7. ASSUME NEW r \in Requests,
             ConsumeRefused(r) \/ InitializeFails(r) \/ NotReady(r) \/ TransmitFails(r)
      PROVE  OutcomeStep
  <2>1. PICK retryable \in BOOLEAN : Throw(r, retryable)
    BY <1>7 DEF ConsumeRefused, InitializeFails, NotReady, TransmitFails
  <2>2. pc[r] \notin {"idle", "done"} /\ UNCHANGED served
    BY <1>7 DEF ConsumeRefused, InitializeFails, NotReady, TransmitFails, CanTransmit
  <2> QED BY <1>1, <2>1, <2>2, ThrowIsOutcome
<1>8. ASSUME NEW r \in Requests, Abort(r) PROVE OutcomeStep
  <2>1. "aborted" \in Results \ {"none", "reply"}  BY DEF Results
  <2> QED BY <1>1, <1>8, <2>1, RejectIsOutcome DEF Abort
<1>9. ASSUME NEW a \in Attempts, TimerFires(a) PROVE OutcomeStep
  <2>1. "timeout" \in Results \ {"none", "reply"}  BY DEF Results
  <2> QED BY <1>1, <1>9, <2>1, RejectIsOutcome DEF TimerFires
<1>10. ASSUME NEW a \in Attempts, Reply(a) PROVE OutcomeStep
  BY <1>10, ReplyIsOutcome
<1>11. CASE Cleanup
  <2>1. "timeout" \in Results \ {"none", "reply"}  BY DEF Results
  <2> QED BY <1>1, <1>2, <1>11, <2>1, RejectIsOutcome DEF Cleanup
<1>12. CASE RejectAll
  <2>1. "closing" \in Results \ {"none", "reply"}  BY DEF Results
  <2> QED BY <1>1, <1>2, <1>12, <2>1, RejectIsOutcome DEF RejectAll
<1>13. CASE Tick \/ ChannelLost \/ Close \/ Cancelled \/ Closed \/ UNCHANGED vars
  <2>1. UNCHANGED callVars
    BY <1>13 DEF Tick, ChannelLost, Close, Cancelled, Closed, vars
  <2> QED BY <1>1, <1>2, <2>1, QuietIsOutcome DEF callVars
<1> QED
  BY <1>2, <1>3, <1>4, <1>5, <1>6, <1>7, <1>8, <1>9, <1>10, <1>11, <1>12, <1>13
  DEF Next, Initialize, Register

(* The client implements the contract: every call settles at most once,    *)
(* for good, and with a reply only after a message for it was sent.        *)
THEOREM ClientImplementsContract ==
  ASSUME OwnIds
  PROVE  Spec => Contract!Spec
<1>1. Init => Contract!Init
  BY DEF Init, Contract!Init
<1>2. IInv /\ IInv' /\ [Next]_vars => [Contract!Next]_(Contract!vars)
  BY StepsKeepContract DEF IInv
<1> QED BY <1>1, <1>2, Invariance, PTL DEF Spec, Contract!Spec
=============================================================================
