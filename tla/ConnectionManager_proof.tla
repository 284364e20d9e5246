------------------------ MODULE ConnectionManager_proof ------------------------
(***************************************************************************)
(* Proofs about the connection manager, for any number of getConnection()  *)
(* calls, any retry configuration and any breaker.  The breaker's own      *)
(* variables take no part in the inductive invariant: what is needed of    *)
(* the breaker is that every step drives it by one of its actions.         *)
(***************************************************************************)
EXTENDS ConnectionManager, FiniteSetTheorems, TLAPS

Closing == {k \in Callers : conn[k] = "closing"}

(* The types of the manager's own variables. *)
ManagerTypes ==
  /\ policy \in {"off", "default", "custom"}
  /\ connection \in Callers \cup {None}
  /\ isConnecting \in BOOLEAN
  /\ isClosed \in BOOLEAN
  /\ listeners \subseteq Callers
  /\ pc \in [Callers -> PCs]
  /\ conn \in [Callers -> {"down", "live", "closing"}]

(* isConnecting is set only while an attempt is in progress.               *)
ConnectingMeansDialing == isConnecting => Dialing # {}

(* Handlers are attached for waiting calls, while an attempt will run them. *)
ListenersAreWaiting ==
  /\ \A c \in listeners : pc[c] = "waiting"
  /\ listeners # {} => Dialing # {}

(* Without a retry policy no call sleeps, and the one that dials does so   *)
(* under isConnecting, with no connection there.                           *)
OneDials ==
  policy = "off" =>
    /\ \A c, d \in Dialing : c = d
    /\ Dialing # {} => isConnecting /\ connection = None
    /\ \A c \in Callers : pc[c] # "backoff"

(* ... and the only connection open is the one held, until close().        *)
HeldOrNone ==
  policy = "off" =>
    /\ Live \subseteq {connection}
    /\ Closing # {} => Dialing = {} /\ Live = {}

(* Connections are only closed by close(). *)
ClosingMeansClosed == Closing # {} => isClosed

IInv ==
  /\ ManagerTypes
  /\ ConnectingMeansDialing
  /\ ListenersAreWaiting
  /\ WaitersWillWake
  /\ HeldIsUp
  /\ OneDials
  /\ HeldOrNone
  /\ ClosingMeansClosed

-----------------------------------------------------------------------------
(* The initial states satisfy the invariant. *)
LEMMA InitEstablishes == Init => IInv
<1> SUFFICES ASSUME Init PROVE IInv  OBVIOUS
<1>1. Dialing = {} /\ Live = {} /\ Closing = {}
  BY DEF Init, Dialing, Live, Closing
<1> QED BY <1>1 DEF Init, IInv, ManagerTypes, ConnectingMeansDialing,
     ListenersAreWaiting, WaitersWillWake, HeldIsUp, OneDials, HeldOrNone,
     ClosingMeansClosed, PCs

(* Waking the listeners moves nobody but them. *)
LEMMA WakeFacts ==
  ASSUME NEW o \in Settled, NEW f \in [Callers -> PCs]
  PROVE  /\ Wake(o, f) \in [Callers -> PCs]
         /\ \A c \in Callers : c \in listeners => Wake(o, f)[c] = o
         /\ \A c \in Callers : c \notin listeners => Wake(o, f)[c] = f[c]
BY DEF Wake, Settled, PCs

(* A call that does not dial: it is refused, served, or waits. *)
LEMMA TakesOrWaitsKeeps ==
  ASSUME IInv, NEW c \in Callers, GetConnection(c),
         Refuse(c) \/ TakeHeld(c) \/ Wait(c)
  PROVE  IInv'
<1>1. pc[c] = "idle" /\ UNCHANGED << policy, connection, isClosed, conn >>
  BY DEF GetConnection
<1>2. isConnecting' = isConnecting  BY DEF Refuse, TakeHeld, Wait
<1>3. PICK p \in {"failed", "served", "waiting"} : pc' = [pc EXCEPT ![c] = p]
  BY DEF Refuse, TakeHeld, Wait
<1>4. Dialing' = Dialing /\ Live' = Live /\ Closing' = Closing
  BY <1>1, <1>3 DEF IInv, ManagerTypes, Dialing, Live, Closing
<1>5. c \notin listeners  BY <1>1 DEF IInv, ListenersAreWaiting
<1>6. ManagerTypes'
  BY <1>1, <1>2, <1>3 DEF IInv, ManagerTypes, PCs, Refuse, TakeHeld, Wait
<1>7. ListenersAreWaiting' /\ WaitersWillWake'
  <2>1. CASE Wait(c)
    BY <1>1, <1>4, <2>1
    DEF Wait, IInv, ManagerTypes, ListenersAreWaiting, WaitersWillWake,
        ConnectingMeansDialing
  <2>2. CASE Refuse(c) \/ TakeHeld(c)
    BY <1>1, <1>4, <1>5, <2>2
    DEF Refuse, TakeHeld, IInv, ManagerTypes, ListenersAreWaiting, WaitersWillWake
  <2> QED BY <2>1, <2>2
<1>8. ConnectingMeansDialing' /\ HeldIsUp' /\ OneDials'
  BY <1>1, <1>2, <1>3, <1>4
  DEF IInv, ManagerTypes, ConnectingMeansDialing, HeldIsUp, OneDials
<1>9. HeldOrNone' /\ ClosingMeansClosed'
  BY <1>1, <1>4 DEF IInv, HeldOrNone, ClosingMeansClosed
<1> QED BY <1>6, <1>7, <1>8, <1>9 DEF IInv

(* A call that connects finds no attempt in progress that counts. *)
LEMMA ConnectKeeps ==
  ASSUME IInv, NEW c \in Callers, GetConnection(c), Connect(c)
  PROVE  IInv'
<1>1. /\ pc[c] = "idle"
      /\ UNCHANGED << policy, connection, isClosed, conn, listeners >>
      /\ ~isClosed /\ connection = None /\ ~isConnecting
      /\ isConnecting' = TRUE
      /\ pc' = [pc EXCEPT ![c] = "dialing"]
  BY DEF GetConnection, Connect, Dial
<1>2. Dialing' = Dialing \cup {c} /\ Live' = Live /\ Closing' = Closing
  BY <1>1 DEF IInv, ManagerTypes, Dialing, Live, Closing
<1>3. policy = "off" => Dialing = {}  BY <1>1 DEF IInv, OneDials
<1>4. c \notin listeners  BY <1>1 DEF IInv, ListenersAreWaiting
<1>5. ManagerTypes'  BY <1>1 DEF IInv, ManagerTypes, PCs
<1>6. ListenersAreWaiting' /\ WaitersWillWake' /\ ConnectingMeansDialing'
  BY <1>1, <1>2, <1>4
  DEF IInv, ManagerTypes, ListenersAreWaiting, WaitersWillWake, ConnectingMeansDialing
<1>7. HeldIsUp' /\ OneDials'
  BY <1>1, <1>2, <1>3 DEF IInv, ManagerTypes, HeldIsUp, OneDials
<1>8. HeldOrNone' /\ ClosingMeansClosed'
  BY <1>1, <1>2 DEF IInv, HeldOrNone, ClosingMeansClosed
<1> QED BY <1>5, <1>6, <1>7, <1>8 DEF IInv

(* A connection is adopted; whoever waited is served. *)
LEMMA ConnectedKeeps ==
  ASSUME IInv, NEW c \in Callers, Connected(c)
  PROVE  IInv'
<1>1. /\ pc[c] = "dialing"
      /\ UNCHANGED << policy, isClosed >>
      /\ connection' = c /\ isConnecting' = FALSE /\ listeners' = {}
      /\ conn' = [conn EXCEPT ![c] = "live"]
      /\ pc' = Wake("served", [pc EXCEPT ![c] = "served"])
  BY DEF Connected
<1> DEFINE f == [pc EXCEPT ![c] = "served"]
<1>2. f \in [Callers -> PCs] /\ "served" \in Settled
  BY DEF IInv, ManagerTypes, PCs, Settled
<1>3. /\ pc' \in [Callers -> PCs]
      /\ \A d \in Callers : d \in listeners => pc'[d] = "served"
      /\ \A d \in Callers : d \notin listeners => pc'[d] = f[d]
  <2> HIDE DEF f
  <2> QED BY <1>1, <1>2, WakeFacts DEF f
<1>4. Dialing' = Dialing \ {c}
  BY <1>1, <1>3 DEF IInv, ManagerTypes, Dialing, ListenersAreWaiting
<1>5. c \in Dialing  BY <1>1 DEF Dialing
<1>6. ManagerTypes'  BY <1>1, <1>3 DEF IInv, ManagerTypes
<1>7. ListenersAreWaiting' /\ WaitersWillWake' /\ ConnectingMeansDialing'
  BY <1>1, <1>3
  DEF IInv, ManagerTypes, ListenersAreWaiting, WaitersWillWake, ConnectingMeansDialing
<1>8. HeldIsUp'  BY <1>1 DEF IInv, ManagerTypes, HeldIsUp
<1>9. ASSUME policy = "off"
      PROVE  /\ Dialing' = {}
             /\ Live' = {c}
             /\ Closing' = {}
             /\ \A d \in Callers : pc'[d] # "backoff"
  <2>1. connection = None  BY <1>5, <1>9 DEF IInv, OneDials
  <2>2. Live = {}  BY <1>9, <2>1, ManagerAssumption DEF IInv, HeldOrNone, Live
  <2>3. Live' = {c}  BY <1>1, <2>2 DEF IInv, ManagerTypes, Live
  <2>4. Closing = {}  BY <1>5, <1>9 DEF IInv, HeldOrNone
  <2>5. Dialing' = {}  BY <1>4, <1>5, <1>9 DEF IInv, OneDials
  <2>6. Closing' = {}  BY <1>1, <2>4 DEF IInv, ManagerTypes, Closing
  <2>7. \A d \in Callers : pc'[d] # "backoff"
    BY <1>3, <1>9 DEF IInv, ManagerTypes, OneDials
  <2> QED BY <2>3, <2>5, <2>6, <2>7
<1>10. OneDials' /\ HeldOrNone'
  BY <1>1, <1>9 DEF OneDials, HeldOrNone
<1>11. ClosingMeansClosed'
  BY <1>1 DEF IInv, ManagerTypes, ClosingMeansClosed, Closing
<1> QED BY <1>6, <1>7, <1>8, <1>10, <1>11 DEF IInv

(* An attempt fails; whoever waited fails with it. *)
LEMMA AttemptFailsKeeps ==
  ASSUME IInv, NEW c \in Callers, AttemptFails(c)
  PROVE  IInv'
<1>1. /\ pc[c] = "dialing"
      /\ UNCHANGED << policy, connection, isClosed, conn >>
      /\ isConnecting' = FALSE /\ listeners' = {}
      /\ pc' = Wake("failed", [pc EXCEPT ![c] = "failing"])
  BY DEF AttemptFails
<1> DEFINE f == [pc EXCEPT ![c] = "failing"]
<1>2. f \in [Callers -> PCs] /\ "failed" \in Settled
  BY DEF IInv, ManagerTypes, PCs, Settled
<1>3. /\ pc' \in [Callers -> PCs]
      /\ \A d \in Callers : d \in listeners => pc'[d] = "failed"
      /\ \A d \in Callers : d \notin listeners => pc'[d] = f[d]
  <2> HIDE DEF f
  <2> QED BY <1>1, <1>2, WakeFacts DEF f
<1>4. Dialing' = Dialing \ {c} /\ Live' = Live /\ Closing' = Closing
  <2>1. Live' = Live /\ Closing' = Closing  BY <1>1 DEF Live, Closing
  <2>2. \A d \in Callers : d # c => (pc'[d] = "dialing" <=> pc[d] = "dialing")
    BY <1>3 DEF IInv, ManagerTypes, ListenersAreWaiting
  <2>3. pc'[c] # "dialing"  BY <1>1, <1>3 DEF IInv, ManagerTypes
  <2> QED BY <2>1, <2>2, <2>3 DEF Dialing
<1>5. c \in Dialing  BY <1>1 DEF Dialing
<1>6. ManagerTypes'  BY <1>1, <1>3 DEF IInv, ManagerTypes
<1>7. ListenersAreWaiting' /\ WaitersWillWake' /\ ConnectingMeansDialing'
  BY <1>1, <1>3
  DEF IInv, ManagerTypes, ListenersAreWaiting, WaitersWillWake, ConnectingMeansDialing
<1>8. policy = "off" => Dialing' = {}  BY <1>4, <1>5 DEF IInv, OneDials
<1>9. \A d \in Callers : pc[d] # "backoff" => pc'[d] # "backoff"
  BY <1>1, <1>3 DEF IInv, ManagerTypes
<1>10. HeldIsUp' /\ OneDials' /\ HeldOrNone'
  BY <1>1, <1>4, <1>8, <1>9 DEF IInv, HeldIsUp, OneDials, HeldOrNone
<1>11. ClosingMeansClosed'  BY <1>1, <1>4 DEF IInv, ClosingMeansClosed
<1> QED BY <1>6, <1>7, <1>10, <1>11 DEF IInv

(* A failed attempt is given up, sleeps, or is tried again. *)
LEMMA RetryStepKeeps ==
  ASSUME IInv, NEW c \in Callers, GiveUp(c) \/ Sleep(c) \/ Redial(c)
  PROVE  IInv'
<1>1. UNCHANGED << policy, connection, isClosed, listeners, conn >>
  BY DEF GiveUp, Sleep, Redial
<1>2. pc[c] \in {"failing", "backoff"}  BY DEF GiveUp, Sleep, Redial
<1>3. PICK p \in {"failed", "backoff", "dialing"} : pc' = [pc EXCEPT ![c] = p]
  BY DEF GiveUp, Sleep, Redial, Dial
<1>4. /\ isConnecting' \in BOOLEAN
      /\ isConnecting' => isConnecting
      /\ policy = "off" => isConnecting' = isConnecting
  <2>1. isConnecting \in BOOLEAN  BY DEF IInv, ManagerTypes
  <2>2. CASE GiveUp(c)
    <3>1. CASE policy = "off"
      <4>1. isConnecting' = isConnecting  BY <2>2, <3>1 DEF GiveUp
      <4> QED BY <2>1, <4>1
    <3>2. CASE policy # "off"
      <4>1. isConnecting' = FALSE  BY <2>2, <3>2 DEF GiveUp
      <4> QED BY <3>2, <4>1
    <3> QED BY <3>1, <3>2
  <2>3. CASE Sleep(c) \/ Redial(c)
    <3>1. isConnecting' = isConnecting  BY <2>3 DEF Sleep, Redial
    <3> QED BY <2>1, <3>1
  <2> QED BY <2>2, <2>3
<1>5. Dialing \subseteq Dialing' /\ Live' = Live /\ Closing' = Closing
  BY <1>1, <1>2, <1>3 DEF IInv, ManagerTypes, Dialing, Live, Closing
<1>6. policy = "off" => Dialing' = Dialing /\ pc'[c] # "backoff"
  <2>1. policy = "off" => pc[c] # "backoff"  BY DEF IInv, OneDials
  <2>2. policy = "off" => pc' = [pc EXCEPT ![c] = "failed"]
    BY <2>1 DEF GiveUp, Sleep, Redial, ShouldRetry
  <2> QED BY <1>2, <2>2 DEF IInv, ManagerTypes, Dialing
<1>7. c \notin listeners  BY <1>2 DEF IInv, ListenersAreWaiting
<1>8. ManagerTypes'  BY <1>1, <1>3, <1>4 DEF IInv, ManagerTypes, PCs
<1>9. ListenersAreWaiting' /\ WaitersWillWake' /\ ConnectingMeansDialing'
  BY <1>1, <1>3, <1>4, <1>5, <1>7
  DEF IInv, ManagerTypes, ListenersAreWaiting, WaitersWillWake, ConnectingMeansDialing
<1>10. HeldIsUp'  BY <1>1 DEF IInv, HeldIsUp
<1>11. OneDials'
  BY <1>1, <1>3, <1>4, <1>6 DEF IInv, ManagerTypes, OneDials
<1>12. HeldOrNone' /\ ClosingMeansClosed'
  BY <1>1, <1>5, <1>6 DEF IInv, HeldOrNone, ClosingMeansClosed
<1> QED BY <1>8, <1>9, <1>10, <1>11, <1>12 DEF IInv

(* A connection ends, by itself or by close(). *)
LEMMA ConnectionEndsKeeps ==
  ASSUME IInv, NEW k \in Callers, ConnectionEnds(k)
  PROVE  IInv'
<1>1. /\ conn[k] # "down"
      /\ conn' = [conn EXCEPT ![k] = "down"]
      /\ connection' = None
      /\ UNCHANGED << policy, isConnecting, isClosed >>
  BY DEF ConnectionEnds, OnClose
<1>2. /\ pc' \in [Callers -> PCs]
      /\ \A d \in Callers : pc'[d] = pc[d] \/ (d \in listeners /\ pc'[d] = "failed")
      /\ listeners' = {} \/ (listeners' = listeners /\ pc' = pc)
      /\ \A d \in Callers : d \in listeners /\ d \notin listeners' =>
           pc'[d] = "failed" \/ conn[k] = "closing"
  <2>1. pc \in [Callers -> PCs] /\ "failed" \in Settled
    BY DEF IInv, ManagerTypes, Settled
  <2>2. /\ Wake("failed", pc) \in [Callers -> PCs]
        /\ \A d \in Callers : d \in listeners => Wake("failed", pc)[d] = "failed"
        /\ \A d \in Callers : d \notin listeners => Wake("failed", pc)[d] = pc[d]
    BY <2>1, WakeFacts
  <2> QED BY <2>1, <2>2 DEF ConnectionEnds
<1>3. Dialing' = Dialing
  BY <1>2 DEF IInv, ListenersAreWaiting, Dialing
<1>4. Live' = Live \ {k} /\ Closing' = Closing \ {k}
  BY <1>1 DEF IInv, ManagerTypes, Live, Closing
<1>5. ManagerTypes'  BY <1>1, <1>2 DEF IInv, ManagerTypes
<1>6. conn[k] = "closing" => isClosed
  BY DEF IInv, ClosingMeansClosed, Closing
<1>7. ListenersAreWaiting' /\ WaitersWillWake' /\ ConnectingMeansDialing'
  BY <1>1, <1>2, <1>3, <1>6
  DEF IInv, ListenersAreWaiting, WaitersWillWake, ConnectingMeansDialing
<1>8. HeldIsUp'  BY <1>1 DEF HeldIsUp
<1>9. OneDials'
  BY <1>1, <1>2, <1>3 DEF IInv, OneDials
<1>10. HeldOrNone'
  <2> SUFFICES ASSUME policy = "off"
               PROVE  Live' = {} /\ (Closing' # {} => Dialing' = {})
    BY <1>1 DEF HeldOrNone
  <2>1. k \in Live \/ k \in Closing
    BY <1>1 DEF IInv, ManagerTypes, Live, Closing
  <2> QED BY <1>3, <1>4, <2>1 DEF IInv, HeldOrNone
<1>11. ClosingMeansClosed'  BY <1>1, <1>4 DEF IInv, ClosingMeansClosed
<1> QED BY <1>5, <1>7, <1>8, <1>9, <1>10, <1>11 DEF IInv

(* close(): the connection held is closed first, or there is none. *)
LEMMA CloseKeeps ==
  ASSUME IInv, Close
  PROVE  IInv'
<1>1. isClosed' = TRUE /\ UNCHANGED << policy, isConnecting, pc >>
  BY DEF Close
<1>2. Dialing' = Dialing  BY <1>1 DEF Dialing
<1>3. ASSUME CloseHeld PROVE IInv'
  <2>1. /\ connection \in Callers
        /\ conn[connection] = "live"
        /\ conn' = [conn EXCEPT ![connection] = "closing"]
        /\ UNCHANGED << connection, listeners >>
    BY <1>3 DEF CloseHeld, IInv, ManagerTypes
  <2>2. Live' = Live \ {connection} /\ Closing' = Closing \cup {connection}
    BY <2>1 DEF IInv, ManagerTypes, Live, Closing
  <2>3. ManagerTypes'  BY <1>1, <2>1 DEF IInv, ManagerTypes
  <2>4. ListenersAreWaiting' /\ WaitersWillWake' /\ ConnectingMeansDialing'
    BY <1>1, <1>2, <2>1
    DEF IInv, ListenersAreWaiting, WaitersWillWake, ConnectingMeansDialing
  <2>5. HeldIsUp' /\ ClosingMeansClosed'
    BY <1>1, <2>1 DEF IInv, ManagerTypes, HeldIsUp, ClosingMeansClosed
  <2>6. OneDials'  BY <1>1, <1>2, <2>1 DEF IInv, OneDials
  <2>7. HeldOrNone'
    <3> SUFFICES ASSUME policy = "off" PROVE Dialing = {} /\ Live' = {}
      BY <1>1, <1>2 DEF HeldOrNone
    <3>1. Dialing = {}  BY <2>1, ManagerAssumption DEF IInv, OneDials
    <3> QED BY <2>2, <3>1 DEF IInv, HeldOrNone
  <2> QED BY <2>3, <2>4, <2>5, <2>6, <2>7 DEF IInv
<1>4. ASSUME CloseNow PROVE IInv'
  <2>1. /\ connection # None => conn[connection] # "live"
        /\ connection' = None /\ listeners' = {} /\ conn' = conn
    BY <1>4 DEF CloseNow
  <2>2. Live' = Live /\ Closing' = Closing  BY <2>1 DEF Live, Closing
  <2>3. ManagerTypes'  BY <1>1, <2>1 DEF IInv, ManagerTypes
  <2>4. ListenersAreWaiting' /\ WaitersWillWake' /\ ConnectingMeansDialing'
    BY <1>1, <1>2, <2>1
    DEF IInv, ListenersAreWaiting, WaitersWillWake, ConnectingMeansDialing
  <2>5. HeldIsUp' /\ ClosingMeansClosed'
    BY <1>1, <2>1, <2>2 DEF HeldIsUp, ClosingMeansClosed
  <2>6. OneDials'  BY <1>1, <1>2, <2>1 DEF IInv, OneDials
  <2>7. HeldOrNone'
    <3> SUFFICES ASSUME policy = "off" PROVE Live = {}
      BY <1>1, <1>2, <2>2 DEF IInv, HeldOrNone
    <3>1. connection \notin Live
      BY <2>1, ManagerAssumption DEF Live
    <3> QED BY <3>1 DEF IInv, HeldOrNone
  <2> QED BY <2>3, <2>4, <2>5, <2>6, <2>7 DEF IInv
<1> QED BY <1>3, <1>4 DEF Close

(* A step that leaves the manager's variables alone. *)
LEMMA ElsewhereKeeps ==
  ASSUME IInv, UNCHANGED managerVars
  PROVE  IInv'
<1>1. /\ UNCHANGED << policy, connection, isConnecting, isClosed, listeners, pc, conn >>
      /\ Dialing' = Dialing /\ Live' = Live /\ Closing' = Closing
  BY DEF managerVars, Dialing, Live, Closing
<1> QED BY <1>1 DEF IInv, ManagerTypes, ConnectingMeansDialing, ListenersAreWaiting,
     WaitersWillWake, HeldIsUp, OneDials, HeldOrNone, ClosingMeansClosed

(* Every step keeps the invariant. *)
LEMMA NextKeeps == IInv /\ [Next]_vars => IInv'
<1> SUFFICES ASSUME IInv, [Next]_vars PROVE IInv'  OBVIOUS
<1>1. ASSUME NEW c \in Callers, GetConnection(c) PROVE IInv'
  BY <1>1, TakesOrWaitsKeeps, ConnectKeeps DEF GetConnection
<1>2. ASSUME NEW c \in Callers, Connected(c) PROVE IInv'
  BY <1>2, ConnectedKeeps
<1>3. ASSUME NEW c \in Callers, AttemptFails(c) PROVE IInv'
  BY <1>3, AttemptFailsKeeps
<1>4. ASSUME NEW c \in Callers, GiveUp(c) \/ Sleep(c) \/ Redial(c) PROVE IInv'
  BY <1>4, RetryStepKeeps
<1>5. ASSUME NEW c \in Callers, ConnectionEnds(c) PROVE IInv'
  BY <1>5, ConnectionEndsKeeps
<1>6. CASE Close  BY <1>6, CloseKeeps
<1>7. CASE ResetCircuitBreaker \/ Environment \/ UNCHANGED vars
  BY <1>7, ElsewhereKeeps DEF ResetCircuitBreaker, Environment, vars
<1> QED BY <1>1, <1>2, <1>3, <1>4, <1>5, <1>6, <1>7 DEF Next

LEMMA Invariance == Spec => []IInv
<1> QED BY InitEstablishes, NextKeeps, PTL DEF Spec

-----------------------------------------------------------------------------
(* A getConnection() call that waits has an attempt in progress to wake    *)
(* it, unless the manager was closed.                                      *)
THEOREM ManagerWakesWaiters == Spec => []WaitersWillWake
<1>1. IInv => WaitersWillWake  BY DEF IInv
<1> QED BY <1>1, Invariance, PTL

(* The connection held is never one that has ended, although the events of *)
(* any older connection act on it.                                         *)
THEOREM ManagerHoldsLiveConnection == Spec => []HeldIsUp
<1>1. IInv => HeldIsUp  BY DEF IInv
<1> QED BY <1>1, Invariance, PTL

(* Without a retry policy one call connects at a time and no connection    *)
(* escapes the manager.                                                    *)
THEOREM ManagerSingleFlight == Spec => []SingleFlight
<1>1. IInv => SingleFlight
  <2> SUFFICES ASSUME IInv, policy = "off"
               PROVE  Cardinality(Dialing) <= 1 /\ Live \subseteq {connection}
    BY DEF SingleFlight
  <2>1. \A c, d \in Dialing : c = d  BY DEF IInv, OneDials
  <2>2. CASE Dialing = {}  BY <2>2, FS_EmptySet DEF IInv, HeldOrNone
  <2>3. CASE Dialing # {}
    <3>1. PICK c \in Dialing : TRUE  BY <2>3
    <3>2. Dialing = {c}  BY <2>1, <3>1
    <3> QED BY <3>2, FS_Singleton DEF IInv, HeldOrNone
  <2> QED BY <2>2, <2>3
<1> QED BY <1>1, Invariance, PTL

(* The manager drives its breaker only by the breaker's own steps: what is *)
(* proved of the breaker alone holds of it here.                           *)
LEMMA ManagerUsesBreaker == Spec => Breaker!Spec
<1>1. Init => Breaker!Init  BY DEF Init
<1>2. [Next]_vars => [Breaker!Next]_(Breaker!vars)
  <2> SUFFICES ASSUME [Next]_vars PROVE [Breaker!Next]_(Breaker!vars)  OBVIOUS
  <2>1. ASSUME NEW c \in Callers, Dial(c) PROVE [Breaker!Next]_(Breaker!vars)
    BY <2>1 DEF Dial, Breaker!Next, Breaker!vars, breakerVars
  <2>2. ASSUME NEW c \in Callers, Connected(c) \/ AttemptFails(c)
        PROVE  [Breaker!Next]_(Breaker!vars)
    BY <2>2 DEF Connected, AttemptFails, Reports, Breaker!Next, Breaker!vars,
        breakerVars
  <2>3. ASSUME UNCHANGED breakerVars PROVE UNCHANGED Breaker!vars
    BY <2>3 DEF breakerVars, Breaker!vars
  <2>4. ASSUME NEW c \in Callers, GetConnection(c)
        PROVE  [Breaker!Next]_(Breaker!vars)
    BY <2>1, <2>3, <2>4 DEF GetConnection, Refuse, TakeHeld, Wait, Connect
  <2>5. ASSUME NEW c \in Callers, GiveUp(c) \/ Sleep(c) \/ ConnectionEnds(c)
        PROVE  [Breaker!Next]_(Breaker!vars)
    BY <2>3, <2>5 DEF GiveUp, Sleep, ConnectionEnds
  <2>6. ASSUME NEW c \in Callers, Redial(c) PROVE [Breaker!Next]_(Breaker!vars)
    BY <2>1, <2>6 DEF Redial
  <2>7. CASE Close \/ UNCHANGED vars
    BY <2>3, <2>7 DEF Close, vars
  <2>8. CASE ResetCircuitBreaker \/ Environment
    BY <2>8 DEF ResetCircuitBreaker, Environment, Breaker!Next
  <2> QED BY <2>2, <2>4, <2>5, <2>6, <2>7, <2>8 DEF Next
<1> QED BY <1>1, <1>2, PTL DEF Spec, Breaker!Spec

-----------------------------------------------------------------------------
(* Types, and the retries they bound *)

(* A call that dials, or will, has failed less than maxAttempts times.     *)
AttemptsLeft ==
  /\ attempt \in [Callers -> 0..MaxAttempts]
  /\ \A c \in Callers : pc[c] \in {"idle", "dialing", "backoff"} => attempt[c] < MaxAttempts

(* Those that listen are woken for good. *)
LEMMA WakeEnds ==
  ASSUME NEW outcome \in Settled, NEW f \in [Callers -> PCs],
         pc' = Wake(outcome, f)
  PROVE  \A c \in Callers : pc'[c] = f[c] \/ pc'[c] \in Settled
BY WakeFacts

LEMMA AttemptsLeftStep ==
  ASSUME ManagerTypes, AttemptsLeft, [Next]_vars
  PROVE  AttemptsLeft'
<1> USE ManagerAssumption DEF AttemptsLeft
<1>0. pc \in [Callers -> PCs] /\ {"served", "failed"} \subseteq Settled
  BY DEF ManagerTypes, Settled
<1>1. ASSUME attempt' = attempt,
             \A c \in Callers : \/ pc'[c] = pc[c]
                               \/ pc'[c] \in {"served", "failed", "waiting"}
      PROVE  AttemptsLeft'
  BY <1>1
<1>2. CASE UNCHANGED managerVars
  BY <1>1, <1>2 DEF managerVars
<1>3. ASSUME NEW c \in Callers, GetConnection(c)
      PROVE  AttemptsLeft'
  <2>1. pc[c] = "idle" /\ attempt' = attempt
    BY <1>3 DEF GetConnection
  <2>2. \E p \in PCs : pc' = [pc EXCEPT ![c] = p]
    BY <1>3 DEF GetConnection, Refuse, TakeHeld, Wait, Connect, Dial, PCs
  <2>3. QED
    BY <1>0, <2>1, <2>2
<1>4. ASSUME NEW c \in Callers, Connected(c)
      PROVE  AttemptsLeft'
  <2> DEFINE f == [pc EXCEPT ![c] = "served"]
  <2>1. attempt' = attempt /\ pc' = Wake("served", f)
    BY <1>4 DEF Connected
  <2>2. f \in [Callers -> PCs] /\ \A d \in Callers : f[d] = pc[d] \/ f[d] = "served"
    BY <1>0 DEF PCs
  <2> HIDE DEF f
  <2>3. \A d \in Callers : pc'[d] = f[d] \/ pc'[d] \in Settled
    BY <1>0, <2>1, <2>2, WakeEnds
  <2>4. QED
    BY <1>1, <2>1, <2>2, <2>3 DEF Settled
<1>5. ASSUME NEW c \in Callers, AttemptFails(c)
      PROVE  AttemptsLeft'
  <2> DEFINE f == [pc EXCEPT ![c] = "failing"]
  <2>1. /\ pc[c] = "dialing"
        /\ attempt' = [attempt EXCEPT ![c] = @ + 1]
        /\ pc' = Wake("failed", f)
    BY <1>5 DEF AttemptFails
  <2>2. /\ f \in [Callers -> PCs] /\ f[c] = "failing"
        /\ \A d \in Callers : d # c => f[d] = pc[d]
    BY <1>0 DEF PCs
  <2> HIDE DEF f
  <2>3. \A d \in Callers : pc'[d] = f[d] \/ pc'[d] \in Settled
    BY <1>0, <2>1, <2>2, WakeEnds
  <2>4. /\ attempt'[c] = attempt[c] + 1 /\ attempt[c] < MaxAttempts
        /\ attempt' \in [Callers -> 0..MaxAttempts]
        /\ \A d \in Callers : d # c => attempt'[d] = attempt[d]
    BY <2>1
  <2>5. QED
    BY <2>2, <2>3, <2>4 DEF Settled
<1>6. ASSUME NEW c \in Callers, GiveUp(c) \/ Sleep(c) \/ Redial(c)
      PROVE  AttemptsLeft'
  <2>1. CASE GiveUp(c)
    BY <1>0, <2>1 DEF GiveUp
  <2>2. CASE Sleep(c)
    BY <1>0, <2>2 DEF Sleep, ShouldRetry
  <2>3. CASE Redial(c)
    BY <1>0, <2>3 DEF Redial, Dial
  <2>4. QED
    BY <1>6, <2>1, <2>2, <2>3
<1>7. ASSUME NEW k \in Callers, ConnectionEnds(k)
      PROVE  AttemptsLeft'
  <2>1. attempt' = attempt /\ (pc' = pc \/ pc' = Wake("failed", pc))
    BY <1>7 DEF ConnectionEnds
  <2>2. \A d \in Callers : pc'[d] = pc[d] \/ pc'[d] \in Settled
    BY <1>0, <2>1, WakeEnds
  <2>3. QED
    BY <1>1, <2>1, <2>2 DEF Settled
<1>8. CASE Close
  BY <1>1, <1>8 DEF Close
<1>9. CASE ResetCircuitBreaker \/ Environment \/ UNCHANGED vars
  BY <1>2, <1>9 DEF ResetCircuitBreaker, Environment, vars
<1>10. QED
  BY <1>3, <1>4, <1>5, <1>6, <1>7, <1>8, <1>9 DEF Next

(* Every variable keeps its type: in particular the retry policy makes no  *)
(* more than maxAttempts attempts for a call, whatever reconnections and   *)
(* other calls do to it between two of them.                               *)
THEOREM ManagerTypeCorrect == Spec => []TypeOK
<1>1. Init => AttemptsLeft
  BY ManagerAssumption DEF Init, AttemptsLeft
<1>2. IInv /\ AttemptsLeft /\ [Next]_vars => AttemptsLeft'
  BY AttemptsLeftStep DEF IInv
<1>3. IInv /\ AttemptsLeft => TypeOK
  BY DEF IInv, ManagerTypes, AttemptsLeft, TypeOK
<1>4. QED
  BY <1>1, <1>2, <1>3, Invariance, PTL DEF Spec

-----------------------------------------------------------------------------
(* The breaker in its use *)

(* The proofs about the breaker, for the calls of getConnection(). *)
Proved == INSTANCE CircuitBreaker_proof WITH Calls <- Callers

(* Its steps are those of the breaker the manager drives. *)
LEMMA SameBreaker ==
  /\ Breaker!Init => Proved!Init
  /\ [Breaker!Next]_(Breaker!vars) => [Proved!Next]_(Proved!vars)
<1> USE DEF Breaker!Idle, Proved!Idle, Breaker!Done, Proved!Done, Breaker!Bump, Proved!Bump,
            Breaker!EndEpisode, Proved!EndEpisode, Breaker!Reset, Proved!Reset,
            Breaker!HalfOpenHasRoom, Proved!HalfOpenHasRoom
<1>1. Breaker!Init => Proved!Init
  BY DEF Breaker!Init, Proved!Init
<1>2. ASSUME NEW c \in Callers, Breaker!Execute(c)
      PROVE  Proved!Execute(c)
  BY <1>2 DEF Breaker!Execute, Proved!Execute, Breaker!AdmitNormal, Proved!AdmitNormal,
              Breaker!AdmitFirstProbe, Proved!AdmitFirstProbe, Breaker!AdmitProbe,
              Proved!AdmitProbe
<1>3. ASSUME NEW c \in Callers, Breaker!Succeed(c)
      PROVE  Proved!Succeed(c)
  BY <1>3 DEF Breaker!Succeed, Proved!Succeed, Breaker!OnSuccess, Proved!OnSuccess
<1>4. ASSUME NEW c \in Callers, Breaker!Fail(c)
      PROVE  Proved!Fail(c)
  BY <1>4 DEF Breaker!Fail, Proved!Fail, Breaker!OnFailure, Proved!OnFailure,
              Breaker!Reopens, Proved!Reopens, Breaker!ReachesThreshold,
              Proved!ReachesThreshold
<1>5. Breaker!ForceReset => Proved!ForceReset
  BY DEF Breaker!ForceReset, Proved!ForceReset
<1>6. Breaker!Tick \/ Breaker!ServiceChanges => Proved!Tick \/ Proved!ServiceChanges
  BY DEF Breaker!Tick, Proved!Tick, Breaker!ServiceChanges, Proved!ServiceChanges
<1>7. UNCHANGED Breaker!vars => UNCHANGED Proved!vars
  BY DEF Breaker!vars, Proved!vars
<1>8. QED
  BY <1>1, <1>2, <1>3, <1>4, <1>5, <1>6, <1>7 DEF Breaker!Next, Proved!Next

(* The circuit connectInternal() runs through is CLOSED exactly while      *)
(* fewer than failureThreshold failures are recorded, has no more probes   *)
(* than configured, and refuses only while one of them runs, if its        *)
(* configuration is what the breaker assumes: what is proved of any caller *)
(* of execute() holds of the manager, its reconnections and retries.       *)
THEOREM ManagerCircuitIsSound ==
  ASSUME Proved!BreakerAssumption
  PROVE  Spec => [](/\ Proved!ClosedIffBelowThreshold
                    /\ Proved!ProbeBudget
                    /\ Proved!HalfOpenNeverStuck)
<1>1. Proved!Spec => []Proved!ClosedIffBelowThreshold
  BY Proved!BreakerTripsAtThreshold
<1>2. Proved!Spec => []Proved!ProbeBudget
  BY Proved!BreakerBoundsProbes
<1>3. Proved!Spec => []Proved!HalfOpenNeverStuck
  BY Proved!BreakerNeverStuck
<1>4. Spec => Proved!Spec
  BY SameBreaker, ManagerUsesBreaker, PTL DEF Breaker!Spec, Proved!Spec
<1>5. QED
  BY <1>1, <1>2, <1>3, <1>4, PTL

-----------------------------------------------------------------------------
(* Who is in the breaker dials *)

AdmittedDials ==
  /\ call \in [Callers -> Breaker!CallStates]
  /\ \A c \in Callers : call[c] # Breaker!Idle => pc[c] = "dialing"

(* What the breaker does to the calls: one may come or go.                 *)
LEMMA CallsKept ==
  ASSUME call \in [Callers -> Breaker!CallStates], NEW c \in Callers,
         \/ Breaker!Execute(c) \/ Breaker!Succeed(c) \/ Breaker!Fail(c)
  PROVE  /\ call' \in [Callers -> Breaker!CallStates]
         /\ \A d \in Callers \ {c} : call[d] = Breaker!Idle => call'[d] = Breaker!Idle
         /\ Breaker!Succeed(c) \/ Breaker!Fail(c) => call'[c] = Breaker!Idle
<1> USE DEF Breaker!CallStates, Breaker!Idle, Breaker!Done, Breaker!EndEpisode, Breaker!Reset
<1>1. CASE Breaker!Execute(c)
  <2>1. \E admitted \in {"normal", "probe"} : call' = [call EXCEPT ![c] = admitted]
    BY <1>1 DEF Breaker!Execute, Breaker!AdmitNormal, Breaker!AdmitFirstProbe,
                Breaker!AdmitProbe
  <2>2. call[c] = Breaker!Idle /\ call'[c] # Breaker!Idle
    BY <1>1, <2>1 DEF Breaker!Execute
  <2>3. ~(Breaker!Succeed(c) \/ Breaker!Fail(c))
    BY <2>2 DEF Breaker!Succeed, Breaker!Fail
  <2>4. QED
    BY <2>1, <2>3
<1>2. CASE Breaker!Succeed(c) \/ Breaker!Fail(c)
  <2>1. call' \in {Breaker!Done(c), Breaker!EndEpisode(Breaker!Done(c))}
    BY <1>2 DEF Breaker!Succeed, Breaker!Fail, Breaker!OnSuccess, Breaker!OnFailure,
                Breaker!Reopens
  <2>2. QED
    BY <2>1
<1>3. QED
  BY <1>1, <1>2

(* An attempt ends: its caller leaves the breaker, and the calls that are  *)
(* woken were not in it.                                                   *)
LEMMA AttemptEnds ==
  ASSUME IInv, AdmittedDials, NEW c \in Callers, pc[c] = "dialing",
         NEW outcome \in Settled, NEW p \in {"served", "failing"},
         pc' = Wake(outcome, [pc EXCEPT ![c] = p]),
         call' \in [Callers -> Breaker!CallStates],
         \A d \in Callers \ {c} : call[d] = Breaker!Idle => call'[d] = Breaker!Idle,
         call'[c] = Breaker!Idle
  PROVE  AdmittedDials'
<1> DEFINE f == [pc EXCEPT ![c] = p]
<1>1. pc \in [Callers -> PCs] /\ f \in [Callers -> PCs]
  BY DEF IInv, ManagerTypes, PCs
<1>2. \A d \in Callers \ {c} : f[d] = pc[d]
  BY <1>1
<1>w. pc' = Wake(outcome, f)
  OBVIOUS
<1> HIDE DEF f
<1>3. ASSUME NEW d \in Callers \ {c}, call'[d] # Breaker!Idle
      PROVE  pc'[d] = "dialing"
  <2>1. pc[d] = "dialing"
    BY <1>3 DEF AdmittedDials
  <2>2. d \notin listeners
    BY <2>1 DEF IInv, ListenersAreWaiting
  <2>3. QED
    <3>1. f[d] = "dialing"
      BY <1>2, <2>1
    <3>2. Wake(outcome, f)[d] = f[d]
      BY <1>1, <2>2, WakeFacts
    <3>3. QED
      BY <1>w, <3>1, <3>2
<1>4. QED
  BY <1>3 DEF AdmittedDials

LEMMA AdmittedDialsStep ==
  ASSUME IInv, AdmittedDials, [Next]_vars
  PROVE  AdmittedDials'
<1> USE DEF breakerVars
<1>0. pc \in [Callers -> PCs] /\ call \in [Callers -> Breaker!CallStates]
  BY DEF IInv, ManagerTypes, AdmittedDials
<1>1. ASSUME call' = call, \A d \in Callers : pc[d] = "dialing" => pc'[d] = "dialing"
      PROVE  AdmittedDials'
  BY <1>1 DEF AdmittedDials
<1>2. ASSUME NEW c \in Callers, Dial(c)
      PROVE  AdmittedDials'
  <2>1. pc'[c] = "dialing" /\ \A d \in Callers \ {c} : pc'[d] = pc[d]
    BY <1>0, <1>2 DEF Dial
  <2>2. CASE Breaker!Execute(c)
    BY <1>0, <2>1, <2>2, CallsKept DEF AdmittedDials
  <2>3. CASE UNCHANGED breakerVars
    BY <1>0, <2>1, <2>3 DEF AdmittedDials
  <2>4. QED
    BY <1>2, <2>2, <2>3 DEF Dial
<1>3. ASSUME NEW c \in Callers, GetConnection(c)
      PROVE  AdmittedDials'
  <2>1. CASE Refuse(c) \/ TakeHeld(c) \/ Wait(c)
    BY <1>0, <1>1, <1>3, <2>1 DEF GetConnection, Refuse, TakeHeld, Wait
  <2>2. CASE Connect(c)
    BY <1>2, <2>2 DEF Connect
  <2>3. QED
    BY <1>3, <2>1, <2>2 DEF GetConnection
<1>4. ASSUME NEW c \in Callers, Connected(c)
      PROVE  AdmittedDials'
  <2>1. /\ pc[c] = "dialing" /\ Breaker!Succeed(c)
        /\ pc' = Wake("served", [pc EXCEPT ![c] = "served"])
    BY <1>4 DEF Connected
  <2>2. QED
    BY <1>0, <2>1, CallsKept, AttemptEnds DEF Settled
<1>5. ASSUME NEW c \in Callers, AttemptFails(c)
      PROVE  AdmittedDials'
  <2>1. /\ pc[c] = "dialing" /\ Reports(c)
        /\ pc' = Wake("failed", [pc EXCEPT ![c] = "failing"])
    BY <1>5 DEF AttemptFails
  <2>2. CASE Breaker!Fail(c)
    BY <1>0, <2>1, <2>2, CallsKept, AttemptEnds DEF Settled
  <2>3. CASE call[c] = Breaker!Idle /\ UNCHANGED breakerVars
    BY <1>0, <2>1, <2>3, AttemptEnds DEF Settled
  <2>4. QED
    BY <2>1, <2>2, <2>3 DEF Reports
<1>6. ASSUME NEW c \in Callers, GiveUp(c) \/ Sleep(c)
      PROVE  AdmittedDials'
  BY <1>0, <1>1, <1>6 DEF GiveUp, Sleep
<1>7. ASSUME NEW c \in Callers, Redial(c)
      PROVE  AdmittedDials'
  BY <1>2, <1>7 DEF Redial
<1>8. ASSUME NEW k \in Callers, ConnectionEnds(k)
      PROVE  AdmittedDials'
  <2>1. call' = call /\ (pc' = pc \/ pc' = Wake("failed", pc))
    BY <1>8 DEF ConnectionEnds
  <2>2. \A d \in listeners : pc[d] # "dialing"
    BY DEF IInv, ListenersAreWaiting
  <2>3. \A d \in Callers : pc[d] = "dialing" => pc'[d] = "dialing"
    BY <1>0, <2>1, <2>2, WakeFacts DEF Settled
  <2>4. QED
    BY <1>1, <2>1, <2>3
<1>9. CASE Close \/ UNCHANGED vars
  <2>1. call' = call /\ pc' = pc
    BY <1>9 DEF Close, vars, managerVars
  <2>2. QED
    BY <1>1, <2>1
<1>10. CASE ResetCircuitBreaker
  <2>1. pc' = pc /\ call' = Breaker!EndEpisode(call)
    BY <1>10 DEF ResetCircuitBreaker, managerVars, Breaker!ForceReset, Breaker!Reset
  <2>2. QED
    BY <1>0, <2>1 DEF AdmittedDials, Breaker!EndEpisode, Breaker!CallStates, Breaker!Idle
<1>11. CASE Environment
  BY <1>1, <1>11 DEF Environment, managerVars, Breaker!Tick, Breaker!ServiceChanges
<1>12. QED
  BY <1>3, <1>4, <1>5, <1>6, <1>7, <1>8, <1>9, <1>10, <1>11 DEF Next

(* While the breaker refuses attempts in HALF_OPEN, one it admitted dials  *)
(* and will report, for any number of calls, retries, resets and breaker   *)
(* settings: every path out of connectInternal() reports to the breaker    *)
(* what it was admitted for.                                               *)
THEOREM ManagerIsNeverShutOut ==
  ASSUME Proved!BreakerAssumption
  PROVE  Spec => []RefusedWhileProbing
<1>1. Init => AdmittedDials
  BY DEF Init, AdmittedDials, Breaker!Init, Breaker!CallStates, Breaker!Idle
<1>2. IInv /\ AdmittedDials /\ [Next]_vars => AdmittedDials'
  BY AdmittedDialsStep
<1>3. ASSUME AdmittedDials, Proved!TypeOK, Proved!ProbeBudget, Proved!HalfOpenNeverStuck
      PROVE  RefusedWhileProbing
  <2>1. ASSUME state = "HALF_OPEN", ~Breaker!HalfOpenHasRoom
        PROVE  \E c \in Dialing : call[c] = "probe"
    <3>1. halfOpenAttempts = HalfOpenMax
      BY <1>3, <2>1 DEF Breaker!HalfOpenHasRoom, Proved!TypeOK, Proved!BreakerAssumption
    <3>2. PICK c \in Callers : call[c] = "probe"
      BY <1>3, <2>1, <3>1 DEF Proved!HalfOpenNeverStuck, Proved!Probes
    <3>3. pc[c] = "dialing"
      BY <1>3, <3>2 DEF AdmittedDials, Breaker!Idle
    <3>4. QED
      BY <3>2, <3>3 DEF Dialing
  <2>2. QED
    BY <1>3, <2>1 DEF RefusedWhileProbing, AdmittedDials
<1>4. Proved!Spec => []Proved!TypeOK
  BY Proved!BreakerTypeCorrect
<1>5. Spec => Proved!Spec
  BY SameBreaker, ManagerUsesBreaker, PTL DEF Breaker!Spec, Proved!Spec
<1>6. QED
  BY <1>1, <1>2, <1>3, <1>4, <1>5, Invariance, ManagerCircuitIsSound, PTL DEF Spec
=============================================================================
