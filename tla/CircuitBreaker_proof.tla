------------------------ MODULE CircuitBreaker_proof ------------------------
(***************************************************************************)
(* Proofs about the circuit breaker, for any number of calls and any       *)
(* thresholds.  The inductive invariant joins the four invariants of the   *)
(* component and one fact relating failureCount to the history variable.   *)
(***************************************************************************)
EXTENDS CircuitBreaker, FiniteSetTheorems, TLAPS

(* While CLOSED, every failure counted came after the last success. *)
CountedFailuresAreConsecutive ==
  state = "CLOSED" => failureCount <= failureStreak

IInv ==
  /\ TypeOK
  /\ ClosedIffBelowThreshold
  /\ ProbeBudget
  /\ HalfOpenNeverStuck
  /\ CountedFailuresAreConsecutive

(* Bump adds one below its cap, and its result is a bounded counter again. *)
LEMMA BumpFacts ==
  ASSUME NEW n \in 0..CountCap
  PROVE  /\ Bump(n) \in 0..CountCap
         /\ Bump(n) >= n
         /\ n >= FailureThreshold => Bump(n) >= FailureThreshold
BY BreakerAssumption DEF Bump

(* Bump is monotonic. *)
LEMMA BumpMonotonic ==
  ASSUME NEW m \in 0..CountCap, NEW n \in 0..CountCap, m <= n
  PROVE  Bump(m) <= Bump(n)
BY BreakerAssumption DEF Bump

(* The set of probes is finite, so its size is a number. *)
LEMMA ProbesFinite == IsFiniteSet(Probes) /\ Cardinality(Probes) \in Nat
BY BreakerAssumption, FS_Subset, FS_CardinalityType DEF Probes

(* Completing a call cannot add a probe. *)
LEMMA ProbesShrink ==
  ASSUME Probes' \subseteq Probes
  PROVE  /\ Cardinality(Probes') \in Nat
         /\ Cardinality(Probes') <= Cardinality(Probes)
<1>1. IsFiniteSet(Probes) /\ Cardinality(Probes) \in Nat  BY ProbesFinite
<1>2. Probes' \in SUBSET Probes  OBVIOUS
<1>3. IsFiniteSet(Probes') /\ Cardinality(Probes') <= Cardinality(Probes)
  BY <1>1, <1>2, FS_Subset
<1> QED BY <1>3, FS_CardinalityType

(* Admitting c adds at most one probe. *)
LEMMA ProbesGrow ==
  ASSUME NEW c, Probes' \subseteq Probes \cup {c}
  PROVE  /\ Cardinality(Probes') \in Nat
         /\ Cardinality(Probes') <= Cardinality(Probes) + 1
<1>1. IsFiniteSet(Probes) /\ Cardinality(Probes) \in Nat  BY ProbesFinite
<1>2. /\ IsFiniteSet(Probes \cup {c})
      /\ Cardinality(Probes \cup {c}) <= Cardinality(Probes) + 1
  BY <1>1, FS_AddElement
<1>3. Probes' \in SUBSET (Probes \cup {c})  OBVIOUS
<1>4. /\ IsFiniteSet(Probes')
      /\ Cardinality(Probes') <= Cardinality(Probes \cup {c})
  BY <1>2, <1>3, FS_Subset
<1>5. Cardinality(Probes') \in Nat /\ Cardinality(Probes \cup {c}) \in Nat
  BY <1>2, <1>4, FS_CardinalityType
<1> QED BY <1>1, <1>2, <1>4, <1>5

(* Ending an episode leaves no probe. *)
LEMMA EndEpisodeFacts ==
  ASSUME NEW f \in [Calls -> CallStates], call' = EndEpisode(f)
  PROVE  /\ call' \in [Calls -> CallStates]
         /\ Probes' = {}
         /\ Cardinality(Probes') = 0
<1>1. call' \in [Calls -> CallStates]  BY DEF EndEpisode, CallStates
<1>2. Probes' = {}  BY DEF EndEpisode, Probes
<1> QED BY <1>1, <1>2, FS_EmptySet

-----------------------------------------------------------------------------
(* The initial states satisfy the invariant. *)
LEMMA InitEstablishes == Init => IInv
<1> SUFFICES ASSUME Init PROVE IInv  OBVIOUS
<1>1. Probes = {}  BY DEF Init, Probes, Idle
<1>2. Cardinality(Probes) = 0  BY <1>1, FS_EmptySet
<1> QED BY <1>2, BreakerAssumption
     DEF Init, IInv, TypeOK, ClosedIffBelowThreshold, ProbeBudget, HalfOpenNeverStuck,
         CountedFailuresAreConsecutive, CallStates, Idle

(* Admitting a call keeps the invariant. *)
LEMMA ExecuteKeeps ==
  ASSUME IInv, NEW c \in Calls, Execute(c)
  PROVE  IInv'
<1>1. TypeOK /\ ClosedIffBelowThreshold /\ ProbeBudget /\ HalfOpenNeverStuck
  BY DEF IInv
<1>2. Cardinality(Probes) \in Nat  BY ProbesFinite
<1>3. call' \in [Calls -> CallStates]
  BY <1>1 DEF Execute, AdmitNormal, AdmitFirstProbe, AdmitProbe, TypeOK, CallStates
<1>4. UNCHANGED << failureCount, sinceFailure, serviceUp, failureStreak >>
  BY DEF Execute
<1>5. CASE AdmitNormal(c)
  <2>1. Probes' \subseteq Probes  BY <1>1, <1>5 DEF AdmitNormal, Probes, TypeOK
  <2>2. Cardinality(Probes') \in Nat /\ Cardinality(Probes') <= Cardinality(Probes)
    BY <2>1, ProbesShrink
  <2> QED BY <1>1, <1>2, <1>3, <1>4, <1>5, <2>2, BreakerAssumption
       DEF AdmitNormal, IInv, TypeOK, ClosedIffBelowThreshold, ProbeBudget,
           HalfOpenNeverStuck, CountedFailuresAreConsecutive
<1>6. CASE AdmitFirstProbe(c)
  <2>1. Probes' \subseteq Probes \cup {c}
    BY <1>1, <1>6 DEF AdmitFirstProbe, Probes, TypeOK
  <2>2. /\ Cardinality(Probes') \in Nat
        /\ Cardinality(Probes') <= Cardinality(Probes) + 1
    BY <2>1, ProbesGrow
  <2>3. halfOpenAttempts = 0 /\ Cardinality(Probes) <= 0
    BY <1>1, <1>6 DEF AdmitFirstProbe, ProbeBudget
  <2>4. c \in Probes'  BY <1>1, <1>6 DEF AdmitFirstProbe, Probes, TypeOK
  <2> QED BY <1>1, <1>2, <1>3, <1>4, <1>6, <2>2, <2>3, <2>4, BreakerAssumption
       DEF AdmitFirstProbe, IInv, TypeOK, ClosedIffBelowThreshold, ProbeBudget,
           HalfOpenNeverStuck, CountedFailuresAreConsecutive
<1>7. CASE AdmitProbe(c)
  <2>1. Probes' \subseteq Probes \cup {c}
    BY <1>1, <1>7 DEF AdmitProbe, Probes, TypeOK
  <2>2. /\ Cardinality(Probes') \in Nat
        /\ Cardinality(Probes') <= Cardinality(Probes) + 1
    BY <2>1, ProbesGrow
  <2>3. c \in Probes'  BY <1>1, <1>7 DEF AdmitProbe, Probes, TypeOK
  <2> QED BY <1>1, <1>2, <1>3, <1>4, <1>7, <2>2, <2>3, BreakerAssumption
       DEF AdmitProbe, HalfOpenHasRoom, IInv, TypeOK, ClosedIffBelowThreshold,
           ProbeBudget, HalfOpenNeverStuck, CountedFailuresAreConsecutive
<1> QED BY <1>5, <1>6, <1>7 DEF Execute

(* A reset, by the last probe or by forceReset(), establishes the          *)
(* invariant again.                                                        *)
LEMMA ResetKeeps ==
  ASSUME IInv, NEW f \in [Calls -> CallStates], Reset(f), failureStreak' = 0,
         UNCHANGED << sinceFailure, serviceUp >>
  PROVE  IInv'
<1>1. call' \in [Calls -> CallStates] /\ Cardinality(Probes') = 0
  BY EndEpisodeFacts DEF Reset
<1> QED BY <1>1, BreakerAssumption
     DEF Reset, IInv, TypeOK, ClosedIffBelowThreshold, ProbeBudget,
         HalfOpenNeverStuck, CountedFailuresAreConsecutive

(* A completion leaves the call idle and adds no probe. *)
LEMMA DoneFacts ==
  ASSUME TypeOK, NEW c \in Calls
  PROVE  /\ Done(c) \in [Calls -> CallStates]
         /\ call' = Done(c) => Probes' \subseteq Probes
BY DEF Done, TypeOK, Probes, CallStates, Idle

(* A success keeps the invariant. *)
LEMMA SucceedKeeps ==
  ASSUME IInv, NEW c \in Calls, Succeed(c)
  PROVE  IInv'
<1>1. TypeOK /\ ClosedIffBelowThreshold /\ ProbeBudget /\ HalfOpenNeverStuck
  BY DEF IInv
<1>2. Done(c) \in [Calls -> CallStates]  BY <1>1, DoneFacts
<1>3. failureStreak' = 0 /\ UNCHANGED << sinceFailure, serviceUp >>
  BY DEF Succeed
<1>4. CASE Reset(Done(c))  BY <1>2, <1>3, <1>4, ResetKeeps
<1>5. CASE /\ state = "CLOSED"
           /\ failureCount' = 0
           /\ call' = Done(c)
           /\ UNCHANGED << state, halfOpenAttempts >>
  <2>1. Cardinality(Probes') \in Nat /\ Cardinality(Probes') <= Cardinality(Probes)
    BY <1>1, <1>5, DoneFacts, ProbesShrink
  <2>2. Cardinality(Probes) \in Nat  BY ProbesFinite
  <2> QED BY <1>1, <1>2, <1>3, <1>5, <2>1, <2>2, BreakerAssumption
       DEF IInv, TypeOK, ClosedIffBelowThreshold, ProbeBudget, HalfOpenNeverStuck,
           CountedFailuresAreConsecutive
<1>6. CASE /\ state = "OPEN" \/ (state = "HALF_OPEN" /\ HalfOpenHasRoom)
           /\ call' = Done(c)
           /\ UNCHANGED << state, failureCount, halfOpenAttempts >>
  <2>1. Cardinality(Probes') \in Nat /\ Cardinality(Probes') <= Cardinality(Probes)
    BY <1>1, <1>6, DoneFacts, ProbesShrink
  <2>2. Cardinality(Probes) \in Nat  BY ProbesFinite
  <2> QED BY <1>1, <1>2, <1>3, <1>6, <2>1, <2>2, BreakerAssumption
       DEF IInv, TypeOK, ClosedIffBelowThreshold, ProbeBudget, HalfOpenNeverStuck,
           CountedFailuresAreConsecutive, HalfOpenHasRoom
<1> QED BY <1>4, <1>5, <1>6 DEF Succeed, OnSuccess

(* A failure keeps the invariant. *)
LEMMA FailKeeps ==
  ASSUME IInv, NEW c \in Calls, Fail(c)
  PROVE  IInv'
<1>1. TypeOK /\ ClosedIffBelowThreshold /\ ProbeBudget /\ HalfOpenNeverStuck
      /\ CountedFailuresAreConsecutive
  BY DEF IInv
<1>2. Done(c) \in [Calls -> CallStates]  BY <1>1, DoneFacts
<1>3. /\ failureCount' = Bump(failureCount)
      /\ failureStreak' = Bump(failureStreak)
      /\ sinceFailure' = 0
      /\ UNCHANGED serviceUp
  BY DEF Fail, OnFailure
<1>4. /\ failureCount' \in 0..CountCap
      /\ failureCount >= FailureThreshold => failureCount' >= FailureThreshold
      /\ failureStreak' \in 0..CountCap
  BY <1>1, <1>3, BumpFacts DEF TypeOK
<1>5. CASE Reopens(c)
  <2>1. call' \in [Calls -> CallStates] /\ Cardinality(Probes') = 0
    BY <1>2, <1>5, EndEpisodeFacts DEF Reopens
  <2> QED BY <1>1, <1>3, <1>4, <1>5, <2>1, BreakerAssumption
       DEF Reopens, IInv, TypeOK, ClosedIffBelowThreshold, ProbeBudget,
           HalfOpenNeverStuck, CountedFailuresAreConsecutive
<1>6. CASE /\ state = "CLOSED"
           /\ state' = IF ReachesThreshold THEN "OPEN" ELSE "CLOSED"
           /\ call' = Done(c)
           /\ UNCHANGED halfOpenAttempts
  <2>1. Cardinality(Probes') \in Nat /\ Cardinality(Probes') <= Cardinality(Probes)
    BY <1>1, <1>6, DoneFacts, ProbesShrink
  <2>2. Cardinality(Probes) \in Nat  BY ProbesFinite
  <2>3. failureCount' <= failureStreak'
    BY <1>1, <1>3, <1>6, BumpMonotonic DEF TypeOK, CountedFailuresAreConsecutive
  <2> QED BY <1>1, <1>2, <1>3, <1>4, <1>6, <2>1, <2>2, <2>3, BreakerAssumption
       DEF ReachesThreshold, IInv, TypeOK, ClosedIffBelowThreshold, ProbeBudget,
           HalfOpenNeverStuck, CountedFailuresAreConsecutive
<1>7. CASE /\ state = "OPEN"
           /\ call' = Done(c)
           /\ UNCHANGED << state, halfOpenAttempts >>
  <2>1. Cardinality(Probes') \in Nat /\ Cardinality(Probes') <= Cardinality(Probes)
    BY <1>1, <1>7, DoneFacts, ProbesShrink
  <2>2. Cardinality(Probes) \in Nat  BY ProbesFinite
  <2> QED BY <1>1, <1>2, <1>3, <1>4, <1>7, <2>1, <2>2, BreakerAssumption
       DEF IInv, TypeOK, ClosedIffBelowThreshold, ProbeBudget, HalfOpenNeverStuck,
           CountedFailuresAreConsecutive
<1> QED BY <1>5, <1>6, <1>7 DEF Fail, OnFailure

(* The clock, the service and stuttering steps keep the invariant. *)
LEMMA EnvironmentKeeps ==
  ASSUME IInv, Tick \/ ServiceChanges \/ UNCHANGED vars
  PROVE  IInv'
<1>1. UNCHANGED << state, failureCount, halfOpenAttempts, call, failureStreak >>
  BY DEF Tick, ServiceChanges, vars
<1>2. Probes' = Probes  BY <1>1 DEF Probes
<1>3. sinceFailure' \in 0..ResetTimeout
  BY BreakerAssumption DEF Tick, ServiceChanges, vars, IInv, TypeOK
<1>4. serviceUp' \in BOOLEAN
  BY Zenon DEF Tick, ServiceChanges, vars, IInv, TypeOK
<1> QED BY <1>1, <1>2, <1>3, <1>4
     DEF IInv, TypeOK, ClosedIffBelowThreshold, ProbeBudget, HalfOpenNeverStuck,
         CountedFailuresAreConsecutive

(* Every step keeps the invariant. *)
LEMMA NextKeeps == IInv /\ [Next]_vars => IInv'
<1> SUFFICES ASSUME IInv, [Next]_vars PROVE IInv'  OBVIOUS
<1>1. ASSUME NEW c \in Calls, Execute(c) PROVE IInv'  BY <1>1, ExecuteKeeps
<1>2. ASSUME NEW c \in Calls, Succeed(c) PROVE IInv'  BY <1>2, SucceedKeeps
<1>3. ASSUME NEW c \in Calls, Fail(c) PROVE IInv'  BY <1>3, FailKeeps
<1>4. CASE ForceReset
  BY <1>4, ResetKeeps DEF ForceReset, IInv, TypeOK
<1>5. CASE Tick \/ ServiceChanges \/ UNCHANGED vars  BY <1>5, EnvironmentKeeps
<1> QED BY <1>1, <1>2, <1>3, <1>4, <1>5 DEF Next

LEMMA Invariance == Spec => []IInv
<1>1. Init => IInv  BY InitEstablishes
<1>2. IInv /\ [Next]_vars => IInv'  BY NextKeeps
<1> QED BY <1>1, <1>2, PTL DEF Spec

-----------------------------------------------------------------------------
(* Type correctness of the breaker. *)
THEOREM BreakerTypeCorrect == Spec => []TypeOK
<1>1. IInv => TypeOK  BY DEF IInv
<1> QED BY <1>1, Invariance, PTL

(* The breaker is CLOSED exactly while fewer than failureThreshold         *)
(* failures are recorded, for any interleaving of any number of calls.     *)
THEOREM BreakerTripsAtThreshold == Spec => []ClosedIffBelowThreshold
<1>1. IInv => ClosedIffBelowThreshold  BY DEF IInv
<1> QED BY <1>1, Invariance, PTL

(* No half-open episode runs more than halfOpenMaxAttempts probes at once. *)
THEOREM BreakerBoundsProbes == Spec => []ProbeBudget
<1>1. IInv => ProbeBudget  BY DEF IInv
<1> QED BY <1>1, Invariance, PTL

(* A breaker that refuses every half-open call has a probe still running.  *)
THEOREM BreakerNeverStuck == Spec => []HalfOpenNeverStuck
<1>1. IInv => HalfOpenNeverStuck  BY DEF IInv
<1> QED BY <1>1, Invariance, PTL

(* A CLOSED circuit opens only after failureThreshold failures in a row.   *)
THEOREM BreakerOpensOnConsecutiveFailures == Spec => OpensOnConsecutiveFailures
<1> DEFINE Consecutive ==
      state = "CLOSED" /\ state' = "OPEN" => failureStreak' >= FailureThreshold
<1>1. IInv /\ [Next]_vars => [Consecutive]_vars
  <2> SUFFICES ASSUME IInv, Next, state = "CLOSED", state' = "OPEN"
               PROVE  failureStreak' >= FailureThreshold
    BY DEF vars
  <2>1. PICK c \in Calls : Fail(c)
    BY DEF Next, Execute, AdmitNormal, AdmitFirstProbe, AdmitProbe, Succeed, OnSuccess,
           Reset, ForceReset, Tick, ServiceChanges
  <2>2. failureCount' >= FailureThreshold
    BY <2>1 DEF Fail, OnFailure, Reopens, ReachesThreshold
  <2>3. /\ failureCount' = Bump(failureCount)
        /\ failureStreak' = Bump(failureStreak)
    BY <2>1 DEF Fail, OnFailure
  <2>4. failureCount' <= failureStreak'
    BY <2>3, BumpMonotonic DEF IInv, TypeOK, CountedFailuresAreConsecutive
  <2> QED BY <2>2, <2>3, <2>4, BumpFacts, BreakerAssumption DEF IInv, TypeOK
<1> QED BY <1>1, Invariance, PTL DEF Spec, OpensOnConsecutiveFailures
=============================================================================
