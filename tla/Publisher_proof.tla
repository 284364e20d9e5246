---------------------------- MODULE Publisher_proof ----------------------------
(***************************************************************************)
(* The safety properties of Publisher, for any publishes, exchanges,       *)
(* channels and number of attempts.                                        *)
(***************************************************************************)
EXTENDS Publisher, SequenceTheorems, TLAPS

-------------------------------------------------------------------------------
(* The inductive invariant *)

(* Who has a channel, that it exists, and who has an exchange to declare. *)
Placed ==
  /\ \A p \in Publishes :
       /\ on[p] # None => chan[on[p]] # "none"
       /\ at[p] \in {"idle", "opening"} => on[p] = None
       /\ at[p] \notin {"idle", "opening", "rejected"} => on[p] # None
       /\ attempt[p] > 0 => on[p] # None
       /\ at[p] \in {"declaring", "declared"} => todo[p] # << >>
  /\ channel # None => chan[channel] # "none"

(* What is not installed is used by nobody else. *)
Alone ==
  \A p \in Publishes : at[p] = "created" =>
    /\ channel # on[p]
    /\ \A q \in Publishes \ {p} : on[q] # on[p]

(* Attempts are counted, and every message has been sent by one. *)
Counted ==
  /\ \A p \in Publishes :
       /\ at[p] \in {"idle", "opening", "created", "ready", "declaring", "declared"}
            => attempt[p] = 0
       /\ at[p] = "sleeping" => attempt[p] < MaxAttempts
       /\ \A m \in waits[p] : m \in sent /\ on[m[1]] = on[p]
  /\ \A m \in sent : m[2] <= attempt[m[1]]
  /\ unconfirmed \cup confirmed \cup nacked \subseteq sent
  /\ unconfirmed \cap confirmed = {}

(* What is cached is declared, and so is the exchange of a message under   *)
(* way.                                                                    *)
Known ==
  /\ asserted \subseteq declared
  /\ \A p \in Publishes :
       /\ at[p] = "declared" => Head(todo[p]) \in declared
       /\ at[p] \in {"opening", "created", "ready", "declaring", "declared"} =>
            \/ Exchange[p] \in declared
            \/ \E i \in 1..Len(todo[p]) : todo[p][i] = Exchange[p]
       /\ at[p] \in {"draining", "confirming", "sleeping"} => Exchange[p] \in declared
  /\ SentToDeclared

(* What has become of the last attempt of a publish. *)
OwnFate ==
  WaitsForConfirms =>
    \A p \in Publishes :
      LET m == << p, attempt[p] >> IN
      /\ at[p] = "draining" =>
           /\ m \in heldUp
           /\ chan[on[p]] = "closed" \/ m \in unconfirmed \cup confirmed \cup nacked
      /\ at[p] = "confirming" =>
           m \in waits[p] \/ m \in confirmed \/ m \in nacked \cap heldUp
      /\ at[p] = "resolved" => m \in confirmed \/ m \in nacked \cap heldUp

(* Why a message not refused may be sent again. *)
Excused(p) ==
  \/ chan[on[p]] = "closed"
  \/ \E other \in nacked : other[1] # p /\ on[other[1]] = on[p]

Resent ==
  \A m \in unconfirmed \cup confirmed :
    attempt[m[1]] > m[2] \/ at[m[1]] = "sleeping" => Excused(m[1])

IInv ==
  /\ TypeOK
  /\ Placed
  /\ Alone
  /\ Counted
  /\ Known
  /\ OwnFate
  /\ Resent
  /\ ReadyMeansActive

-------------------------------------------------------------------------------
(* Before its first attempt a publish has sent nothing. *)
LEMMA Before ==
  ASSUME TypeOK, Placed, Counted
  PROVE  /\ \A m \in sent : /\ m[1] \in Publishes
                            /\ m[2] \in 1..MaxAttempts
                            /\ at[m[1]] \notin {"idle", "opening", "created", "ready",
                                                "declaring", "declared"}
                            /\ on[m[1]] # None
         /\ \A p \in Publishes : at[p] \in {"idle", "opening"} => waits[p] = {}
<1> USE DEF TypeOK, Placed, Counted, Messages
<1>1. \A m \in sent : m[1] \in Publishes /\ m[2] \in 1..MaxAttempts
  OBVIOUS
<1>2. ASSUME NEW m \in sent
      PROVE  attempt[m[1]] > 0
  BY <1>1, PublisherAssumption DEF PublisherAssumption
<1>3. \A m \in sent : on[m[1]] # None
  BY <1>1, <1>2
<1>4. QED
  BY <1>1, <1>2, <1>3

(* An element of a sequence is its head or in its tail. *)
LEMMA InHeadOrTail ==
  ASSUME NEW S, NEW s \in Seq(S), s # << >>, NEW i \in 1..Len(s)
  PROVE  s[i] = Head(s) \/ \E j \in 1..Len(Tail(s)) : Tail(s)[j] = s[i]
<1>1. Len(Tail(s)) = Len(s) - 1 /\ \A j \in 1..Len(Tail(s)) : Tail(s)[j] = s[j + 1]
  BY HeadTailProperties
<1>2. CASE i = 1
  BY <1>2
<1>3. CASE i # 1
  <2>1. i - 1 \in 1..Len(Tail(s)) /\ (i - 1) + 1 = i
    BY <1>1, <1>3
  <2>2. QED
    BY <1>1, <2>1
<1>4. QED
  BY <1>2, <1>3

(* What is in a sequence is in the sequences it is appended to. *)
LEMMA InSuffix ==
  ASSUME NEW S, NEW s \in Seq(S), NEW t \in Seq(S), NEW i \in 1..Len(t)
  PROVE  \E j \in 1..Len(s \o t) : (s \o t)[j] = t[i]
<1>1. Len(s) + i \in 1..Len(s \o t)
  BY ConcatProperties
<1>2. (s \o t)[Len(s) + i] = t[i]
  BY ConcatProperties, LenProperties
<1>3. QED
  BY <1>1, <1>2

(* Types are preserved.  The number of attempts is the reason for Counted, *)
(* the Head of todo[p] for Placed.                                         *)
LEMMA TypeOKStep ==
  ASSUME TypeOK, Placed, Counted, [Next]_vars
  PROVE  TypeOK'
<1> USE PublisherAssumption DEF TypeOK, Placed, Counted, Channels, Messages,
        Stages, Usable, PublisherAssumption, vars, publisherVars, callVars,
        linkVars, historyVars
<1>1. ASSUME NEW P \in Calls, Publish(P)
      PROVE  TypeOK'
  <2>1. P \subseteq Publishes
    BY <1>1
  <2>2. \A p \in Publishes : << Exchange[p] >> \in Seq(Exchanges)
    OBVIOUS
  <2>3. todo' \in [Publishes -> Seq(Exchanges)]
    BY <1>1, <2>2 DEF Publish
  <2>4. at' \in [Publishes -> Stages] /\ on' \in [Publishes -> Channels \cup {None}]
    BY <1>1 DEF Publish
  <2>5. QED
    BY <1>1, <2>3, <2>4 DEF Publish
<1>2. ASSUME NEW p \in Publishes, ChannelCreated(p)
      PROVE  TypeOK'
  <2>1. PICK c \in Channels : /\ chan' = [chan EXCEPT ![c] = "open"]
                              /\ on' = [on EXCEPT ![p] = c]
    BY <1>2 DEF ChannelCreated
  <2>2. on' \in [Publishes -> Channels \cup {None}]
    BY <2>1
  <2>3. chan' \in [Channels -> {"none", "open", "broken", "closing", "closed"}]
    BY <2>1
  <2>4. at' \in [Publishes -> Stages]
    BY <1>2 DEF ChannelCreated
  <2>5. QED
    BY <1>2, <2>2, <2>3, <2>4 DEF ChannelCreated
<1>3. ASSUME NEW p \in Publishes, Install(p)
      PROVE  TypeOK'
  <2>1. Preconfigured \o todo[p] \in Seq(Exchanges)
    BY ConcatProperties
  <2>2. todo' \in [Publishes -> Seq(Exchanges)]
    BY <1>3, <2>1 DEF Install
  <2>3. QED
    BY <1>3, <2>2 DEF Install
<1>4. ASSUME NEW p \in Publishes, Reject(p)
      PROVE  TypeOK'
  BY <1>4 DEF Reject
<1>5. ASSUME NEW p \in Publishes, AssertExchange(p)
      PROVE  TypeOK'
  <2>1. Tail(todo[p]) \in Seq(Exchanges)
    BY <1>5, HeadTailProperties DEF AssertExchange
  <2>2. todo' = [todo EXCEPT ![p] = Tail(todo[p])] \/ todo' = todo
    BY <1>5 DEF AssertExchange
  <2>3. todo' \in [Publishes -> Seq(Exchanges)]
    <3>1. CASE todo' = todo
      BY <3>1
    <3>2. CASE todo' = [todo EXCEPT ![p] = Tail(todo[p])]
      BY <2>1, <3>2
    <3>3. QED
      BY <2>2, <3>1, <3>2
  <2>4. at' \in [Publishes -> Stages]
    BY <1>5 DEF AssertExchange
  <2>5. QED
    BY <1>5, <2>3, <2>4 DEF AssertExchange
<1>6. ASSUME NEW p \in Publishes, Declare(p)
      PROVE  TypeOK'
  <2>1. Head(todo[p]) \in Exchanges
    BY <1>6, HeadTailProperties DEF Declare
  <2>2. QED
    BY <1>6, <2>1 DEF Declare
<1>7. ASSUME NEW p \in Publishes, Remember(p)
      PROVE  TypeOK'
  <2>1. Head(todo[p]) \in Exchanges /\ Tail(todo[p]) \in Seq(Exchanges)
    BY <1>7, HeadTailProperties DEF Remember
  <2>2. todo' \in [Publishes -> Seq(Exchanges)]
    BY <1>7, <2>1 DEF Remember
  <2>3. QED
    BY <1>7, <2>1, <2>2 DEF Remember
<1>8. ASSUME NEW p \in Publishes, Transmit(p)
      PROVE  TypeOK'
  <2> DEFINE m == << p, attempt[p] + 1 >>
  <2>1. m \in Messages /\ attempt[p] + 1 \in 0..MaxAttempts
    BY <1>8 DEF Transmit
  <2>2. attempt' \in [Publishes -> 0..MaxAttempts]
    BY <1>8, <2>1 DEF Transmit
  <2>3. /\ unconfirmed' \subseteq Messages
        /\ sent' \subseteq Messages
        /\ heldUp' \subseteq Messages
    BY <1>8, <2>1 DEF Transmit
  <2>4. waits' \in [Publishes -> SUBSET Messages]
    <3>1. Awaited(p, unconfirmed \cup {m}) \subseteq Messages
      BY <2>1 DEF Awaited, Pending
    <3>2. \/ waits' = waits
          \/ waits' = [waits EXCEPT ![p] = Awaited(p, unconfirmed \cup {m})]
      BY <1>8 DEF Transmit
    <3>3. [waits EXCEPT ![p] = Awaited(p, unconfirmed \cup {m})]
            \in [Publishes -> SUBSET Messages]
      <4> HIDE DEF m, Messages, Placed, Counted
      <4>1. QED
        BY <3>1
    <3>4. QED
      BY <3>2, <3>3
  <2>5. at' \in [Publishes -> Stages]
    <3>1. \A messages : Waiting(messages) \in Stages
      BY DEF Waiting
    <3>2. \A made : AfterFailure(p, made) \in Stages
      BY DEF AfterFailure
    <3>3. \E s \in Stages : at' = [at EXCEPT ![p] = s]
      BY <1>8, <3>1, <3>2 DEF Transmit
    <3>4. QED
      BY <3>3
  <2>6. QED
    BY <1>8, <2>2, <2>3, <2>4, <2>5 DEF Transmit
<1>9. ASSUME NEW c \in Channels, Drained(c)
      PROVE  TypeOK'
  BY <1>9 DEF Drained, Awaited, Pending, Waiting
<1>10. ASSUME NEW m \in Messages, Confirm(m)
      PROVE  TypeOK'
  BY <1>10 DEF Confirm, Hearing
<1>11. ASSUME NEW m \in Messages, Nack(m)
      PROVE  TypeOK'
  BY <1>11 DEF Nack, Hearing, AfterFailure
<1>12. ASSUME NEW c \in Channels, ChannelBreaks(c)
      PROVE  TypeOK'
  BY <1>12 DEF ChannelBreaks
<1>13. ASSUME NEW c \in Channels, ChannelDown(c)
      PROVE  TypeOK'
  BY <1>13 DEF ChannelDown, OnClose, AfterFailure, Pending
<1>14. ASSUME Close
      PROVE  TypeOK'
  BY <1>14 DEF Close
<1>15. ASSUME Closed
      PROVE  TypeOK'
  BY <1>15 DEF Closed
<1>16. CASE UNCHANGED vars
  BY <1>16
<1>17. QED
  BY <1>1, <1>2, <1>3, <1>4, <1>5, <1>6, <1>7, <1>8, <1>9, <1>10, <1>11, <1>12,
     <1>13, <1>14, <1>15, <1>16 DEF Next, Proceed, Answer

(* A publish has a channel from ChannelCreated, or from Publish, on.       *)
LEMMA PlacedStep ==
  ASSUME TypeOK, Placed, Counted, [Next]_vars
  PROVE  Placed'
<1> USE PublisherAssumption DEF TypeOK, Placed, Counted, Channels, Messages,
        Stages, Usable, PublisherAssumption, vars, publisherVars, callVars,
        linkVars, historyVars
<1>1. ASSUME NEW P \in Calls, Publish(P)
      PROVE  Placed'
  BY <1>1 DEF Publish
<1>2. ASSUME NEW p \in Publishes, ChannelCreated(p)
      PROVE  Placed'
  BY <1>2 DEF ChannelCreated
<1>3. ASSUME NEW p \in Publishes, Install(p)
      PROVE  Placed'
  BY <1>3 DEF Install
<1>4. ASSUME NEW p \in Publishes, Reject(p)
      PROVE  Placed'
  BY <1>4 DEF Reject
<1>5. ASSUME NEW p \in Publishes, AssertExchange(p)
      PROVE  Placed'
  BY <1>5 DEF AssertExchange
<1>6. ASSUME NEW p \in Publishes, Declare(p)
      PROVE  Placed'
  BY <1>6 DEF Declare
<1>7. ASSUME NEW p \in Publishes, Remember(p)
      PROVE  Placed'
  BY <1>7 DEF Remember
<1>8. ASSUME NEW p \in Publishes, Transmit(p)
      PROVE  Placed'
  BY <1>8 DEF Transmit, AfterFailure, Awaited, Pending, Waiting
<1>9. ASSUME NEW c \in Channels, Drained(c)
      PROVE  Placed'
  BY <1>9 DEF Drained, Awaited, Pending, Waiting
<1>10. ASSUME NEW m \in Messages, Confirm(m)
      PROVE  Placed'
  BY <1>10 DEF Confirm, Hearing
<1>11. ASSUME NEW m \in Messages, Nack(m)
      PROVE  Placed'
  BY <1>11 DEF Nack, Hearing, AfterFailure
<1>12. ASSUME NEW c \in Channels, ChannelBreaks(c)
      PROVE  Placed'
  BY <1>12 DEF ChannelBreaks
<1>13. ASSUME NEW c \in Channels, ChannelDown(c)
      PROVE  Placed'
  BY <1>13 DEF ChannelDown, OnClose, AfterFailure, Pending
<1>14. ASSUME Close
      PROVE  Placed'
  BY <1>14 DEF Close
<1>15. ASSUME Closed
      PROVE  Placed'
  BY <1>15 DEF Closed
<1>16. CASE UNCHANGED vars
  BY <1>16
<1>17. QED
  BY <1>1, <1>2, <1>3, <1>4, <1>5, <1>6, <1>7, <1>8, <1>9, <1>10, <1>11, <1>12,
     <1>13, <1>14, <1>15, <1>16 DEF Next, Proceed, Answer

(* A channel is known to its maker only until it is installed.             *)
LEMMA AloneStep ==
  ASSUME TypeOK, Placed, Alone, [Next]_vars
  PROVE  Alone'
<1> USE PublisherAssumption DEF TypeOK, Placed, Alone, Channels,
        PublisherAssumption, vars, publisherVars, callVars, linkVars, historyVars
<1>1. ASSUME NEW P \in Calls, Publish(P)
      PROVE  Alone'
  BY <1>1 DEF Publish
<1>2. ASSUME NEW p \in Publishes, ChannelCreated(p)
      PROVE  Alone'
  <2>1. PICK c \in Channels : /\ chan[c] = "none"
                              /\ on' = [on EXCEPT ![p] = c]
    BY <1>2 DEF ChannelCreated
  <2>2. channel # c /\ \A q \in Publishes : on[q] # c
    <3>1. c # None
      BY DEF Channels
    <3>2. channel # c
      BY <2>1, <3>1
    <3>3. QED
      BY <2>1, <3>1, <3>2
  <2>3. ASSUME NEW r \in Publishes, at'[r] = "created"
        PROVE  channel' # on'[r] /\ \A q \in Publishes \ {r} : on'[q] # on'[r]
    <3>1. CASE r = p
      BY <1>2, <2>1, <2>2, <3>1 DEF ChannelCreated
    <3>2. CASE r # p
      <4>1. at[r] = "created" /\ on'[r] = on[r] /\ on'[p] = c
        BY <1>2, <2>1, <2>3, <3>2 DEF ChannelCreated
      <4>2. QED
        BY <1>2, <2>1, <2>2, <4>1 DEF ChannelCreated
    <3>3. QED
      BY <3>1, <3>2
  <2>4. QED
    BY <2>3
<1>3. ASSUME NEW p \in Publishes, Install(p)
      PROVE  Alone'
  BY <1>3 DEF Install
<1>4. ASSUME NEW p \in Publishes, Reject(p)
      PROVE  Alone'
  BY <1>4 DEF Reject
<1>5. ASSUME NEW p \in Publishes, AssertExchange(p)
      PROVE  Alone'
  BY <1>5 DEF AssertExchange
<1>6. ASSUME NEW p \in Publishes, Declare(p)
      PROVE  Alone'
  BY <1>6 DEF Declare
<1>7. ASSUME NEW p \in Publishes, Remember(p)
      PROVE  Alone'
  BY <1>7 DEF Remember
<1>8. ASSUME NEW p \in Publishes, Transmit(p)
      PROVE  Alone'
  BY <1>8 DEF Transmit, AfterFailure, Awaited, Pending, Waiting
<1>9. ASSUME NEW c \in Channels, Drained(c)
      PROVE  Alone'
  BY <1>9 DEF Drained, Awaited, Pending, Waiting
<1>10. ASSUME NEW m \in Messages, Confirm(m)
      PROVE  Alone'
  BY <1>10 DEF Confirm, Hearing
<1>11. ASSUME NEW m \in Messages, Nack(m)
      PROVE  Alone'
  BY <1>11 DEF Nack, Hearing, AfterFailure
<1>12. ASSUME NEW c \in Channels, ChannelBreaks(c)
      PROVE  Alone'
  BY <1>12 DEF ChannelBreaks
<1>13. ASSUME NEW c \in Channels, ChannelDown(c)
      PROVE  Alone'
  BY <1>13 DEF ChannelDown, OnClose, AfterFailure, Pending
<1>14. ASSUME Close
      PROVE  Alone'
  BY <1>14 DEF Close
<1>15. ASSUME Closed
      PROVE  Alone'
  BY <1>15 DEF Closed
<1>16. CASE UNCHANGED vars
  BY <1>16
<1>17. QED
  BY <1>1, <1>2, <1>3, <1>4, <1>5, <1>6, <1>7, <1>8, <1>9, <1>10, <1>11, <1>12,
     <1>13, <1>14, <1>15, <1>16 DEF Next, Proceed, Answer

(* Attempts and what was sent agree.  A publish that takes a channel has   *)
(* not sent anything, so nothing that is waited for changes its channel.   *)
LEMMA CountedStep ==
  ASSUME TypeOK, Placed, Counted, [Next]_vars
  PROVE  Counted'
<1> USE PublisherAssumption DEF TypeOK, Placed, Counted, Channels, Messages,
        Usable, PublisherAssumption, vars, publisherVars, callVars, linkVars,
        historyVars
<1>1. ASSUME NEW P \in Calls, Publish(P)
      PROVE  Counted'
  <2>1. \A m \in sent : m[1] \notin P
    BY <1>1, Before DEF Publish
  <2>2. \A q \in Publishes : \A m \in waits'[q] : m \in sent' /\ on'[m[1]] = on'[q]
    <3> SUFFICES ASSUME NEW q \in Publishes, NEW m \in waits[q]
                 PROVE  m \in sent /\ on'[m[1]] = on'[q]
      BY <1>1 DEF Publish
    <3>1. m \in sent /\ on[m[1]] = on[q]
      OBVIOUS
    <3>2. \A r \in Publishes : r \notin P => on'[r] = on[r]
      BY <1>1 DEF Publish
    <3>3. q \notin P
      BY <1>1, Before DEF Publish
    <3>4. QED
      BY <2>1, <3>1, <3>2, <3>3
  <2>3. QED
    BY <1>1, <2>2 DEF Publish
<1>2. ASSUME NEW p \in Publishes, ChannelCreated(p)
      PROVE  Counted'
  <2>1. waits[p] = {} /\ \A m \in sent : m[1] # p
    BY <1>2, Before DEF ChannelCreated
  <2>2. \A r \in Publishes : r # p => on'[r] = on[r]
    BY <1>2 DEF ChannelCreated
  <2>3. QED
    BY <1>2, <2>1, <2>2 DEF ChannelCreated
<1>3. ASSUME NEW p \in Publishes, Install(p)
      PROVE  Counted'
  BY <1>3 DEF Install
<1>4. ASSUME NEW p \in Publishes, Reject(p)
      PROVE  Counted'
  BY <1>4 DEF Reject
<1>5. ASSUME NEW p \in Publishes, AssertExchange(p)
      PROVE  Counted'
  BY <1>5 DEF AssertExchange
<1>6. ASSUME NEW p \in Publishes, Declare(p)
      PROVE  Counted'
  BY <1>6 DEF Declare
<1>7. ASSUME NEW p \in Publishes, Remember(p)
      PROVE  Counted'
  BY <1>7 DEF Remember
<1>8. ASSUME NEW p \in Publishes, Transmit(p)
      PROVE  Counted'
  BY <1>8 DEF Transmit, AfterFailure, Awaited, Pending, Waiting
<1>9. ASSUME NEW c \in Channels, Drained(c)
      PROVE  Counted'
  BY <1>9 DEF Drained, Awaited, Pending, Waiting
<1>10. ASSUME NEW m \in Messages, Confirm(m)
      PROVE  Counted'
  BY <1>10 DEF Confirm, Hearing
<1>11. ASSUME NEW m \in Messages, Nack(m)
      PROVE  Counted'
  BY <1>11 DEF Nack, Hearing, AfterFailure
<1>12. ASSUME NEW c \in Channels, ChannelBreaks(c)
      PROVE  Counted'
  BY <1>12 DEF ChannelBreaks
<1>13. ASSUME NEW c \in Channels, ChannelDown(c)
      PROVE  Counted'
  BY <1>13 DEF ChannelDown, OnClose, AfterFailure, Pending
<1>14. ASSUME Close
      PROVE  Counted'
  BY <1>14 DEF Close
<1>15. ASSUME Closed
      PROVE  Counted'
  BY <1>15 DEF Closed
<1>16. CASE UNCHANGED vars
  BY <1>16
<1>17. QED
  BY <1>1, <1>2, <1>3, <1>4, <1>5, <1>6, <1>7, <1>8, <1>9, <1>10, <1>11, <1>12,
     <1>13, <1>14, <1>15, <1>16 DEF Next, Proceed, Answer

(* The cache holds what the broker has declared, and the list of exchanges *)
(* to declare loses only such.                                             *)
LEMMA KnownStep ==
  ASSUME TypeOK, Placed, Counted, Known, [Next]_vars
  PROVE  Known'
<1> USE PublisherAssumption DEF TypeOK, Placed, Counted, Known, SentToDeclared,
        Messages, PublisherAssumption, vars, publisherVars, callVars, linkVars,
        historyVars
<1>1. ASSUME NEW P \in Calls, Publish(P)
      PROVE  Known'
  BY <1>1 DEF Publish
<1>2. ASSUME NEW p \in Publishes, ChannelCreated(p)
      PROVE  Known'
  BY <1>2 DEF ChannelCreated
<1>3. ASSUME NEW p \in Publishes, Install(p)
      PROVE  Known'
  <2>1. Exchange[p] \in declared' \/ \E j \in 1..Len(todo'[p]) : todo'[p][j] = Exchange[p]
    <3>1. CASE Exchange[p] \in declared
      BY <1>3, <3>1 DEF Install
    <3>2. CASE Exchange[p] \notin declared
      <4>1. PICK i \in 1..Len(todo[p]) : todo[p][i] = Exchange[p]
        BY <1>3, <3>2 DEF Install
      <4>2. todo'[p] = Preconfigured \o todo[p]
        BY <1>3 DEF Install
      <4>3. Preconfigured \in Seq(Exchanges) /\ todo[p] \in Seq(Exchanges)
        OBVIOUS
      <4>4. \E j \in 1..Len(Preconfigured \o todo[p]) :
              (Preconfigured \o todo[p])[j] = todo[p][i]
        <5> HIDE DEF TypeOK, Placed, Counted, Known
        <5>1. QED
          BY <4>3, InSuffix
      <4>5. QED
        BY <4>1, <4>2, <4>4
    <3>3. QED
      BY <3>1, <3>2
  <2>2. \A q \in Publishes : q # p => todo'[q] = todo[q] /\ at'[q] = at[q]
    BY <1>3 DEF Install
  <2>3. QED
    BY <1>3, <2>1, <2>2 DEF Install
<1>4. ASSUME NEW p \in Publishes, Reject(p)
      PROVE  Known'
  BY <1>4 DEF Reject
<1>5. ASSUME NEW p \in Publishes, AssertExchange(p)
      PROVE  Known'
  <2>1. Exchange[p] \in declared' \/ \E j \in 1..Len(todo'[p]) : todo'[p][j] = Exchange[p]
    <3>1. CASE Exchange[p] \in declared
      BY <1>5, <3>1 DEF AssertExchange
    <3>2. CASE Exchange[p] \notin declared
      <4>1. PICK i \in 1..Len(todo[p]) : todo[p][i] = Exchange[p]
        BY <1>5, <3>2 DEF AssertExchange
      <4>2. CASE todo' = todo
        BY <1>5, <4>1, <4>2 DEF AssertExchange
      <4>3. CASE Head(todo[p]) \in declared /\ todo' = [todo EXCEPT ![p] = Tail(@)]
        <5>1. todo[p] \in Seq(Exchanges) /\ todo[p] # << >> /\ todo'[p] = Tail(todo[p])
          BY <1>5, <4>3 DEF AssertExchange
        <5>2. todo[p][i] # Head(todo[p])
          BY <3>2, <4>1, <4>3
        <5>3. \E j \in 1..Len(Tail(todo[p])) : Tail(todo[p])[j] = todo[p][i]
          <6> HIDE DEF TypeOK, Placed, Counted, Known
          <6>1. QED
            BY <5>1, <5>2, InHeadOrTail
        <5>4. QED
          BY <4>1, <5>1, <5>3
      <4>4. QED
        BY <1>5, <4>2, <4>3 DEF AssertExchange
    <3>3. QED
      BY <3>1, <3>2
  <2>2. \A q \in Publishes : q # p => todo'[q] = todo[q] /\ at'[q] = at[q]
    BY <1>5 DEF AssertExchange
  <2>3. asserted' \subseteq declared' /\ declared' = declared /\ sent' = sent
    BY <1>5 DEF AssertExchange
  <2>4. at'[p] \in {"ready", "declaring", "rejected"}
    BY <1>5 DEF AssertExchange
  <2>5. ASSUME NEW q \in Publishes
        PROVE  /\ at'[q] = "declared" => Head(todo'[q]) \in declared'
               /\ at'[q] \in {"opening", "created", "ready", "declaring", "declared"} =>
                    \/ Exchange[q] \in declared'
                    \/ \E i \in 1..Len(todo'[q]) : todo'[q][i] = Exchange[q]
               /\ at'[q] \in {"draining", "confirming", "sleeping"} =>
                    Exchange[q] \in declared'
    <3>1. CASE q = p
      BY <2>1, <2>4, <3>1
    <3>2. CASE q # p
      <4>1. todo'[q] = todo[q] /\ at'[q] = at[q] /\ declared' = declared
        BY <2>2, <2>3, <3>2
      <4>2. QED
        BY <4>1
    <3>3. QED
      BY <3>1, <3>2
  <2>6. SentToDeclared'
    BY <2>3
  <2>7. QED
    BY <2>3, <2>5, <2>6
<1>6. ASSUME NEW p \in Publishes, Declare(p)
      PROVE  Known'
  BY <1>6 DEF Declare
<1>7. ASSUME NEW p \in Publishes, Remember(p)
      PROVE  Known'
  <2>1. Exchange[p] \in declared' \/ \E j \in 1..Len(todo'[p]) : todo'[p][j] = Exchange[p]
    <3>1. CASE Exchange[p] \in declared
      BY <1>7, <3>1 DEF Remember
    <3>2. CASE Exchange[p] \notin declared
      <4>1. PICK i \in 1..Len(todo[p]) : todo[p][i] = Exchange[p]
        BY <1>7, <3>2 DEF Remember
      <4>2. CASE todo' = todo
        BY <1>7, <4>1, <4>2 DEF Remember
      <4>3. CASE Head(todo[p]) \in declared /\ todo' = [todo EXCEPT ![p] = Tail(@)]
        <5>1. todo[p] \in Seq(Exchanges) /\ todo[p] # << >> /\ todo'[p] = Tail(todo[p])
          BY <1>7, <4>3 DEF Remember
        <5>2. todo[p][i] # Head(todo[p])
          BY <3>2, <4>1, <4>3
        <5>3. \E j \in 1..Len(Tail(todo[p])) : Tail(todo[p])[j] = todo[p][i]
          <6> HIDE DEF TypeOK, Placed, Counted, Known
          <6>1. QED
            BY <5>1, <5>2, InHeadOrTail
        <5>4. QED
          BY <4>1, <5>1, <5>3
      <4>4. QED
        BY <1>7, <4>2, <4>3 DEF Remember
    <3>3. QED
      BY <3>1, <3>2
  <2>2. \A q \in Publishes : q # p => todo'[q] = todo[q] /\ at'[q] = at[q]
    BY <1>7 DEF Remember
  <2>3. asserted' \subseteq declared' /\ declared' = declared /\ sent' = sent
    BY <1>7 DEF Remember
  <2>4. at'[p] \in {"ready", "declaring", "rejected"}
    BY <1>7 DEF Remember
  <2>5. ASSUME NEW q \in Publishes
        PROVE  /\ at'[q] = "declared" => Head(todo'[q]) \in declared'
               /\ at'[q] \in {"opening", "created", "ready", "declaring", "declared"} =>
                    \/ Exchange[q] \in declared'
                    \/ \E i \in 1..Len(todo'[q]) : todo'[q][i] = Exchange[q]
               /\ at'[q] \in {"draining", "confirming", "sleeping"} =>
                    Exchange[q] \in declared'
    <3>1. CASE q = p
      BY <2>1, <2>4, <3>1
    <3>2. CASE q # p
      <4>1. todo'[q] = todo[q] /\ at'[q] = at[q] /\ declared' = declared
        BY <2>2, <2>3, <3>2
      <4>2. QED
        BY <4>1
    <3>3. QED
      BY <3>1, <3>2
  <2>6. SentToDeclared'
    BY <2>3
  <2>7. QED
    BY <2>3, <2>5, <2>6
<1>8. ASSUME NEW p \in Publishes, Transmit(p)
      PROVE  Known'
  BY <1>8 DEF Transmit, AfterFailure, Awaited, Pending, Waiting
<1>9. ASSUME NEW c \in Channels, Drained(c)
      PROVE  Known'
  BY <1>9 DEF Drained, Awaited, Pending, Waiting
<1>10. ASSUME NEW m \in Messages, Confirm(m)
      PROVE  Known'
  BY <1>10 DEF Confirm, Hearing
<1>11. ASSUME NEW m \in Messages, Nack(m)
      PROVE  Known'
  BY <1>11 DEF Nack, Hearing, AfterFailure
<1>12. ASSUME NEW c \in Channels, ChannelBreaks(c)
      PROVE  Known'
  BY <1>12 DEF ChannelBreaks
<1>13. ASSUME NEW c \in Channels, ChannelDown(c)
      PROVE  Known'
  BY <1>13 DEF ChannelDown, OnClose, AfterFailure, Pending
<1>14. ASSUME Close
      PROVE  Known'
  BY <1>14 DEF Close
<1>15. ASSUME Closed
      PROVE  Known'
  BY <1>15 DEF Closed
<1>16. CASE UNCHANGED vars
  BY <1>16
<1>17. QED
  BY <1>1, <1>2, <1>3, <1>4, <1>5, <1>6, <1>7, <1>8, <1>9, <1>10, <1>11, <1>12,
     <1>13, <1>14, <1>15, <1>16 DEF Next, Proceed, Answer

(* The last message of a publish is among those it waits for, until it is  *)
(* answered or the channel ends.                                           *)
LEMMA OwnFateStep ==
  ASSUME TypeOK, Placed, Counted, OwnFate, [Next]_vars
  PROVE  OwnFate'
<1> USE PublisherAssumption DEF TypeOK, Placed, Counted, OwnFate, Messages,
        Usable, PublisherAssumption, vars, publisherVars, callVars, linkVars,
        historyVars
<1>1. ASSUME NEW P \in Calls, Publish(P)
      PROVE  OwnFate'
  BY <1>1 DEF Publish
<1>2. ASSUME NEW p \in Publishes, ChannelCreated(p)
      PROVE  OwnFate'
  BY <1>2 DEF ChannelCreated
<1>3. ASSUME NEW p \in Publishes, Install(p)
      PROVE  OwnFate'
  BY <1>3 DEF Install
<1>4. ASSUME NEW p \in Publishes, Reject(p)
      PROVE  OwnFate'
  BY <1>4 DEF Reject
<1>5. ASSUME NEW p \in Publishes, AssertExchange(p)
      PROVE  OwnFate'
  BY <1>5 DEF AssertExchange
<1>6. ASSUME NEW p \in Publishes, Declare(p)
      PROVE  OwnFate'
  BY <1>6 DEF Declare
<1>7. ASSUME NEW p \in Publishes, Remember(p)
      PROVE  OwnFate'
  BY <1>7 DEF Remember
<1>8. ASSUME NEW p \in Publishes, Transmit(p)
      PROVE  OwnFate'
  BY <1>8 DEF Transmit, AfterFailure, Awaited, Pending, Waiting
<1>9. ASSUME NEW c \in Channels, Drained(c)
      PROVE  OwnFate'
  BY <1>9 DEF Drained, Awaited, Pending, Waiting
<1>10. ASSUME NEW m \in Messages, Confirm(m)
      PROVE  OwnFate'
  BY <1>10 DEF Confirm, Hearing
<1>11. ASSUME NEW m \in Messages, Nack(m)
      PROVE  OwnFate'
  BY <1>11 DEF Nack, Hearing, AfterFailure
<1>12. ASSUME NEW c \in Channels, ChannelBreaks(c)
      PROVE  OwnFate'
  BY <1>12 DEF ChannelBreaks
<1>13. ASSUME NEW c \in Channels, ChannelDown(c)
      PROVE  OwnFate'
  BY <1>13 DEF ChannelDown, OnClose, AfterFailure, Pending
<1>14. ASSUME Close
      PROVE  OwnFate'
  BY <1>14 DEF Close
<1>15. ASSUME Closed
      PROVE  OwnFate'
  BY <1>15 DEF Closed
<1>16. CASE UNCHANGED vars
  BY <1>16
<1>17. QED
  BY <1>1, <1>2, <1>3, <1>4, <1>5, <1>6, <1>7, <1>8, <1>9, <1>10, <1>11, <1>12,
     <1>13, <1>14, <1>15, <1>16 DEF Next, Proceed, Answer

(* A publish fails, and so sends its message again, when a message it waits *)
(* for is nacked or the channel ends.                                      *)
LEMMA ResentStep ==
  ASSUME TypeOK, Placed, Counted, Resent, [Next]_vars
  PROVE  Resent'
<1> USE PublisherAssumption DEF TypeOK, Placed, Counted, Resent, Excused,
        Messages, Usable, PublisherAssumption, vars, publisherVars, callVars,
        linkVars, historyVars
<1>1. ASSUME NEW P \in Calls, Publish(P)
      PROVE  Resent'
  BY <1>1 DEF Publish
<1>2. ASSUME NEW p \in Publishes, ChannelCreated(p)
      PROVE  Resent'
  <2>1. \A m \in unconfirmed \cup confirmed \cup nacked : m[1] \in Publishes /\ m[1] # p
    BY <1>2, Before DEF ChannelCreated
  <2>2. \A q \in Publishes : q # p => on'[q] = on[q] /\ at'[q] = at[q]
    BY <1>2 DEF ChannelCreated
  <2>3. \A c \in Channels : chan[c] = "closed" => chan'[c] = "closed"
    BY <1>2 DEF ChannelCreated
  <2>4. ASSUME NEW q \in Publishes, q # p, Excused(q)
        PROVE  Excused(q)'
    BY <1>2, <2>1, <2>2, <2>3, <2>4, Before DEF ChannelCreated
  <2>5. unconfirmed' = unconfirmed /\ confirmed' = confirmed /\ attempt' = attempt
    BY <1>2 DEF ChannelCreated
  <2>6. QED
    <3> HIDE DEF Excused
    <3>1. QED
      BY <2>1, <2>2, <2>4, <2>5
<1>3. ASSUME NEW p \in Publishes, Install(p)
      PROVE  Resent'
  BY <1>3 DEF Install
<1>4. ASSUME NEW p \in Publishes, Reject(p)
      PROVE  Resent'
  BY <1>4 DEF Reject
<1>5. ASSUME NEW p \in Publishes, AssertExchange(p)
      PROVE  Resent'
  BY <1>5 DEF AssertExchange
<1>6. ASSUME NEW p \in Publishes, Declare(p)
      PROVE  Resent'
  BY <1>6 DEF Declare
<1>7. ASSUME NEW p \in Publishes, Remember(p)
      PROVE  Resent'
  BY <1>7 DEF Remember
<1>8. ASSUME NEW p \in Publishes, Transmit(p)
      PROVE  Resent'
  BY <1>8 DEF Transmit, AfterFailure, Awaited, Pending, Waiting
<1>9. ASSUME NEW c \in Channels, Drained(c)
      PROVE  Resent'
  BY <1>9 DEF Drained, Awaited, Pending, Waiting
<1>10. ASSUME NEW m \in Messages, Confirm(m)
      PROVE  Resent'
  BY <1>10 DEF Confirm, Hearing
<1>11. ASSUME NEW m \in Messages, Nack(m)
      PROVE  Resent'
  <2>1. \A q \in Publishes : Excused(q) => Excused(q)'
    BY <1>11 DEF Nack
  <2>2. ASSUME NEW other \in unconfirmed' \cup confirmed',
               attempt'[other[1]] > other[2] \/ at'[other[1]] = "sleeping"
        PROVE  Excused(other[1])'
    <3>1. /\ other \in unconfirmed \cup confirmed /\ other # m
          /\ other[1] \in Publishes /\ attempt' = attempt /\ on' = on
      BY <1>11, <2>2 DEF Nack
    <3>2. CASE attempt[other[1]] > other[2] \/ at[other[1]] = "sleeping"
      BY <2>1, <3>1, <3>2
    <3>3. CASE ~ (attempt[other[1]] > other[2] \/ at[other[1]] = "sleeping")
      <4>1. m \in waits[other[1]] /\ m \in sent /\ on[m[1]] = on[other[1]]
        BY <1>11, <2>2, <3>1, <3>3 DEF Nack, Hearing, AfterFailure
      <4>2. CASE m[1] # other[1]
        BY <1>11, <3>1, <4>1, <4>2 DEF Nack
      <4>3. CASE m[1] = other[1]
        <5>1. other[2] = attempt[other[1]] /\ m[2] # other[2]
          BY <3>1, <3>3, <4>3
        <5>2. attempt[m[1]] > m[2]
          BY <4>1, <4>3, <5>1
        <5>3. QED
          BY <1>11, <2>1, <4>3, <5>2 DEF Nack
      <4>4. QED
        BY <4>2, <4>3
    <3>4. QED
      BY <3>2, <3>3
  <2>3. QED
    BY <2>2
<1>12. ASSUME NEW c \in Channels, ChannelBreaks(c)
      PROVE  Resent'
  BY <1>12 DEF ChannelBreaks
<1>13. ASSUME NEW c \in Channels, ChannelDown(c)
      PROVE  Resent'
  <2>1. \A d \in Channels : d = c \/ chan[d] = "closed" => chan'[d] = "closed"
    BY <1>13 DEF ChannelDown
  <2>2. \A q \in Publishes : Excused(q) => Excused(q)'
    BY <1>13, <2>1 DEF ChannelDown
  <2>3. \A q \in Publishes : at'[q] = "sleeping" => at[q] = "sleeping" \/ on[q] = c
    BY <1>13 DEF ChannelDown
  <2>4. \A q \in Publishes : on[q] = c => Excused(q)'
    BY <1>13, <2>1 DEF ChannelDown
  <2>5. unconfirmed' \cup confirmed' \subseteq unconfirmed \cup confirmed
    BY <1>13 DEF ChannelDown
  <2>6. QED
    BY <1>13, <2>2, <2>3, <2>4, <2>5 DEF ChannelDown
<1>14. ASSUME Close
      PROVE  Resent'
  BY <1>14 DEF Close
<1>15. ASSUME Closed
      PROVE  Resent'
  BY <1>15 DEF Closed
<1>16. CASE UNCHANGED vars
  BY <1>16
<1>17. QED
  BY <1>1, <1>2, <1>3, <1>4, <1>5, <1>6, <1>7, <1>8, <1>9, <1>10, <1>11, <1>12,
     <1>13, <1>14, <1>15, <1>16 DEF Next, Proceed, Answer

(* A channel is reported closed to the handlers of its publisher, or before *)
(* it is installed.                                                        *)
LEMMA ReadyMeansActiveStep ==
  ASSUME TypeOK, Placed, Alone, ReadyMeansActive, [Next]_vars
  PROVE  ReadyMeansActive'
<1> USE PublisherAssumption DEF TypeOK, Placed, Alone, ReadyMeansActive, Channels,
        Usable, PublisherAssumption, vars, publisherVars, callVars, linkVars,
        historyVars
<1>1. ASSUME NEW P \in Calls, Publish(P)
      PROVE  ReadyMeansActive'
  BY <1>1 DEF Publish
<1>2. ASSUME NEW p \in Publishes, ChannelCreated(p)
      PROVE  ReadyMeansActive'
  BY <1>2 DEF ChannelCreated
<1>3. ASSUME NEW p \in Publishes, Install(p)
      PROVE  ReadyMeansActive'
  BY <1>3 DEF Install
<1>4. ASSUME NEW p \in Publishes, Reject(p)
      PROVE  ReadyMeansActive'
  BY <1>4 DEF Reject
<1>5. ASSUME NEW p \in Publishes, AssertExchange(p)
      PROVE  ReadyMeansActive'
  BY <1>5 DEF AssertExchange
<1>6. ASSUME NEW p \in Publishes, Declare(p)
      PROVE  ReadyMeansActive'
  BY <1>6 DEF Declare
<1>7. ASSUME NEW p \in Publishes, Remember(p)
      PROVE  ReadyMeansActive'
  BY <1>7 DEF Remember
<1>8. ASSUME NEW p \in Publishes, Transmit(p)
      PROVE  ReadyMeansActive'
  BY <1>8 DEF Transmit, AfterFailure, Awaited, Pending, Waiting
<1>9. ASSUME NEW c \in Channels, Drained(c)
      PROVE  ReadyMeansActive'
  BY <1>9 DEF Drained, Awaited, Pending, Waiting
<1>10. ASSUME NEW m \in Messages, Confirm(m)
      PROVE  ReadyMeansActive'
  BY <1>10 DEF Confirm, Hearing
<1>11. ASSUME NEW m \in Messages, Nack(m)
      PROVE  ReadyMeansActive'
  BY <1>11 DEF Nack, Hearing, AfterFailure
<1>12. ASSUME NEW c \in Channels, ChannelBreaks(c)
      PROVE  ReadyMeansActive'
  BY <1>12 DEF ChannelBreaks
<1>13. ASSUME NEW c \in Channels, ChannelDown(c)
      PROVE  ReadyMeansActive'
  BY <1>13 DEF ChannelDown, OnClose, AfterFailure, Pending
<1>14. ASSUME Close
      PROVE  ReadyMeansActive'
  BY <1>14 DEF Close
<1>15. ASSUME Closed
      PROVE  ReadyMeansActive'
  BY <1>15 DEF Closed
<1>16. CASE UNCHANGED vars
  BY <1>16
<1>17. QED
  BY <1>1, <1>2, <1>3, <1>4, <1>5, <1>6, <1>7, <1>8, <1>9, <1>10, <1>11, <1>12,
     <1>13, <1>14, <1>15, <1>16 DEF Next, Proceed, Answer
(* The initial states satisfy the invariant. *)
LEMMA InitEstablishes == Init => IInv
<1> SUFFICES ASSUME Init PROVE IInv
  OBVIOUS
<1> USE PublisherAssumption DEF Init, PublisherAssumption
<1>1. TypeOK
  <2>1. << >> \in Seq(Exchanges)
    BY EmptySeq
  <2>2. todo \in [Publishes -> Seq(Exchanges)]
    BY <2>1
  <2>3. attempt \in [Publishes -> 0..MaxAttempts]
    OBVIOUS
  <2>4. waits \in [Publishes -> SUBSET Messages]
    OBVIOUS
  <2>5. at \in [Publishes -> Stages]
    BY DEF Stages
  <2>6. on \in [Publishes -> Channels \cup {None}]
    OBVIOUS
  <2>7. chan \in [Channels -> {"none", "open", "broken", "closing", "closed"}]
    OBVIOUS
  <2>8. QED
    BY <2>2, <2>3, <2>4, <2>5, <2>6, <2>7 DEF TypeOK
<1>2. Placed /\ Alone
  BY DEF Placed, Alone
<1>3. Counted /\ Known
  BY DEF Counted, Known, SentToDeclared
<1>4. OwnFate /\ Resent /\ ReadyMeansActive
  BY DEF OwnFate, Resent, ReadyMeansActive
<1>5. QED
  BY <1>1, <1>2, <1>3, <1>4 DEF IInv

(* Every step preserves it. *)
LEMMA NextPreserves == IInv /\ [Next]_vars => IInv'
BY TypeOKStep, PlacedStep, AloneStep, CountedStep, KnownStep, OwnFateStep,
   ResentStep,
   ReadyMeansActiveStep DEF IInv

(* So it holds in every reachable state. *)
LEMMA Inductive == Spec => []IInv
BY InitEstablishes, NextPreserves, PTL DEF Spec

-------------------------------------------------------------------------------
(* The theorems *)

(* The variables of the publisher, its publishes and its channels keep     *)
(* their types, whatever is published and however channels end.            *)
THEOREM PublisherTypes == Spec => []TypeOK
<1>1. IInv => TypeOK
  BY DEF IInv
<1>2. QED
  BY <1>1, Inductive, PTL

(* A publish() that waits for confirms and resolves has had its last       *)
(* attempt confirmed, or nacked while it waited for 'drain'.               *)
THEOREM ResolvedWereConfirmed == Spec => []ConfirmedWhenResolved
<1>1. IInv => ConfirmedWhenResolved
  BY DEF IInv, OwnFate, ConfirmedWhenResolved
<1>2. QED
  BY <1>1, Inductive, PTL

(* No message goes to an exchange the broker has not declared, however the *)
(* declarations of concurrent publishes and the loss of channels meet.     *)
THEOREM DeclaredBeforeSent == Spec => []SentToDeclared
<1>1. IInv => SentToDeclared
  BY DEF IInv, Known
<1>2. QED
  BY <1>1, Inductive, PTL

(* A confirmed message is sent again only on account of another message or *)
(* of the end of its channel.                                              *)
THEOREM ResentOnAccountOfAnother == Spec => []ResentForAnother
<1>1. IInv => ResentForAnother
  BY DEF IInv, Resent, Excused, ResentForAnother, TypeOK, Messages
<1>2. QED
  BY <1>1, Inductive, PTL

(* The channel publishes will use has not been reported closed, unless it  *)
(* was before its handlers were attached.                                  *)
THEOREM HeldChannelIsActive == Spec => []ReadyMeansActive
<1>1. IInv => ReadyMeansActive
  BY DEF IInv
<1>2. QED
  BY <1>1, Inductive, PTL
=============================================================================
