---------------------------- MODULE Subscriber_proof ----------------------------
(***************************************************************************)
(* The safety properties of Subscriber, for any events, handlers, patterns *)
(* and channels.                                                           *)
(***************************************************************************)
EXTENDS Subscriber, TopicPatterns_proof, TLAPS

-------------------------------------------------------------------------------
(* The inductive invariant *)

(* Who works on a channel has one, and who runs has a consumer's tag. *)
Placed ==
  /\ \A t \in Threads : pc[t] \in {"setup", "accepted"} => on[t] # None
  /\ running /\ stop = "idle" => consumerTag # None
  /\ stop = "closing" => stopping \in Channels

(* The channel held was created, consumers are on open channels, and       *)
(* stop() closes one that is not.                                          *)
InUse ==
  /\ channel # None => chan[channel] # "none"
  /\ \A k \in consumers : chan[k[1]] = "open"
  /\ stop = "closing" => chan[stopping] \in {"broken", "closed"}

(* An event being handled has the channel it will be answered on; without  *)
(* an answer, it is on an open one.                                        *)
Captured ==
  /\ \A d \in Delivered : deliv[d].at # "ended" => deliv[d].via # None
  /\ \A d \in Delivered : chan[d[1]] # "none"
  /\ \A d \in Unsettled : chan[d[1]] = "open"

(* An event is not answered before its handling ends. *)
AnsweredAtTheEnd ==
  ~crossed =>
    \A d \in Delivered : deliv[d].at # "ended" =>
      \/ deliv[d].settled = "no"
      \/ deliv[d].settled = "lost" /\ chan[d[1]] # "open"

(* In strict mode an event is handled until a handler fails, and its       *)
(* handlers are waited for as long as they run.                            *)
StrictWaits ==
  ~isolateErrors =>
    \A d \in Delivered : deliv[d].at # "ended" =>
      /\ deliv[d].failed = {}
      /\ deliv[d].busy = deliv[d].waits
      /\ deliv[d].at = "arrived" => deliv[d].waits = {}

(* inFlightMessages has the key of every event being handled, but for one  *)
(* whose key another delivery has removed.                                 *)
Tracked ==
  \A d \in Delivered : deliv[d].at # "ended" =>
    \/ Key(d) \in inFlight
    \/ \E e \in Delivered \ {d} : Key(e) = Key(d) /\ deliv[e].at = "ended"

IInv ==
  /\ TypeOK /\ Placed /\ InUse /\ Captured
  /\ AnsweredAtTheEnd /\ StrictWaits /\ Tracked
  /\ StrictAcksAllOrNothing /\ SettledOnce /\ NothingForgotten
  /\ DrainedMeansSettled /\ RunningIsConsuming

-------------------------------------------------------------------------------
(* What a step does to the deliveries *)

(* g is deliv after some work on d that does not answer it. *)
Worked(d, g) ==
  /\ d \in Delivered
  /\ g \in [Deliveries -> Delivery \cup {None}]
  /\ \A e \in Deliveries \ {d} : g[e] = deliv[e]
  /\ g[d] \in Delivery
  /\ g[d].msg = deliv[d].msg
  /\ g[d].via = deliv[d].via
  /\ g[d].settled = deliv[d].settled

(* handleMessage() for d ends with this verdict. *)
Ends(d, g, verdict) ==
  /\ Worked(d, g)
  /\ deliv[d].at # "ended"
  /\ verdict \in {"acked", "dead"}
  /\ verdict = "acked" /\ ~isolateErrors => g[d].failed = {} /\ g[d].busy = {}
  /\ Finish(d, g, verdict)

(* It goes on, or had ended and a handler left behind ends now. *)
GoesOn(d, g) ==
  /\ Worked(d, g)
  /\ g[d].at = "ended" <=> deliv[d].at = "ended"
  /\ g[d].at = "ended" => g[d].failed = deliv[d].failed /\ g[d].busy \subseteq deliv[d].busy
  /\ g[d].at # "ended" /\ ~isolateErrors =>
       g[d].failed = {} /\ g[d].busy = g[d].waits /\ g[d].at # "arrived"
  /\ deliv' = g
  /\ UNCHANGED << linkVars, malformed, queued, workVars >>

(* What the end of handleMessage() for d leaves. *)
Answers(d, g, verdict) ==
  LET via == deliv[d].via
      t == << via, d[2] >>
  IN
  /\ via \in Channels /\ t \in Deliveries
  /\ deliv' \in [Deliveries -> Delivery \cup {None}]
  /\ Delivered' = Delivered
  /\ \A e \in Delivered :
       /\ deliv'[e].msg = deliv[e].msg
       /\ deliv'[e].via = deliv[e].via
       /\ deliv'[e].at = IF e = d THEN "ended" ELSE deliv[e].at
       /\ deliv'[e].waits = g[e].waits
       /\ deliv'[e].failed = g[e].failed
       /\ deliv'[e].busy = g[e].busy
  /\ \/ /\ chan[via] # "open" \/ t \in Unsettled
        /\ \A e \in Delivered :
             deliv'[e].settled = IF chan[via] = "open" /\ e = t THEN verdict
                                 ELSE deliv[e].settled
        /\ UNCHANGED << linkVars, queued >>
     \/ /\ chan[via] = "open"
        /\ t \notin Unsettled
        /\ \A e \in Delivered :
             deliv'[e].settled = IF e \in Unsettled /\ e[1] = via THEN "lost"
                                 ELSE deliv[e].settled
        /\ chan' = [chan EXCEPT ![via] = "broken"]
        /\ consumers' = {k \in consumers : k[1] # via}
        /\ queued' \subseteq Messages
  /\ crossed' = (crossed \/ (chan[via] = "open" /\ via # d[1]))
  /\ unknownTag' = (unknownTag \/ (chan[via] = "open" /\ t \notin Unsettled))
  /\ malformed' = malformed
  /\ inFlight' = inFlight \ {Key(d)}

(* What the loss of channel c leaves. *)
Loses(c, state) ==
  /\ deliv' \in [Deliveries -> Delivery \cup {None}]
  /\ Delivered' = Delivered
  /\ \A e \in Delivered :
       /\ deliv'[e].msg = deliv[e].msg
       /\ deliv'[e].via = deliv[e].via
       /\ deliv'[e].at = deliv[e].at
       /\ deliv'[e].waits = deliv[e].waits
       /\ deliv'[e].failed = deliv[e].failed
       /\ deliv'[e].busy = deliv[e].busy
       /\ deliv'[e].settled = IF e \in Unsettled /\ e[1] = c THEN "lost" ELSE deliv[e].settled
  /\ chan' = [chan EXCEPT ![c] = state]
  /\ consumers' = {k \in consumers : k[1] # c}
  /\ queued' \subseteq Messages
  /\ malformed' = malformed

(* What the arrival of event m at consumer k, as d, leaves. *)
Arrives(m, k, d) ==
  /\ d[1] = k[1]
  /\ d \notin Delivered
  /\ Delivered' = Delivered \cup {d}
  /\ deliv' \in [Deliveries -> Delivery \cup {None}]
  /\ \A e \in Delivered : deliv'[e] = deliv[e]
  /\ deliv'[d] = [msg |-> m, settled |-> "no", via |-> channel,
                  at |-> IF channel = None THEN "ended" ELSE "arrived",
                  waits |-> {}, failed |-> {}, busy |-> {}]
  /\ inFlight' = IF channel = None THEN inFlight ELSE inFlight \cup {KeyOf(m, d[2])}

(* The two updates of a delivery that end its handling or answer it. *)
LEMMA DeliveryUpdates ==
  ASSUME NEW r \in Delivery, NEW v \in {"no", "acked", "dead", "lost"}
  PROVE  /\ [r EXCEPT !.at = "ended"] \in Delivery
         /\ [r EXCEPT !.at = "ended"] =
              [msg |-> r.msg, settled |-> r.settled, via |-> r.via, at |-> "ended",
               waits |-> r.waits, failed |-> r.failed, busy |-> r.busy]
         /\ [r EXCEPT !.settled = v] \in Delivery
         /\ [r EXCEPT !.settled = v] =
              [msg |-> r.msg, settled |-> v, via |-> r.via, at |-> r.at,
               waits |-> r.waits, failed |-> r.failed, busy |-> r.busy]
BY DEF Delivery

(* A delivery that is not None is a record. *)
LEMMA DeliveredAreDeliveries ==
  ASSUME TypeOK
  PROVE  /\ \A d \in Delivered : deliv[d] \in Delivery /\ d \in Deliveries
         /\ None \notin Delivery /\ None \notin Channels
BY NoneAssumption DEF TypeOK, Delivered

(* What the loss of channel c leaves of the deliveries f. *)
LEMMA DropEffect ==
  ASSUME TypeOK, NEW c, NEW state, NEW f \in [Deliveries -> Delivery \cup {None}],
         \A e \in Deliveries : f[e] = None <=> deliv[e] = None,
         Drop(c, state, f)
  PROVE  /\ deliv' \in [Deliveries -> Delivery \cup {None}]
         /\ Delivered' = Delivered
         /\ \A e \in Delivered :
              /\ deliv'[e].msg = f[e].msg
              /\ deliv'[e].via = f[e].via
              /\ deliv'[e].at = f[e].at
              /\ deliv'[e].waits = f[e].waits
              /\ deliv'[e].failed = f[e].failed
              /\ deliv'[e].busy = f[e].busy
              /\ deliv'[e].settled =
                   IF e \in Unsettled /\ e[1] = c THEN "lost" ELSE f[e].settled
         /\ queued' \subseteq Messages
<1> USE DeliveredAreDeliveries
<1> DEFINE lost == {d \in Unsettled : d[1] = c}
<1>1. deliv' = [d \in Deliveries |->
                  IF d \in lost THEN [f[d] EXCEPT !.settled = "lost"] ELSE f[d]]
  BY DEF Drop
<1>2. lost \subseteq Delivered /\ Delivered \subseteq Deliveries
  BY DEF Unsettled, Delivered
<1>3. \A e \in Delivered : f[e] \in Delivery
  BY DEF Delivered
<1>4. \A e \in lost : [f[e] EXCEPT !.settled = "lost"] \in Delivery
  BY <1>2, <1>3, DeliveryUpdates
<1>5. deliv' \in [Deliveries -> Delivery \cup {None}]
  BY <1>1, <1>4
<1>6. \A e \in Deliveries : deliv'[e] = None <=> deliv[e] = None
  BY <1>1, <1>2, <1>3, <1>4 DEF Delivered
<1>7. Delivered' = Delivered
  BY <1>6 DEF Delivered
<1>8. \A e \in Delivered \ lost : deliv'[e] = f[e]
  BY <1>1, <1>2
<1>9. \A e \in lost : deliv'[e] = [f[e] EXCEPT !.settled = "lost"]
  BY <1>1, <1>2
<1>10. ASSUME NEW e \in Delivered
       PROVE  /\ deliv'[e].msg = f[e].msg
              /\ deliv'[e].via = f[e].via
              /\ deliv'[e].at = f[e].at
              /\ deliv'[e].waits = f[e].waits
              /\ deliv'[e].failed = f[e].failed
              /\ deliv'[e].busy = f[e].busy
              /\ deliv'[e].settled =
                   IF e \in Unsettled /\ e[1] = c THEN "lost" ELSE f[e].settled
  <2>1. CASE e \in lost
    <3>1. f[e] \in Delivery /\ deliv'[e] = [f[e] EXCEPT !.settled = "lost"]
      BY <1>3, <1>9, <2>1
    <3>2. deliv'[e] = [msg |-> f[e].msg, settled |-> "lost", via |-> f[e].via, at |-> f[e].at,
                       waits |-> f[e].waits, failed |-> f[e].failed, busy |-> f[e].busy]
      BY <3>1, DeliveryUpdates
    <3>3. QED
      BY <2>1, <3>2
  <2>2. CASE e \notin lost
    BY <1>8, <2>2
  <2>3. QED
    BY <2>1, <2>2
<1>11. queued' \subseteq Messages
  <2>1. \A e \in lost : deliv[e].msg \in Messages
    BY <1>2 DEF Delivery
  <2>2. QED
    BY <2>1 DEF Drop, TypeOK
<1>12. QED
  BY <1>5, <1>7, <1>10, <1>11

(* What the end of handleMessage() for d leaves of the deliveries. *)
LEMMA FinishEffect ==
  ASSUME TypeOK, Captured, NEW d, NEW g, NEW verdict, Ends(d, g, verdict)
  PROVE  Answers(d, g, verdict)
<1> USE DeliveredAreDeliveries
<1> DEFINE via == deliv[d].via
           t == << via, d[2] >>
           ended == [g EXCEPT ![d].at = "ended"]
<1>1. d \in Delivered /\ d \in Deliveries /\ deliv[d].at # "ended" /\ Worked(d, g)
      /\ verdict \in {"acked", "dead"}
  BY DEF Ends, Worked
<1>2. via \in Channels /\ t \in Deliveries
  BY <1>1 DEF Captured, Delivery, Deliveries
<1>3. /\ \A e \in Deliveries \ {d} : g[e] = deliv[e]
      /\ \A e \in Delivered : g[e] \in Delivery
      /\ \A e \in Deliveries : g[e] = None <=> deliv[e] = None
  BY <1>1 DEF Worked, Delivered
<1>4. ended = [e \in Deliveries |-> IF e = d THEN [g[e] EXCEPT !.at = "ended"] ELSE g[e]]
  BY <1>1 DEF Worked
<1>5. [g[d] EXCEPT !.at = "ended"] \in Delivery
  BY <1>1, <1>3, DeliveryUpdates
<1>6. /\ ended \in [Deliveries -> Delivery \cup {None}]
      /\ \A e \in Deliveries : ended[e] = None <=> deliv[e] = None
  BY <1>1, <1>3, <1>4, <1>5 DEF Worked
<1>7. ASSUME NEW e \in Delivered
      PROVE  /\ ended[e] \in Delivery
             /\ ended[e].msg = deliv[e].msg
             /\ ended[e].via = deliv[e].via
             /\ ended[e].settled = deliv[e].settled
             /\ ended[e].at = IF e = d THEN "ended" ELSE deliv[e].at
             /\ ended[e].waits = g[e].waits
             /\ ended[e].failed = g[e].failed
             /\ ended[e].busy = g[e].busy
  <2>1. CASE e = d
    BY <1>1, <1>3, <1>4, <1>5, <2>1, DeliveryUpdates DEF Worked
  <2>2. CASE e # d
    BY <1>3, <1>4, <2>2
  <2>3. QED
    BY <2>1, <2>2
<1> HIDE DEF ended
<1>8. CASE chan[via] # "open"
  <2>1. deliv' = ended /\ UNCHANGED << linkVars, malformed, queued >>
    BY <1>8 DEF Ends, Finish, Settle, ended
  <2>2. Delivered' = Delivered
    BY <1>6, <2>1 DEF Delivered
  <2>3. QED
    BY <1>2, <1>6, <1>7, <1>8, <2>1, <2>2 DEF Ends, Finish, Settle, Answers
<1>9. CASE chan[via] = "open" /\ t \in Unsettled
  <2>1. /\ deliv' = [ended EXCEPT ![t].settled = verdict]
        /\ UNCHANGED << linkVars, malformed, queued >>
    BY <1>9 DEF Ends, Finish, Settle, ended
  <2>2. t \in Delivered
    BY <1>9 DEF Unsettled
  <2>3. deliv' = [e \in Deliveries |->
                    IF e = t THEN [ended[e] EXCEPT !.settled = verdict] ELSE ended[e]]
    BY <1>6, <2>1
  <2>4. [ended[t] EXCEPT !.settled = verdict] \in Delivery
    BY <1>1, <1>7, <2>2, DeliveryUpdates
  <2>5. /\ deliv' \in [Deliveries -> Delivery \cup {None}]
        /\ \A e \in Deliveries : deliv'[e] = None <=> deliv[e] = None
    BY <1>6, <2>2, <2>3, <2>4 DEF Delivered
  <2>6. Delivered' = Delivered
    BY <2>5 DEF Delivered
  <2>7. ASSUME NEW e \in Delivered
        PROVE  /\ deliv'[e].msg = deliv[e].msg
               /\ deliv'[e].via = deliv[e].via
               /\ deliv'[e].at = IF e = d THEN "ended" ELSE deliv[e].at
               /\ deliv'[e].waits = g[e].waits
               /\ deliv'[e].failed = g[e].failed
               /\ deliv'[e].busy = g[e].busy
               /\ deliv'[e].settled = IF e = t THEN verdict ELSE deliv[e].settled
    <3>1. CASE e = t
      <4> DEFINE r == ended[e]
      <4>1. r \in Delivery /\ deliv'[e] = [r EXCEPT !.settled = verdict]
        BY <1>7, <2>2, <2>3, <3>1
      <4>2. deliv'[e] = [msg |-> r.msg, settled |-> verdict, via |-> r.via, at |-> r.at,
                         waits |-> r.waits, failed |-> r.failed, busy |-> r.busy]
        <5> HIDE DEF r
        <5>1. QED
          BY <1>1, <4>1, DeliveryUpdates
      <4>3. QED
        BY <1>7, <3>1, <4>2
    <3>2. CASE e # t
      BY <1>7, <2>3, <3>2
    <3>3. QED
      BY <3>1, <3>2
  <2>8. QED
    BY <1>2, <1>9, <2>1, <2>5, <2>6, <2>7 DEF Ends, Finish, Settle, Answers
<1>10. CASE chan[via] = "open" /\ t \notin Unsettled
  <2>1. Drop(via, "broken", ended)
    BY <1>10 DEF Ends, Finish, Settle, ended
  <2>2. /\ chan' = [chan EXCEPT ![via] = "broken"]
        /\ consumers' = {k \in consumers : k[1] # via}
        /\ malformed' = malformed
    BY <2>1 DEF Drop
  <2>3. /\ deliv' \in [Deliveries -> Delivery \cup {None}]
        /\ Delivered' = Delivered
        /\ queued' \subseteq Messages
        /\ \A e \in Delivered :
              /\ deliv'[e].msg = deliv[e].msg
              /\ deliv'[e].via = deliv[e].via
              /\ deliv'[e].at = IF e = d THEN "ended" ELSE deliv[e].at
              /\ deliv'[e].waits = g[e].waits
              /\ deliv'[e].failed = g[e].failed
              /\ deliv'[e].busy = g[e].busy
              /\ deliv'[e].settled = IF e \in Unsettled /\ e[1] = via THEN "lost"
                                     ELSE deliv[e].settled
    BY <1>6, <1>7, <2>1, DropEffect
  <2>4. QED
    BY <1>2, <1>10, <2>2, <2>3 DEF Ends, Finish, Settle, Answers
<1>11. QED
  BY <1>8, <1>9, <1>10 DEF Answers

(* A channel that is lost without an answer on its way. *)
LEMMA LossEffect ==
  ASSUME TypeOK, NEW c, NEW state, Drop(c, state, deliv)
  PROVE  Loses(c, state)
<1>1. deliv \in [Deliveries -> Delivery \cup {None}]
  BY DEF TypeOK
<1>2. /\ chan' = [chan EXCEPT ![c] = state]
      /\ consumers' = {k \in consumers : k[1] # c}
      /\ malformed' = malformed
  BY DEF Drop
<1>3. QED
  BY <1>1, <1>2, DropEffect DEF Loses

(* What the delivery of an event leaves. *)
LEMMA DeliverEffect ==
  ASSUME TypeOK, NEW m \in Messages, NEW k \in consumers, Deliver(m, k)
  PROVE  \E d \in Deliveries : Arrives(m, k, d)
<1> USE DeliveredAreDeliveries
<1>1. k[1] \in Channels
  BY DEF TypeOK
<1>2. PICK tag \in 1..MaxTags :
        LET d == << k[1], tag >> IN
        /\ deliv[d] = None
        /\ deliv' = [deliv EXCEPT ![d] =
                      [msg |-> m, settled |-> "no", via |-> channel,
                       at |-> IF channel = None THEN "ended" ELSE "arrived",
                       waits |-> {}, failed |-> {}, busy |-> {}]]
        /\ inFlight' = IF channel = None THEN inFlight ELSE inFlight \cup {KeyOf(m, tag)}
  BY DEF Deliver
<1> DEFINE d == << k[1], tag >>
           r == [msg |-> m, settled |-> "no", via |-> channel,
                 at |-> IF channel = None THEN "ended" ELSE "arrived",
                 waits |-> {}, failed |-> {}, busy |-> {}]
<1>3. d \in Deliveries /\ d[1] = k[1] /\ d[2] = tag /\ d \notin Delivered
  BY <1>1, <1>2 DEF Deliveries, Delivered
<1>4. r \in Delivery
  BY DEF Delivery, TypeOK
<1>5. deliv' = [e \in Deliveries |-> IF e = d THEN r ELSE deliv[e]]
  BY <1>2, <1>3 DEF TypeOK
<1> HIDE DEF r, d
<1>6. deliv' \in [Deliveries -> Delivery \cup {None}]
  BY <1>4, <1>5 DEF TypeOK
<1>7. Delivered' = Delivered \cup {d}
  BY <1>3, <1>4, <1>5 DEF Delivered
<1>8. \A e \in Delivered : deliv'[e] = deliv[e]
  BY <1>3, <1>5 DEF Delivered
<1>9. QED
  BY <1>2, <1>3, <1>5, <1>6, <1>7, <1>8 DEF r, d, Arrives

(* What an outcome does, in either mode. *)
LEMMA OutcomeEffect ==
  ASSUME TypeOK, StrictWaits,
         NEW d \in Delivered, NEW h \in Handlers, NEW ok \in BOOLEAN, NEW stillBusy \in BOOLEAN,
         deliv[d].at = "handling", h \in deliv[d].waits,
         ok => ~stillBusy,
         Outcome(d, h, ok, stillBusy)
  PROVE  (\E g, verdict : Ends(d, g, verdict)) \/ (\E g : GoesOn(d, g))
<1> USE DeliveredAreDeliveries
<1> DEFINE g == [deliv EXCEPT ![d].waits = @ \ {h},
                              ![d].failed = IF ok THEN @ ELSE @ \cup {h},
                              ![d].busy = IF stillBusy THEN @ ELSE @ \ {h}]
<1>1. deliv[d] \in Delivery /\ d \in Deliveries /\ deliv \in [Deliveries -> Delivery \cup {None}]
  BY DEF TypeOK
<1>2. g[d] \in Delivery
  BY <1>1 DEF Delivery
<1>3. /\ g[d].msg = deliv[d].msg
      /\ g[d].via = deliv[d].via
      /\ g[d].settled = deliv[d].settled
      /\ g[d].at = deliv[d].at
      /\ g[d].waits = deliv[d].waits \ {h}
      /\ g[d].failed = IF ok THEN deliv[d].failed ELSE deliv[d].failed \cup {h}
      /\ g[d].busy = IF stillBusy THEN deliv[d].busy ELSE deliv[d].busy \ {h}
  BY <1>1 DEF Delivery
<1>4. /\ g \in [Deliveries -> Delivery \cup {None}]
      /\ \A e \in Deliveries \ {d} : g[e] = deliv[e]
  <2>1. \A e \in Deliveries \ {d} : g[e] = deliv[e]
    BY <1>1
  <2>2. \A e \in Deliveries : g[e] \in Delivery \cup {None}
    BY <1>1, <1>2, <2>1
  <2>3. g = [e \in Deliveries |-> g[e]]
    BY <1>1
  <2>4. QED
    <3> HIDE DEF g
    <3>1. QED
      BY <2>1, <2>2, <2>3
<1> HIDE DEF g
<1>5. Worked(d, g)
  BY <1>2, <1>3, <1>4 DEF Worked
<1>6. g[d].at = "handling"
  BY <1>3
<1>7. ~isolateErrors /\ ok => g[d].failed = {} /\ g[d].busy = g[d].waits
  BY <1>3 DEF StrictWaits
<1>8. CASE isolateErrors
  <2>1. Isolated(d, g)
    BY <1>8 DEF Outcome, g
  <2>2. CASE g[d].waits # {}
    <3>1. GoesOn(d, g)
      BY <1>5, <1>6, <1>8, <2>1, <2>2 DEF Isolated, GoesOn
    <3>2. QED
      BY <3>1
  <2>3. CASE Finish(d, g, "acked")
    <3>1. Ends(d, g, "acked")
      BY <1>5, <1>8, <2>3 DEF Ends
    <3>2. QED
      BY <3>1
  <2>4. CASE Finish(d, g, "dead")
    <3>1. Ends(d, g, "dead")
      BY <1>5, <1>8, <2>4 DEF Ends
    <3>2. QED
      BY <3>1
  <2>5. QED
    BY <2>1, <2>2, <2>3, <2>4 DEF Isolated
<1>9. CASE ~isolateErrors
  <2>1. Strict(d, g, ok)
    BY <1>9 DEF Outcome, g
  <2>2. CASE ok /\ g[d].waits # {}
    <3>1. GoesOn(d, g)
      BY <1>5, <1>6, <1>7, <1>9, <2>1, <2>2 DEF Strict, GoesOn
    <3>2. QED
      BY <3>1
  <2>3. CASE ok /\ g[d].waits = {}
    <3>1. Ends(d, g, "acked")
      BY <1>5, <1>7, <1>9, <2>1, <2>3 DEF Strict, Ends
    <3>2. QED
      BY <3>1
  <2>4. CASE ~ok
    <3>1. Ends(d, g, "dead")
      BY <1>5, <1>9, <2>1, <2>4 DEF Strict, Ends
    <3>2. QED
      BY <3>1
  <2>5. QED
    BY <2>2, <2>3, <2>4
<1>10. QED
  BY <1>8, <1>9

(* A parsed event is answered, or its handlers are called. *)
LEMMA ParsedEffect ==
  ASSUME TypeOK, StrictWaits, NEW d \in Deliveries, Parsed(d)
  PROVE  (\E g, verdict : Ends(d, g, verdict)) \/ (\E g : GoesOn(d, g))
<1> USE DeliveredAreDeliveries
<1>1. d \in Delivered /\ deliv[d].at = "arrived"
  BY DEF Parsed
<1>2. Worked(d, deliv)
  BY <1>1 DEF Worked, TypeOK
<1>3. ~isolateErrors => deliv[d].failed = {} /\ deliv[d].busy = {}
  BY <1>1 DEF StrictWaits
<1>4. CASE deliv[d].msg \in malformed /\ Refuse(d)
  <2>1. PICK strategy \in MalformedStrategies :
          Finish(d, deliv, IF strategy = "ignore" THEN "acked" ELSE "dead")
    BY <1>4 DEF Refuse
  <2>2. Ends(d, deliv, IF strategy = "ignore" THEN "acked" ELSE "dead")
    BY <1>1, <1>2, <1>3, <1>4, <2>1 DEF Ends
  <2>3. QED
    BY <2>2
<1>5. CASE Finish(d, deliv, "acked")
  <2>1. Ends(d, deliv, "acked")
    BY <1>1, <1>2, <1>3, <1>5 DEF Ends
  <2>2. QED
    BY <2>1
<1>6. CASE CallHandlers(d)
  <2> DEFINE hs == Matching(deliv[d].msg)
             g == [deliv EXCEPT ![d].at = "handling", ![d].waits = hs, ![d].busy = hs]
  <2>1. hs \subseteq Handlers
    BY DEF Matching, TypeOK
  <2> HIDE DEF hs
  <2>2. deliv[d] \in Delivery /\ deliv \in [Deliveries -> Delivery \cup {None}]
    BY <1>1 DEF TypeOK
  <2>3. g[d] \in Delivery
    BY <2>1, <2>2 DEF Delivery
  <2>4. /\ g[d].msg = deliv[d].msg
        /\ g[d].via = deliv[d].via
        /\ g[d].settled = deliv[d].settled
        /\ g[d].at = "handling"
        /\ g[d].waits = hs
        /\ g[d].failed = deliv[d].failed
        /\ g[d].busy = hs
    BY <2>2 DEF Delivery
  <2>5. /\ g \in [Deliveries -> Delivery \cup {None}]
        /\ \A e \in Deliveries \ {d} : g[e] = deliv[e]
    BY <2>1, <2>2 DEF Delivery
  <2>6. /\ deliv' = g
        /\ UNCHANGED << linkVars, malformed, queued, workVars >>
    BY <1>6 DEF CallHandlers, hs
  <2> HIDE DEF g
  <2>7. Worked(d, g)
    BY <1>1, <2>3, <2>4, <2>5 DEF Worked
  <2>8. GoesOn(d, g)
    BY <1>1, <1>3, <2>4, <2>6, <2>7 DEF GoesOn
  <2>9. QED
    BY <2>8
<1>7. QED
  BY <1>4, <1>5, <1>6 DEF Parsed

(* A handler that ends or exceeds its time: an outcome, unless nobody      *)
(* waits for it any more.                                                  *)
LEMMA HandlerEffect ==
  ASSUME TypeOK, StrictWaits, NEW d \in Deliveries, NEW h \in Handlers,
         HandlerTimesOut(d, h) \/ \E ok \in BOOLEAN : HandlerEnds(d, h, ok)
  PROVE  (\E g, verdict : Ends(d, g, verdict)) \/ (\E g : GoesOn(d, g))
<1> USE DeliveredAreDeliveries
<1>1. CASE HandlerTimesOut(d, h)
  BY <1>1, OutcomeEffect DEF HandlerTimesOut
<1>2. ASSUME NEW ok \in BOOLEAN, HandlerEnds(d, h, ok)
      PROVE  (\E g, verdict : Ends(d, g, verdict)) \/ (\E g : GoesOn(d, g))
  <2>1. CASE deliv[d].at = "handling" /\ h \in deliv[d].waits
    <3>1. d \in Delivered /\ Outcome(d, h, ok, FALSE)
      BY <1>2, <2>1 DEF HandlerEnds
    <3>2. QED
      BY <2>1, <3>1, OutcomeEffect
  <2>2. CASE ~ (deliv[d].at = "handling" /\ h \in deliv[d].waits)
    <3> DEFINE g == [deliv EXCEPT ![d].busy = @ \ {h}]
    <3>1. /\ d \in Delivered /\ h \in deliv[d].busy
          /\ deliv' = g
          /\ UNCHANGED << linkVars, malformed, queued, workVars >>
      BY <1>2, <2>2 DEF HandlerEnds
    <3>2. deliv[d] \in Delivery /\ deliv \in [Deliveries -> Delivery \cup {None}]
      BY <3>1 DEF TypeOK
    <3>3. g[d] \in Delivery
      BY <3>2 DEF Delivery
    <3>4. /\ g[d].msg = deliv[d].msg
          /\ g[d].via = deliv[d].via
          /\ g[d].settled = deliv[d].settled
          /\ g[d].at = deliv[d].at
          /\ g[d].failed = deliv[d].failed
          /\ g[d].busy = deliv[d].busy \ {h}
      BY <3>2 DEF Delivery
    <3>5. /\ g \in [Deliveries -> Delivery \cup {None}]
          /\ \A e \in Deliveries \ {d} : g[e] = deliv[e]
      BY <3>2 DEF Delivery
    <3> HIDE DEF g
    <3>6. Worked(d, g)
      BY <3>1, <3>3, <3>4, <3>5 DEF Worked
    <3>7. ~isolateErrors => deliv[d].at = "ended"
      BY <2>2, <3>1 DEF StrictWaits, Delivery
    <3>8. GoesOn(d, g)
      BY <3>1, <3>4, <3>6, <3>7 DEF GoesOn
    <3>9. QED
      BY <3>8
  <2>3. QED
    BY <2>1, <2>2
<1>3. QED
  BY <1>1, <1>2

-------------------------------------------------------------------------------
(* The steps, those of the handlers by what they do to the deliveries. *)
Steps ==
  \/ \E h \in Handlers : On(h)
  \/ \E s \in Starters : Start(s)
  \/ TimerFires
  \/ \E t \in Threads : Opened(t) \/ Consume(t) \/ Registered(t) \/ RegistrationFails(t)
  \/ \E m \in Messages, k \in consumers : Deliver(m, k)
  \/ UNCHANGED idle /\ \E d, g, verdict : Ends(d, g, verdict)
  \/ UNCHANGED idle /\ \E d, g : GoesOn(d, g)
  \/ \E k \in consumers : ConsumerCancelled(k)
  \/ \E c \in Channels : ChannelBreaks(c) \/ ChannelDown(c)
  \/ StopBegins \/ StopCancels \/ StopWaited \/ StopCloses
  \/ UNCHANGED vars

LEMMA StepCases ==
  ASSUME TypeOK, StrictWaits, [Next]_vars
  PROVE  Steps
<1>1. ASSUME NEW d \in Deliveries, Parsed(d)
      PROVE  Steps
  BY <1>1, ParsedEffect DEF Parsed, Steps
<1>2. ASSUME NEW d \in Deliveries, NEW h \in Handlers,
             HandlerTimesOut(d, h) \/ \E ok \in BOOLEAN : HandlerEnds(d, h, ok)
      PROVE  Steps
  <2>1. UNCHANGED idle
    BY <1>2 DEF HandlerTimesOut, HandlerEnds
  <2>2. QED
    BY <1>2, <2>1, HandlerEffect DEF Steps
<1>3. CASE Handle
  BY <1>1, <1>2, <1>3 DEF Handle, Steps
<1>4. CASE Register
  BY <1>4 DEF Register, Steps
<1>5. QED
  BY <1>3, <1>4 DEF Next, Steps

-------------------------------------------------------------------------------
(* The steps, as the deliveries see them *)

(* Nothing arrives, ends or is lost; channels are opened or closed for     *)
(* good.                                                                   *)
Quiet ==
  /\ UNCHANGED << setting, isolateErrors, malformed, deliv, inFlight, crossed, unknownTag >>
  /\ \A c \in Channels :
       /\ chan[c] = "open" => chan'[c] = "open"
       /\ chan[c] \in {"broken", "closed"} => chan'[c] \in {"broken", "closed"}

Arrival(m, k, d) ==
  /\ Arrives(m, k, d)
  /\ UNCHANGED << setting, isolateErrors, malformed, chan, crossed, unknownTag >>

Loss(c, state) ==
  /\ Loses(c, state)
  /\ state \in {"broken", "closed"}
  /\ chan[c] # "none"
  /\ UNCHANGED << setting, isolateErrors, inFlight, crossed, unknownTag >>

DeliverySteps ==
  \/ Quiet
  \/ \E m \in Messages, k \in consumers, d \in Deliveries : Arrival(m, k, d)
  \/ UNCHANGED << setting, isolateErrors >> /\ \E d, g, verdict : Ends(d, g, verdict)
  \/ UNCHANGED << setting, isolateErrors >> /\ \E d, g : GoesOn(d, g)
  \/ \E c \in Channels : \E state : Loss(c, state)

LEMMA DeliveryCases ==
  ASSUME TypeOK, Placed, InUse, Steps
  PROVE  DeliverySteps
<1> USE DEF TypeOK, vars, fieldVars, givenVars, reconnectVars, callVars, stopVars, linkVars, eventVars,
          workVars, restOfStep, idle
<1>1. CASE \E h \in Handlers : On(h)
  BY <1>1 DEF On, Quiet, DeliverySteps
<1>2. CASE \E s \in Starters : Start(s)
  BY <1>2 DEF Start, Quiet, DeliverySteps
<1>3. CASE TimerFires
  BY <1>3 DEF TimerFires, Quiet, DeliverySteps
<1>4. ASSUME NEW t \in Threads, Opened(t) \/ Consume(t) \/ Registered(t) \/ RegistrationFails(t)
      PROVE  DeliverySteps
  <2>1. CASE Opened(t)
    <3>1. Quiet
      BY <2>1 DEF Opened, Quiet
    <3>2. QED
      BY <3>1 DEF DeliverySteps
  <2>2. CASE Consume(t) \/ Registered(t) \/ RegistrationFails(t)
    BY <2>2 DEF Consume, Registered, RegistrationFails, Quiet, DeliverySteps
  <2>3. QED
    BY <1>4, <2>1, <2>2
<1>5. ASSUME NEW m \in Messages, NEW k \in consumers, Deliver(m, k)
      PROVE  DeliverySteps
  <2>1. PICK d \in Deliveries : Arrives(m, k, d)
    BY <1>5, DeliverEffect
  <2>2. Arrival(m, k, d)
    BY <1>5, <2>1 DEF Deliver, Arrival
  <2>3. QED
    BY <2>2 DEF DeliverySteps
<1>6. CASE UNCHANGED idle /\ \E d, g, verdict : Ends(d, g, verdict)
  BY <1>6 DEF DeliverySteps
<1>7. CASE UNCHANGED idle /\ \E d, g : GoesOn(d, g)
  BY <1>7 DEF DeliverySteps
<1>8. CASE \E k \in consumers : ConsumerCancelled(k)
  BY <1>8 DEF ConsumerCancelled, Quiet, DeliverySteps
<1>9. ASSUME NEW c \in Channels, ChannelBreaks(c)
      PROVE  DeliverySteps
  <2>1. Loss(c, "broken")
    BY <1>9, LossEffect DEF ChannelBreaks, Loss
  <2>2. QED
    BY <2>1 DEF DeliverySteps
<1>10. ASSUME NEW c \in Channels, ChannelDown(c)
       PROVE  DeliverySteps
  <2>1. Quiet
    BY <1>10 DEF ChannelDown, Quiet, OnClose
  <2>2. QED
    BY <2>1 DEF DeliverySteps
<1>11. CASE StopBegins \/ StopCancels
  BY <1>11 DEF StopBegins, StopCancels, Quiet, DeliverySteps
<1>12. CASE StopWaited
  <2>1. CASE channel = None
    BY <1>12, <2>1 DEF StopWaited, Stopped, Quiet, DeliverySteps
  <2>2. CASE channel # None
    <3> DEFINE state == IF chan[channel] = "open" THEN "broken" ELSE chan[channel]
    <3>1. Drop(channel, state, deliv) /\ channel \in Channels
      BY <1>12, <2>2 DEF StopWaited
    <3>2. state \in {"broken", "closed"} /\ chan[channel] # "none"
      BY <2>2, <3>1 DEF InUse
    <3>3. UNCHANGED << setting, isolateErrors, inFlight, crossed, unknownTag >>
      BY <1>12, <2>2 DEF StopWaited
    <3> HIDE DEF state
    <3>4. Loss(channel, state)
      BY <3>1, <3>2, <3>3, LossEffect DEF Loss
    <3>5. QED
      BY <3>1, <3>4 DEF DeliverySteps
  <2>3. QED
    BY <2>1, <2>2
<1>13. CASE StopCloses
  <2>1. Quiet
    BY <1>13 DEF StopCloses, Stopped, Quiet, Placed, InUse
  <2>2. QED
    BY <2>1 DEF DeliverySteps
<1>14. CASE UNCHANGED vars
  BY <1>14 DEF Quiet, DeliverySteps
<1>15. QED
  BY <1>1, <1>2, <1>3, <1>4, <1>5, <1>6, <1>7, <1>8, <1>9, <1>10, <1>11, <1>12, <1>13, <1>14
     DEF Steps

(* What is left as it is, is delivered as it was. *)
LEMMA SameDeliveries ==
  ASSUME UNCHANGED deliv
  PROVE  Delivered' = Delivered
BY DEF Delivered

LEMMA GoesOnDeliveries ==
  ASSUME TypeOK, NEW d, NEW g, GoesOn(d, g)
  PROVE  /\ Delivered' = Delivered
         /\ d \in Delivered
         /\ \A e \in Delivered \ {d} : deliv'[e] = deliv[e]
         /\ deliv'[d] = g[d]
         /\ g[d].settled = deliv[d].settled
         /\ g[d].via = deliv[d].via
         /\ g[d].msg = deliv[d].msg
         /\ UNCHANGED << chan, consumers, malformed, inFlight, crossed, unknownTag >>
<1> USE DeliveredAreDeliveries DEF GoesOn, Worked
<1>1. \A e \in Deliveries : g[e] = None <=> deliv[e] = None
  BY DEF Delivered
<1>2. Delivered' = Delivered
  BY <1>1 DEF Delivered
<1>3. QED
  BY <1>2 DEF linkVars, workVars

(* What the end of handleMessage() for d does to delivery e and its        *)
(* channel: nothing, the answer, or the loss of both.                      *)
Reaches(d, e, verdict) ==
  \/ /\ deliv'[e].settled = deliv[e].settled
     /\ \/ chan'[e[1]] = chan[e[1]]
        \/ e \notin Unsettled /\ chan[e[1]] = "open" /\ chan'[e[1]] = "broken"
  \/ /\ e = << deliv[d].via, d[2] >>
     /\ e \in Unsettled
     /\ chan[e[1]] = "open"
     /\ deliv'[e].settled = verdict
     /\ chan'[e[1]] = chan[e[1]]
  \/ /\ e \in Unsettled
     /\ e[1] = deliv[d].via
     /\ << deliv[d].via, d[2] >> \notin Unsettled
     /\ chan[e[1]] = "open"
     /\ deliv'[e].settled = "lost"
     /\ chan'[e[1]] = "broken"

LEMMA EndEffect ==
  ASSUME TypeOK, Captured, NEW d, NEW g, NEW verdict, Ends(d, g, verdict)
  PROVE  /\ Answers(d, g, verdict)
         /\ Delivered' = Delivered
         /\ d \in Delivered /\ deliv[d].at # "ended" /\ d = << d[1], d[2] >>
         /\ verdict \in {"acked", "dead"}
         /\ \A e \in Delivered \ {d} : g[e] = deliv[e]
         /\ \A e \in Delivered : Reaches(d, e, verdict)
         /\ ~crossed' => ~crossed /\ (chan[deliv[d].via] = "open" => deliv[d].via = d[1])
<1> USE DeliveredAreDeliveries
<1>1. Answers(d, g, verdict)
  BY FinishEffect
<1>2. /\ d \in Delivered /\ deliv[d].at # "ended" /\ verdict \in {"acked", "dead"}
      /\ \A e \in Delivered \ {d} : g[e] = deliv[e]
  BY DEF Ends, Worked
<1>3. d = << d[1], d[2] >> /\ d[1] \in Channels
  BY <1>2 DEF Deliveries
<1>4. ASSUME NEW e \in Delivered
      PROVE  Reaches(d, e, verdict)
  <2> DEFINE via == deliv[d].via
             t == << via, d[2] >>
  <2>1. e[1] \in Channels /\ chan \in [Channels -> {"none", "open", "broken", "closed"}]
    BY DEF Deliveries, TypeOK
  <2>2. CASE ~ (chan[via] = "open" /\ t \notin Unsettled)
    <3>1. /\ deliv'[e].settled = IF chan[via] = "open" /\ e = t THEN verdict
                                 ELSE deliv[e].settled
          /\ chan' = chan
      BY <1>1, <2>2 DEF Answers, linkVars
    <3>2. e = t => e[1] = via
      OBVIOUS
    <3>3. QED
      BY <2>2, <3>1, <3>2 DEF Reaches
  <2>3. CASE chan[via] = "open" /\ t \notin Unsettled
    <3>1. /\ deliv'[e].settled = IF e \in Unsettled /\ e[1] = via THEN "lost"
                                 ELSE deliv[e].settled
          /\ chan' = [chan EXCEPT ![via] = "broken"]
      BY <1>1, <2>3 DEF Answers
    <3>2. chan'[e[1]] = IF e[1] = via THEN "broken" ELSE chan[e[1]]
      BY <2>1, <3>1
    <3>3. QED
      BY <2>3, <3>1, <3>2 DEF Reaches
  <2>4. QED
    BY <2>2, <2>3
<1>5. ~crossed' => ~crossed /\ (chan[deliv[d].via] = "open" => deliv[d].via = d[1])
  BY <1>1 DEF Answers
<1>6. QED
  BY <1>1, <1>2, <1>3, <1>4, <1>5 DEF Answers

(* A channel that breaks takes what it has not settled with it.            *)
LEMMA CapturedStep ==
  ASSUME TypeOK, InUse, Captured, DeliverySteps
  PROVE  Captured'
<1> USE DeliveredAreDeliveries DEF Captured, Unsettled, TypeOK, InUse
<1>1. CASE Quiet
  <2>1. Delivered' = Delivered
    BY <1>1, SameDeliveries DEF Quiet
  <2>2. QED
    BY <1>1, <2>1 DEF Quiet, Deliveries
<1>2. ASSUME NEW m \in Messages, NEW k \in consumers, NEW d \in Deliveries, Arrival(m, k, d)
      PROVE  Captured'
  BY <1>2 DEF Arrival, Arrives, Deliveries
<1>3. ASSUME NEW d, NEW g, NEW verdict, Ends(d, g, verdict), UNCHANGED isolateErrors
      PROVE  Captured'
  <2>1. Answers(d, g, verdict)
    BY <1>3, EndEffect
  <2>2. /\ d \in Delivered /\ deliv[d].at # "ended" /\ d = << d[1], d[2] >>
        /\ Delivered' = Delivered
        /\ verdict \in {"acked", "dead"}
        /\ \A e \in Delivered \ {d} : g[e] = deliv[e]
        /\ \A e \in Delivered : Reaches(d, e, verdict)
        /\ ~crossed' => ~crossed /\ (chan[deliv[d].via] = "open" => deliv[d].via = d[1])
    BY <1>3, EndEffect
  <2>3. QED
    BY <1>3, <2>1, <2>2 DEF Answers, Reaches
<1>4. ASSUME NEW d, NEW g, GoesOn(d, g), UNCHANGED isolateErrors
      PROVE  Captured'
  <2>1. Delivered' = Delivered /\ d \in Delivered
    BY <1>4, GoesOnDeliveries
  <2>2. QED
    BY <1>4, <2>1, GoesOnDeliveries DEF GoesOn
<1>5. ASSUME NEW c \in Channels, NEW state, Loss(c, state)
      PROVE  Captured'
  BY <1>5 DEF Loss, Loses
<1>6. QED
  BY <1>1, <1>2, <1>3, <1>4, <1>5 DEF DeliverySteps

(* Only the end of its handling answers an event, or another delivery of the *)
(* same tag, which is then crossed.                                        *)
LEMMA AnsweredAtTheEndStep ==
  ASSUME TypeOK, InUse, Captured, AnsweredAtTheEnd, DeliverySteps
  PROVE  AnsweredAtTheEnd'
<1> USE DeliveredAreDeliveries DEF AnsweredAtTheEnd, Captured, Unsettled, TypeOK
<1>1. CASE Quiet
  <2>1. Delivered' = Delivered
    BY <1>1, SameDeliveries DEF Quiet
  <2>2. QED
    BY <1>1, <2>1 DEF Quiet, Deliveries
<1>2. ASSUME NEW m \in Messages, NEW k \in consumers, NEW d \in Deliveries, Arrival(m, k, d)
      PROVE  AnsweredAtTheEnd'
  BY <1>2 DEF Arrival, Arrives, Deliveries
<1>3. ASSUME NEW d, NEW g, NEW verdict, Ends(d, g, verdict), UNCHANGED isolateErrors
      PROVE  AnsweredAtTheEnd'
  <2>1. Answers(d, g, verdict)
    BY <1>3, EndEffect
  <2>2. /\ d \in Delivered /\ deliv[d].at # "ended" /\ d = << d[1], d[2] >>
        /\ Delivered' = Delivered
        /\ verdict \in {"acked", "dead"}
        /\ \A e \in Delivered \ {d} : g[e] = deliv[e]
        /\ \A e \in Delivered : Reaches(d, e, verdict)
        /\ ~crossed' => ~crossed /\ (chan[deliv[d].via] = "open" => deliv[d].via = d[1])
    BY <1>3, EndEffect
  <2>3. QED
    BY <1>3, <2>1, <2>2 DEF Answers, Reaches
<1>4. ASSUME NEW d, NEW g, GoesOn(d, g), UNCHANGED isolateErrors
      PROVE  AnsweredAtTheEnd'
  <2>1. Delivered' = Delivered /\ d \in Delivered
    BY <1>4, GoesOnDeliveries
  <2>2. QED
    BY <1>4, <2>1, GoesOnDeliveries DEF GoesOn
<1>5. ASSUME NEW c \in Channels, NEW state, Loss(c, state)
      PROVE  AnsweredAtTheEnd'
  BY <1>5 DEF Loss, Loses
<1>6. QED
  BY <1>1, <1>2, <1>3, <1>4, <1>5 DEF DeliverySteps

(* The first failure ends the handling of an event in strict mode.         *)
LEMMA StrictWaitsStep ==
  ASSUME TypeOK, Captured, StrictWaits, DeliverySteps
  PROVE  StrictWaits'
<1> USE DeliveredAreDeliveries DEF StrictWaits
<1>1. CASE Quiet
  <2>1. Delivered' = Delivered
    BY <1>1, SameDeliveries DEF Quiet
  <2>2. QED
    BY <1>1, <2>1 DEF Quiet, Deliveries
<1>2. ASSUME NEW m \in Messages, NEW k \in consumers, NEW d \in Deliveries, Arrival(m, k, d)
      PROVE  StrictWaits'
  <2>1. deliv'[d].failed = {} /\ deliv'[d].busy = {} /\ deliv'[d].waits = {}
    BY <1>2 DEF Arrival, Arrives
  <2>2. QED
    BY <1>2, <2>1 DEF Arrival, Arrives
<1>3. ASSUME NEW d, NEW g, NEW verdict, Ends(d, g, verdict), UNCHANGED isolateErrors
      PROVE  StrictWaits'
  <2>1. Answers(d, g, verdict)
    BY <1>3, EndEffect
  <2>2. /\ d \in Delivered /\ deliv[d].at # "ended" /\ d = << d[1], d[2] >>
        /\ Delivered' = Delivered
        /\ verdict \in {"acked", "dead"}
        /\ \A e \in Delivered \ {d} : g[e] = deliv[e]
        /\ \A e \in Delivered : Reaches(d, e, verdict)
        /\ ~crossed' => ~crossed /\ (chan[deliv[d].via] = "open" => deliv[d].via = d[1])
    BY <1>3, EndEffect
  <2>3. QED
    BY <1>3, <2>1, <2>2 DEF Answers
<1>4. ASSUME NEW d, NEW g, GoesOn(d, g), UNCHANGED isolateErrors
      PROVE  StrictWaits'
  <2>1. Delivered' = Delivered /\ d \in Delivered
    BY <1>4, GoesOnDeliveries
  <2>2. QED
    BY <1>4, <2>1, GoesOnDeliveries DEF GoesOn
<1>5. ASSUME NEW c \in Channels, NEW state, Loss(c, state)
      PROVE  StrictWaits'
  BY <1>5 DEF Loss, Loses
<1>6. QED
  BY <1>1, <1>2, <1>3, <1>4, <1>5 DEF DeliverySteps

(* A delivery takes its own key away when it ends, and no other.           *)
LEMMA TrackedStep ==
  ASSUME TypeOK, Captured, Tracked, DeliverySteps
  PROVE  Tracked'
<1> USE DeliveredAreDeliveries DEF Tracked, Key
<1>1. CASE Quiet
  <2>1. Delivered' = Delivered
    BY <1>1, SameDeliveries DEF Quiet
  <2>2. QED
    BY <1>1, <2>1 DEF Quiet, Deliveries
<1>2. ASSUME NEW m \in Messages, NEW k \in consumers, NEW d \in Deliveries, Arrival(m, k, d)
      PROVE  Tracked'
  BY <1>2 DEF Arrival, Arrives, Deliveries
<1>3. ASSUME NEW d, NEW g, NEW verdict, Ends(d, g, verdict), UNCHANGED isolateErrors
      PROVE  Tracked'
  <2>1. Answers(d, g, verdict)
    BY <1>3, EndEffect
  <2>2. /\ d \in Delivered /\ deliv[d].at # "ended" /\ d = << d[1], d[2] >>
        /\ Delivered' = Delivered
        /\ verdict \in {"acked", "dead"}
        /\ \A e \in Delivered \ {d} : g[e] = deliv[e]
        /\ \A e \in Delivered : Reaches(d, e, verdict)
        /\ ~crossed' => ~crossed /\ (chan[deliv[d].via] = "open" => deliv[d].via = d[1])
    BY <1>3, EndEffect
  <2>3. QED
    BY <1>3, <2>1, <2>2 DEF Answers
<1>4. ASSUME NEW d, NEW g, GoesOn(d, g), UNCHANGED isolateErrors
      PROVE  Tracked'
  <2>1. Delivered' = Delivered /\ d \in Delivered
    BY <1>4, GoesOnDeliveries
  <2>2. QED
    BY <1>4, <2>1, GoesOnDeliveries DEF GoesOn
<1>5. ASSUME NEW c \in Channels, NEW state, Loss(c, state)
      PROVE  Tracked'
  BY <1>5 DEF Loss, Loses
<1>6. QED
  BY <1>1, <1>2, <1>3, <1>4, <1>5 DEF DeliverySteps

(* An event that is acknowledged in strict mode has no handler left.       *)
LEMMA StrictAcksAllOrNothingStep ==
  ASSUME TypeOK, Captured, AnsweredAtTheEnd, StrictAcksAllOrNothing, DeliverySteps
  PROVE  StrictAcksAllOrNothing'
<1> USE DeliveredAreDeliveries DEF AnsweredAtTheEnd, StrictAcksAllOrNothing
<1>1. CASE Quiet
  <2>1. Delivered' = Delivered
    BY <1>1, SameDeliveries DEF Quiet
  <2>2. QED
    BY <1>1, <2>1 DEF Quiet, Deliveries
<1>2. ASSUME NEW m \in Messages, NEW k \in consumers, NEW d \in Deliveries, Arrival(m, k, d)
      PROVE  StrictAcksAllOrNothing'
  BY <1>2 DEF Arrival, Arrives, Deliveries
<1>3. ASSUME NEW d, NEW g, NEW verdict, Ends(d, g, verdict), UNCHANGED isolateErrors
      PROVE  StrictAcksAllOrNothing'
  <2>1. Answers(d, g, verdict)
    BY <1>3, EndEffect
  <2>2. /\ d \in Delivered /\ deliv[d].at # "ended" /\ d = << d[1], d[2] >>
        /\ Delivered' = Delivered
        /\ verdict \in {"acked", "dead"}
        /\ \A e \in Delivered \ {d} : g[e] = deliv[e]
        /\ \A e \in Delivered : Reaches(d, e, verdict)
        /\ ~crossed' => ~crossed /\ (chan[deliv[d].via] = "open" => deliv[d].via = d[1])
    BY <1>3, EndEffect
  <2>3. ~isolateErrors /\ verdict = "acked" => g[d].failed = {} /\ g[d].busy = {}
    BY <1>3 DEF Ends
  <2>4. QED
    BY <1>3, <2>1, <2>2, <2>3 DEF Answers, Reaches
<1>4. ASSUME NEW d, NEW g, GoesOn(d, g), UNCHANGED isolateErrors
      PROVE  StrictAcksAllOrNothing'
  <2>1. Delivered' = Delivered /\ d \in Delivered
    BY <1>4, GoesOnDeliveries
  <2>2. QED
    BY <1>4, <2>1, GoesOnDeliveries DEF GoesOn
<1>5. ASSUME NEW c \in Channels, NEW state, Loss(c, state)
      PROVE  StrictAcksAllOrNothing'
  BY <1>5 DEF Loss, Loses
<1>6. QED
  BY <1>1, <1>2, <1>3, <1>4, <1>5 DEF DeliverySteps

(* The tag an event is settled with is its own, and was not settled before. *)
LEMMA SettledOnceStep ==
  ASSUME TypeOK, Captured, AnsweredAtTheEnd, SettledOnce, DeliverySteps
  PROVE  SettledOnce'
<1> USE DeliveredAreDeliveries DEF AnsweredAtTheEnd, SettledOnce, Unsettled
<1>1. CASE Quiet
  <2>1. Delivered' = Delivered
    BY <1>1, SameDeliveries DEF Quiet
  <2>2. QED
    BY <1>1, <2>1 DEF Quiet, Deliveries
<1>2. ASSUME NEW m \in Messages, NEW k \in consumers, NEW d \in Deliveries, Arrival(m, k, d)
      PROVE  SettledOnce'
  BY <1>2 DEF Arrival, Arrives, Deliveries
<1>3. ASSUME NEW d, NEW g, NEW verdict, Ends(d, g, verdict), UNCHANGED isolateErrors
      PROVE  SettledOnce'
  <2>1. Answers(d, g, verdict)
    BY <1>3, EndEffect
  <2>2. /\ d \in Delivered /\ deliv[d].at # "ended" /\ d = << d[1], d[2] >>
        /\ Delivered' = Delivered
        /\ verdict \in {"acked", "dead"}
        /\ \A e \in Delivered \ {d} : g[e] = deliv[e]
        /\ \A e \in Delivered : Reaches(d, e, verdict)
        /\ ~crossed' => ~crossed /\ (chan[deliv[d].via] = "open" => deliv[d].via = d[1])
    BY <1>3, EndEffect
  <2>3. QED
    BY <1>3, <2>1, <2>2 DEF Answers, Reaches
<1>4. ASSUME NEW d, NEW g, GoesOn(d, g), UNCHANGED isolateErrors
      PROVE  SettledOnce'
  <2>1. Delivered' = Delivered /\ d \in Delivered
    BY <1>4, GoesOnDeliveries
  <2>2. QED
    BY <1>4, <2>1, GoesOnDeliveries DEF GoesOn
<1>5. ASSUME NEW c \in Channels, NEW state, Loss(c, state)
      PROVE  SettledOnce'
  BY <1>5 DEF Loss, Loses
<1>6. QED
  BY <1>1, <1>2, <1>3, <1>4, <1>5 DEF DeliverySteps

(* The end of its handling answers an event that waits on an open channel. *)
LEMMA NothingForgottenStep ==
  ASSUME TypeOK, Captured, NothingForgotten, DeliverySteps
  PROVE  NothingForgotten'
<1> USE DeliveredAreDeliveries DEF NothingForgotten, Captured, Unsettled
<1>1. CASE Quiet
  <2>1. Delivered' = Delivered
    BY <1>1, SameDeliveries DEF Quiet
  <2>2. QED
    BY <1>1, <2>1 DEF Quiet, Deliveries
<1>2. ASSUME NEW m \in Messages, NEW k \in consumers, NEW d \in Deliveries, Arrival(m, k, d)
      PROVE  NothingForgotten'
  BY <1>2 DEF Arrival, Arrives, Deliveries
<1>3. ASSUME NEW d, NEW g, NEW verdict, Ends(d, g, verdict), UNCHANGED isolateErrors
      PROVE  NothingForgotten'
  <2>1. Answers(d, g, verdict)
    BY <1>3, EndEffect
  <2>2. /\ d \in Delivered /\ deliv[d].at # "ended" /\ d = << d[1], d[2] >>
        /\ Delivered' = Delivered
        /\ verdict \in {"acked", "dead"}
        /\ \A e \in Delivered \ {d} : g[e] = deliv[e]
        /\ \A e \in Delivered : Reaches(d, e, verdict)
        /\ ~crossed' => ~crossed /\ (chan[deliv[d].via] = "open" => deliv[d].via = d[1])
    BY <1>3, EndEffect
  <2>3. QED
    BY <1>3, <2>1, <2>2 DEF Answers, Reaches
<1>4. ASSUME NEW d, NEW g, GoesOn(d, g), UNCHANGED isolateErrors
      PROVE  NothingForgotten'
  <2>1. Delivered' = Delivered /\ d \in Delivered
    BY <1>4, GoesOnDeliveries
  <2>2. QED
    BY <1>4, <2>1, GoesOnDeliveries DEF GoesOn
<1>5. ASSUME NEW c \in Channels, NEW state, Loss(c, state)
      PROVE  NothingForgotten'
  BY <1>5 DEF Loss, Loses
<1>6. QED
  BY <1>1, <1>2, <1>3, <1>4, <1>5 DEF DeliverySteps

-------------------------------------------------------------------------------
(* stop(), registrations and channels *)

(* Nothing is in flight when stop() has found it so. *)
StopSteps ==
  \/ UNCHANGED stopVars
  \/ stop' # "closing"
  \/ drained' => inFlight' = {}

LEMMA StopCases ==
  ASSUME Steps
  PROVE  StopSteps
<1> USE DEF StopSteps, vars, restOfStep, idle
<1>1. CASE \/ \E h \in Handlers : On(h)
           \/ \E s \in Starters : Start(s)
           \/ TimerFires
           \/ \E t \in Threads : Opened(t) \/ Consume(t) \/ Registered(t) \/ RegistrationFails(t)
           \/ \E m \in Messages, k \in consumers : Deliver(m, k)
           \/ UNCHANGED idle
           \/ \E k \in consumers : ConsumerCancelled(k)
           \/ \E c \in Channels : ChannelBreaks(c) \/ ChannelDown(c)
           \/ UNCHANGED vars
  BY <1>1 DEF On, Start, TimerFires, Opened, Consume, Registered, RegistrationFails, Deliver,
              ConsumerCancelled, ChannelBreaks, ChannelDown
<1>2. CASE StopBegins \/ StopCancels \/ StopWaited \/ StopCloses
  BY <1>2 DEF StopBegins, StopCancels, StopWaited, StopCloses, Stopped, workVars
<1>3. QED
  BY <1>1, <1>2 DEF Steps

(* Nothing arrives on a channel that stop() closes. *)
LEMMA DrainedMeansSettledStep ==
  ASSUME TypeOK, InUse, Captured, Tracked', DrainedMeansSettled, DeliverySteps, StopSteps
  PROVE  DrainedMeansSettled'
<1> USE DeliveredAreDeliveries DEF DrainedMeansSettled, Key
<1>1. CASE stop' # "closing" \/ (drained' => inFlight' = {})
  BY <1>1 DEF Tracked
<1>2. CASE UNCHANGED stopVars
  <2> USE <1>2 DEF stopVars
  <2>1. CASE Quiet
    <3>1. Delivered' = Delivered
      BY <2>1, SameDeliveries DEF Quiet
    <3>2. QED
      BY <2>1, <3>1 DEF Quiet
  <2>2. ASSUME NEW m \in Messages, NEW k \in consumers, NEW d \in Deliveries, Arrival(m, k, d)
        PROVE  DrainedMeansSettled'
    <3>1. stop = "closing" => d[1] # stopping
      BY <2>2 DEF Arrival, Arrives, InUse
    <3>2. QED
      BY <2>2, <3>1 DEF Arrival, Arrives
  <2>3. ASSUME NEW d, NEW g, NEW verdict, Ends(d, g, verdict)
        PROVE  DrainedMeansSettled'
    <3>1. Answers(d, g, verdict)
      BY <2>3, FinishEffect
    <3>2. QED
      BY <3>1 DEF Answers
  <2>4. ASSUME NEW d, NEW g, GoesOn(d, g)
        PROVE  DrainedMeansSettled'
    <3>1. Delivered' = Delivered /\ d \in Delivered
      BY <2>4, GoesOnDeliveries
    <3>2. QED
      BY <2>4, <3>1, GoesOnDeliveries DEF GoesOn
  <2>5. ASSUME NEW c \in Channels, NEW state, Loss(c, state)
        PROVE  DrainedMeansSettled'
    BY <2>5 DEF Loss, Loses
  <2>6. QED
    BY <2>1, <2>2, <2>3, <2>4, <2>5 DEF DeliverySteps
<1>3. QED
  BY <1>1, <1>2 DEF StopSteps

(* A call that has its channel keeps it; a subscriber that runs has been   *)
(* given a tag, which only stop() takes away.                              *)
LEMMA PlacedStep ==
  ASSUME TypeOK, Placed, Steps
  PROVE  Placed'
<1> USE DEF Placed, TypeOK, vars, fieldVars, givenVars, reconnectVars, callVars, stopVars, linkVars,
          restOfStep, idle
<1>1. CASE UNCHANGED << pc, on, running, consumerTag, stopVars >>
  BY <1>1
<1>2. ASSUME NEW s \in Starters, Start(s)
      PROVE  Placed'
  BY <1>2, NoneAssumption DEF Start, EnsureChannel, Threads
<1>3. CASE TimerFires
  <2>1. ASSUME NEW b \in Callbacks, EnsureChannel(b)
        PROVE  \A t \in Threads : pc'[t] \in {"setup", "accepted"} => on'[t] # None
    BY <2>1 DEF EnsureChannel, Threads
  <2>2. \A t \in Threads : pc'[t] \in {"setup", "accepted"} => on'[t] # None
    BY <1>3, <2>1 DEF TimerFires, NothingToDo, ReRegister
  <2>3. QED
    BY <1>3, <2>2 DEF TimerFires
<1>4. ASSUME NEW t \in Threads, Opened(t) \/ Consume(t) \/ Registered(t) \/ RegistrationFails(t)
      PROVE  Placed'
  <2>1. CASE Opened(t)
    BY <2>1, NoneAssumption DEF Opened
  <2>2. CASE Consume(t)
    BY <2>2 DEF Consume
  <2>3. CASE Registered(t)
    <3>1. << on[t], t >> \in Channels \X Threads
      BY <2>3 DEF Registered
    <3>2. << on[t], t >> # None
      BY <3>1, NoneAssumption
    <3>3. QED
      BY <2>3, <3>2 DEF Registered
  <2>4. CASE RegistrationFails(t)
    BY <2>4 DEF RegistrationFails
  <2>5. QED
    BY <1>4, <2>1, <2>2, <2>3, <2>4
<1>5. ASSUME NEW c \in Channels, ChannelDown(c)
      PROVE  Placed'
  BY <1>5 DEF ChannelDown, OnClose
<1>6. CASE \E k \in consumers : ConsumerCancelled(k)
  BY <1>6 DEF ConsumerCancelled
<1>7. CASE StopBegins \/ StopCancels
  BY <1>7 DEF StopBegins, StopCancels
<1>8. CASE StopWaited \/ StopCloses
  BY <1>8 DEF StopWaited, StopCloses, Stopped
<1>9. QED
  BY <1>1, <1>2, <1>3, <1>4, <1>5, <1>6, <1>7, <1>8
     DEF Steps, On, Deliver, ChannelBreaks

(* A channel is opened before it is used, and loses its consumers when it  *)
(* is not open any more.                                                   *)
LEMMA InUseStep ==
  ASSUME TypeOK, Placed, InUse, Captured, Steps
  PROVE  InUse'
<1> USE NoneAssumption DEF InUse, TypeOK, vars, fieldVars, givenVars, stopVars, linkVars, restOfStep, idle
<1>1. CASE UNCHANGED << channel, linkVars, stopVars >>
  BY <1>1
<1>2. ASSUME NEW t \in Threads, Opened(t)
      PROVE  InUse'
  BY <1>2 DEF Opened, Placed
<1>3. ASSUME NEW t \in Threads, Consume(t)
      PROVE  InUse'
  BY <1>3 DEF Consume, Placed
<1>4. ASSUME NEW d, NEW g, NEW verdict, Ends(d, g, verdict), UNCHANGED idle
      PROVE  InUse'
  <2>1. Answers(d, g, verdict)
    BY <1>4, FinishEffect
  <2>2. CASE UNCHANGED linkVars
    BY <1>4, <2>2
  <2>3. CASE /\ chan[deliv[d].via] = "open"
             /\ deliv[d].via \in Channels
             /\ chan' = [chan EXCEPT ![deliv[d].via] = "broken"]
             /\ consumers' = {k \in consumers : k[1] # deliv[d].via}
    BY <1>4, <2>3 DEF Placed
  <2>4. QED
    BY <2>1, <2>2, <2>3 DEF Answers
<1>5. CASE \E k \in consumers : ConsumerCancelled(k)
  BY <1>5 DEF ConsumerCancelled
<1>6. ASSUME NEW c \in Channels, ChannelBreaks(c)
      PROVE  InUse'
  BY <1>6 DEF ChannelBreaks, Drop, Placed
<1>7. ASSUME NEW c \in Channels, ChannelDown(c)
      PROVE  InUse'
  BY <1>7 DEF ChannelDown, OnClose, Placed
<1>8. CASE StopBegins \/ StopCancels
  BY <1>8 DEF StopBegins, StopCancels
<1>9. CASE StopWaited
  <2>1. CASE channel = None
    BY <1>9, <2>1 DEF StopWaited, Stopped
  <2>2. CASE channel # None
    <3>1. /\ channel \in Channels /\ chan[channel] # "none"
          /\ UNCHANGED channel /\ stopping' = channel
          /\ chan' = [chan EXCEPT ![channel] = IF chan[channel] = "open" THEN "broken"
                                              ELSE chan[channel]]
          /\ consumers' = {k \in consumers : k[1] # channel}
      BY <1>9, <2>2 DEF StopWaited, Drop
    <3>2. chan'[channel] \in {"broken", "closed"}
      BY <3>1
    <3>3. \A c \in Channels \ {channel} : chan'[c] = chan[c]
      BY <3>1
    <3>4. QED
      BY <3>1, <3>2, <3>3
  <2>3. QED
    BY <2>1, <2>2
<1>10. CASE StopCloses
  BY <1>10 DEF StopCloses, Stopped
<1>11. ASSUME NEW t \in Threads, Registered(t) \/ RegistrationFails(t)
       PROVE  InUse'
  BY <1>11 DEF Registered, RegistrationFails
<1>12. CASE UNCHANGED idle /\ \E d, g : GoesOn(d, g)
  BY <1>12 DEF GoesOn
<1>13. QED
  BY <1>1, <1>2, <1>3, <1>4, <1>5, <1>6, <1>7, <1>8, <1>9, <1>10, <1>11, <1>12
     DEF Steps, On, Start, TimerFires, Deliver

(* A consumer is cancelled, or lost with its channel, of which 'close' has *)
(* yet to tell.                                                            *)
LEMMA RunningIsConsumingStep ==
  ASSUME TypeOK, Placed, Captured, RunningIsConsuming, Steps
  PROVE  RunningIsConsuming'
<1> USE DEF RunningIsConsuming, TypeOK, vars, fieldVars, givenVars, callVars, stopVars, linkVars,
          restOfStep, idle
<1>1. CASE UNCHANGED << consumerTag, running, stop, late, linkVars >>
  BY <1>1
<1>2. CASE running' = FALSE \/ stop' # "idle"
  BY <1>2
<1>3. ASSUME NEW t \in Threads, Opened(t)
      PROVE  RunningIsConsuming'
  BY <1>3 DEF Opened, Placed
<1>4. ASSUME NEW t \in Threads, Consume(t)
      PROVE  RunningIsConsuming'
  BY <1>4 DEF Consume
<1>5. ASSUME NEW t \in Threads, Registered(t)
      PROVE  RunningIsConsuming'
  BY <1>5 DEF Registered
<1>6. ASSUME NEW d, NEW g, NEW verdict, Ends(d, g, verdict), UNCHANGED idle
      PROVE  RunningIsConsuming'
  <2>1. Answers(d, g, verdict)
    BY <1>6, FinishEffect
  <2>2. CASE UNCHANGED linkVars
    BY <1>6, <2>2
  <2>3. CASE /\ chan[deliv[d].via] = "open"
             /\ deliv[d].via \in Channels
             /\ chan' = [chan EXCEPT ![deliv[d].via] = "broken"]
             /\ consumers' = {k \in consumers : k[1] # deliv[d].via}
    BY <1>6, <2>3 DEF Placed
  <2>4. QED
    BY <2>1, <2>2, <2>3 DEF Answers
<1>7. ASSUME NEW c \in Channels, ChannelBreaks(c)
      PROVE  RunningIsConsuming'
  BY <1>7 DEF ChannelBreaks, Drop, Placed
<1>8. CASE UNCHANGED idle /\ \E d, g : GoesOn(d, g)
  BY <1>1, <1>8 DEF GoesOn
<1>9. ASSUME NEW c \in Channels, ChannelDown(c)
      PROVE  running' = FALSE
  BY <1>9 DEF ChannelDown, OnClose
<1>10. CASE StopBegins \/ StopCancels \/ StopWaited \/ StopCloses
  BY <1>2, <1>10 DEF StopBegins, StopCancels, StopWaited, StopCloses, Stopped
<1>11. CASE \E t \in Threads : RegistrationFails(t)
  BY <1>1, <1>11 DEF RegistrationFails
<1>12. CASE \E k \in consumers : ConsumerCancelled(k)
  BY <1>2, <1>12 DEF ConsumerCancelled
<1>13. QED
  BY <1>1, <1>2, <1>3, <1>4, <1>5, <1>6, <1>7, <1>8, <1>9, <1>10, <1>11, <1>12
     DEF Steps, On, Start, TimerFires, Deliver

(* Types are preserved: those of the deliveries, of the manager and the    *)
(* calls, and of the rest.                                                 *)
DeliveryTypes ==
  /\ deliv \in [Deliveries -> Delivery \cup {None}]
  /\ setting \in Settings
  /\ isolateErrors \in BOOLEAN
  /\ malformed \subseteq Messages
  /\ {crossed, unknownTag} \subseteq BOOLEAN

LEMMA DeliveryTypesStep ==
  ASSUME TypeOK, Captured, DeliverySteps
  PROVE  DeliveryTypes'
<1> USE DEF TypeOK, DeliveryTypes
<1>1. CASE Quiet
  BY <1>1 DEF Quiet
<1>2. ASSUME NEW m \in Messages, NEW k \in consumers, NEW d \in Deliveries, Arrival(m, k, d)
      PROVE  DeliveryTypes'
  BY <1>2 DEF Arrival, Arrives
<1>3. ASSUME NEW d, NEW g, NEW verdict, Ends(d, g, verdict), UNCHANGED << setting, isolateErrors >>
      PROVE  DeliveryTypes'
  <2>1. Answers(d, g, verdict)
    BY <1>3, FinishEffect
  <2>2. QED
    BY <1>3, <2>1 DEF Answers
<1>4. ASSUME NEW d, NEW g, GoesOn(d, g), UNCHANGED << setting, isolateErrors >>
      PROVE  DeliveryTypes'
  BY <1>4 DEF GoesOn, Worked, workVars
<1>5. ASSUME NEW c \in Channels, NEW state, Loss(c, state)
      PROVE  DeliveryTypes'
  BY <1>5 DEF Loss, Loses
<1>6. QED
  BY <1>1, <1>2, <1>3, <1>4, <1>5 DEF DeliverySteps

(* The manager's callbacks are the calls in progress. *)
CallTypes ==
  /\ reconnectAttempts \in 0..(MaxReconnectAttempts + 1)
  /\ reconnectTimer \in BOOLEAN
  /\ reconnecting = {b \in Callbacks : pc[b] # "idle"}
  /\ pc \in [Threads -> {"idle", "opening", "setup", "accepted"}]
  /\ on \in [Threads -> Channels \cup {None}]
  /\ late \in BOOLEAN

LEMMA ManagerConstants ==
  MaxReconnectAttempts \in Nat /\ Starters \cap Callbacks = {}
BY SubscriberAssumption

LEMMA ScheduleTypes ==
  ASSUME reconnectAttempts \in 0..(MaxReconnectAttempts + 1), reconnectTimer \in BOOLEAN,
         Manager!Schedule
  PROVE  reconnectAttempts' \in 0..(MaxReconnectAttempts + 1) /\ reconnectTimer' \in BOOLEAN
<1>1. MaxReconnectAttempts \in Nat
  BY ManagerConstants
<1>2. Manager!NextAttempt \in 0..(MaxReconnectAttempts + 1)
  BY <1>1 DEF Manager!NextAttempt
<1>3. QED
  BY <1>2 DEF Manager!Schedule

LEMMA CallTypesStep ==
  ASSUME TypeOK, Steps
  PROVE  CallTypes'
<1> USE ManagerConstants DEF TypeOK, CallTypes, vars, fieldVars, givenVars, reconnectVars, callVars,
          restOfStep, idle, Manager!ClearAll, Manager!Reset
<1>1. CASE UNCHANGED << reconnectVars, callVars >>
  BY <1>1
<1>2. ASSUME NEW s \in Starters, Start(s)
      PROVE  CallTypes'
  <2>1. \A b \in Callbacks : pc'[b] = pc[b]
    BY <1>2 DEF Start, EnsureChannel, Threads
  <2>2. QED
    BY <1>2, <2>1 DEF Start, EnsureChannel, Threads
<1>3. CASE TimerFires
  <2>1. CASE NothingToDo
    <3>1. 0 \in 0..(MaxReconnectAttempts + 1)
      OBVIOUS
    <3>2. QED
      BY <1>3, <2>1, <3>1 DEF TimerFires, NothingToDo
  <2>2. ASSUME NEW b \in Callbacks, ReRegister(b)
        PROVE  CallTypes'
    <3>1. \A a \in Callbacks : pc'[a] # "idle" <=> pc[a] # "idle" \/ a = b
      BY <2>2 DEF ReRegister, EnsureChannel, Threads
    <3>2. reconnecting' = {a \in Callbacks : pc'[a] # "idle"}
      BY <2>2, <3>1 DEF ReRegister, Manager!TimerFires
    <3>3. QED
      BY <1>3, <2>2, <3>2 DEF TimerFires, ReRegister, EnsureChannel, Threads,
                              Manager!TimerFires
  <2>3. QED
    BY <1>3, <2>1, <2>2 DEF TimerFires
<1>4. ASSUME NEW t \in Threads, Opened(t)
      PROVE  CallTypes'
  BY <1>4 DEF Opened
<1>5. ASSUME NEW t \in Threads, Consume(t)
      PROVE  CallTypes'
  BY <1>5 DEF Consume
<1>6. ASSUME NEW t \in Threads, Registered(t)
      PROVE  CallTypes'
  <2>1. \A a \in Callbacks : pc'[a] # "idle" <=> pc[a] # "idle" /\ a # t
    BY <1>6 DEF Registered, Threads
  <2>2. reconnecting' = reconnecting \ {t}
    BY <1>6 DEF Registered, Threads, Manager!CallbackSucceeds
  <2>3. 0 \in 0..(MaxReconnectAttempts + 1)
    OBVIOUS
  <2>4. reconnecting' = {a \in Callbacks : pc'[a] # "idle"}
    BY <2>1, <2>2
  <2>5. QED
    BY <1>6, <2>3, <2>4 DEF Registered, Manager!CallbackSucceeds
<1>7. ASSUME NEW t \in Threads, RegistrationFails(t)
      PROVE  CallTypes'
  <2>1. \A a \in Callbacks : pc'[a] # "idle" <=> pc[a] # "idle" /\ a # t
    BY <1>7 DEF RegistrationFails, Threads
  <2>2. reconnecting' = reconnecting \ {t}
    BY <1>7 DEF RegistrationFails, Threads, Manager!CallbackFails
  <2>3. reconnectAttempts' \in 0..(MaxReconnectAttempts + 1) /\ reconnectTimer' \in BOOLEAN
    BY <1>7, ScheduleTypes DEF RegistrationFails, Manager!CallbackFails
  <2>4. QED
    BY <1>7, <2>1, <2>2, <2>3 DEF RegistrationFails
<1>8. CASE \E k \in consumers : ConsumerCancelled(k)
  BY <1>8, ScheduleTypes DEF ConsumerCancelled, Manager!ScheduleReconnect
<1>9. CASE StopBegins
  BY <1>9 DEF StopBegins, Manager!Cancel
<1>10. CASE StopCancels \/ StopWaited \/ StopCloses
  BY <1>10 DEF StopCancels, StopWaited, StopCloses, Stopped
<1>11. QED
  BY <1>1, <1>2, <1>3, <1>4, <1>5, <1>6, <1>7, <1>8, <1>9, <1>10
     DEF Steps, On, Deliver, ChannelBreaks, ChannelDown

(* No step loses a reconnection: while its timer is set or a callback is   *)
(* in progress, only a subscriber that runs or the last failed attempt     *)
(* ends it, be it beside start(), stop(), a cancellation or a lost channel.*)
Recovering == reconnectTimer \/ \E b \in Callbacks : pc[b] # "idle"

ReconnectGoesOn ==
  [][Recovering =>
       Recovering' \/ running' \/ reconnectAttempts' > MaxReconnectAttempts]_vars

(* A callback that fails, and a consumer that is cancelled, leave a timer  *)
(* or have no attempt left.                                                *)
LEMMA ScheduleGoesOn ==
  ASSUME reconnectAttempts \in 0..(MaxReconnectAttempts + 1), Manager!Schedule
  PROVE  reconnectTimer' \/ reconnectAttempts' > MaxReconnectAttempts
<1>1. CASE reconnectTimer /\ UNCHANGED << reconnectAttempts, reconnectTimer >>
  BY <1>1
<1>2. CASE /\ reconnectAttempts' = Manager!NextAttempt
           /\ reconnectTimer' = IF Manager!NextAttempt <= MaxReconnectAttempts
                                THEN TRUE ELSE FALSE
  <2>1. Manager!NextAttempt \in 0..(MaxReconnectAttempts + 1)
    BY ManagerConstants DEF Manager!NextAttempt
  <2>2. CASE Manager!NextAttempt <= MaxReconnectAttempts
    BY <1>2, <2>2
  <2>3. CASE ~(Manager!NextAttempt <= MaxReconnectAttempts)
    BY <1>2, <2>1, <2>3, ManagerConstants
  <2>4. QED
    BY <2>2, <2>3
<1>3. QED
  BY <1>1, <1>2 DEF Manager!Schedule

LEMMA ReconnectGoesOnStep ==
  ASSUME TypeOK, Steps, Recovering
  PROVE  Recovering' \/ running' \/ reconnectAttempts' > MaxReconnectAttempts
<1> USE ManagerConstants
    DEF Recovering, CallTypes, vars, reconnectVars, callVars, restOfStep, idle, fieldVars, givenVars
<1>0. CallTypes
  BY DEF TypeOK, CallTypes
<1>1. CASE reconnectTimer' = reconnectTimer /\ \A b \in Callbacks : pc[b] # "idle" => pc'[b] # "idle"
  BY <1>1
<1>2. ASSUME NEW s \in Starters, Start(s)
      PROVE  Recovering'
  BY <1>0, <1>1, <1>2 DEF Start, Threads, EnsureChannel
<1>3. CASE TimerFires
  <2>1. CASE NothingToDo
    BY <1>3, <2>1 DEF TimerFires, NothingToDo
  <2>2. ASSUME NEW b \in Callbacks, ReRegister(b)
        PROVE  Recovering'
    BY <1>0, <2>2 DEF ReRegister, Threads, EnsureChannel
  <2>3. QED
    BY <1>3, <2>1, <2>2 DEF TimerFires
<1>4. ASSUME NEW t \in Threads, Opened(t) \/ Consume(t)
      PROVE  Recovering'
  <2>1. reconnectTimer' = reconnectTimer /\ \A b \in Callbacks : pc[b] # "idle" => pc'[b] # "idle"
    BY <1>0, <1>4 DEF Opened, Consume, Threads
  <2>2. QED
    BY <1>1, <2>1
<1>5. CASE \E t \in Threads : Registered(t)
  BY <1>5 DEF Registered
<1>6. ASSUME NEW t \in Threads, RegistrationFails(t)
      PROVE  Recovering' \/ reconnectAttempts' > MaxReconnectAttempts
  <2>1. CASE t \in Starters
    BY <1>0, <1>1, <1>6, <2>1 DEF RegistrationFails
  <2>2. CASE t \notin Starters
    BY <1>0, <1>6, <2>2, ScheduleGoesOn DEF RegistrationFails, Manager!CallbackFails
  <2>3. QED
    BY <2>1, <2>2
<1>7. CASE \E k \in consumers : ConsumerCancelled(k)
  BY <1>0, <1>7, ScheduleGoesOn DEF ConsumerCancelled, Manager!ScheduleReconnect
<1>8. CASE StopBegins
  BY <1>8 DEF StopBegins
<1>9. CASE UNCHANGED << reconnectVars, pc >>
  BY <1>1, <1>9
<1>10. CASE StopCancels \/ StopWaited \/ StopCloses
  BY <1>9, <1>10 DEF StopCancels, StopWaited, StopCloses, Stopped
<1>11. QED
  BY <1>2, <1>3, <1>4, <1>5, <1>6, <1>7, <1>8, <1>9, <1>10
     DEF Steps, Deliver, ChannelBreaks, ChannelDown, On

OtherTypes ==
  /\ handlers \subseteq Handlers
  /\ channel \in Channels \cup {None}
  /\ consumerTag \in (Channels \X Threads) \cup {None}
  /\ running \in BOOLEAN
  /\ stop \in {"idle", "cancelling", "waiting", "closing"}
  /\ drained \in BOOLEAN
  /\ chan \in [Channels -> {"none", "open", "broken", "closed"}]
  /\ consumers \subseteq Channels \X Threads
  /\ queued \subseteq Messages
  /\ inFlight \subseteq ({MessageId[m] : m \in Messages} \ {None}) \cup (1..MaxTags)

LEMMA OtherTypesStep ==
  ASSUME TypeOK, Placed, Captured, Steps
  PROVE  OtherTypes'
<1> USE DEF TypeOK, OtherTypes, vars, fieldVars, givenVars, stopVars, linkVars, eventVars, workVars,
          restOfStep, idle
<1>1. CASE \E h \in Handlers : On(h)
  BY <1>1 DEF On
<1>2. CASE (\E s \in Starters : Start(s)) \/ TimerFires
  BY <1>2 DEF Start, TimerFires
<1>3. ASSUME NEW t \in Threads, Opened(t)
      PROVE  OtherTypes'
  BY <1>3 DEF Opened
<1>4. ASSUME NEW t \in Threads, Consume(t) \/ Registered(t)
      PROVE  OtherTypes'
  <2>1. << on[t], t >> \in Channels \X Threads
    BY <1>4 DEF Consume, Registered, Placed
  <2>2. QED
    BY <1>4, <2>1 DEF Consume, Registered
<1>5. ASSUME NEW t \in Threads, RegistrationFails(t)
      PROVE  OtherTypes'
  BY <1>5 DEF RegistrationFails
<1>6. ASSUME NEW m \in Messages, NEW k \in consumers, Deliver(m, k)
      PROVE  OtherTypes'
  <2>1. PICK d \in Deliveries : Arrives(m, k, d)
    BY <1>6, DeliverEffect
  <2>2. KeyOf(m, d[2]) \in ({MessageId[n] : n \in Messages} \ {None}) \cup (1..MaxTags)
    BY DEF KeyOf, Deliveries
  <2>3. QED
    BY <1>6, <2>1, <2>2 DEF Deliver, Arrives
<1>7. ASSUME NEW d, NEW g, NEW verdict, Ends(d, g, verdict), UNCHANGED idle
      PROVE  OtherTypes'
  <2>1. Answers(d, g, verdict)
    BY <1>7, FinishEffect
  <2>2. QED
    BY <1>7, <2>1 DEF Answers
<1>8. CASE UNCHANGED idle /\ \E d, g : GoesOn(d, g)
  BY <1>8 DEF GoesOn
<1>9. CASE \E k \in consumers : ConsumerCancelled(k)
  BY <1>9 DEF ConsumerCancelled
<1>10. ASSUME NEW c \in Channels, ChannelBreaks(c) \/ ChannelDown(c)
       PROVE  OtherTypes'
  <2>1. CASE ChannelBreaks(c)
    <3>1. Loses(c, "broken")
      BY <2>1, LossEffect DEF ChannelBreaks
    <3>2. QED
      BY <2>1, <3>1 DEF ChannelBreaks, Loses
  <2>2. CASE ChannelDown(c)
    BY <2>2 DEF ChannelDown, OnClose
  <2>3. QED
    BY <1>10, <2>1, <2>2
<1>11. CASE StopBegins \/ StopCancels
  BY <1>11 DEF StopBegins, StopCancels
<1>12. CASE StopWaited
  <2>1. CASE channel = None
    BY <1>12, <2>1 DEF StopWaited, Stopped
  <2>2. CASE channel # None
    <3> DEFINE state == IF chan[channel] = "open" THEN "broken" ELSE chan[channel]
    <3>1. /\ channel \in Channels
          /\ state \in {"none", "broken", "closed"}
          /\ Drop(channel, state, deliv)
      BY <1>12, <2>2 DEF StopWaited
    <3>2. /\ UNCHANGED << fieldVars, inFlight >> /\ drained' \in BOOLEAN /\ stop' = "closing"
      BY <1>12, <2>2 DEF StopWaited
    <3> HIDE DEF state
    <3>3. Loses(channel, state)
      BY <3>1, LossEffect
    <3>4. QED
      BY <3>1, <3>2, <3>3 DEF Loses
  <2>3. QED
    BY <2>1, <2>2
<1>13. CASE StopCloses
  BY <1>13 DEF StopCloses, Stopped
<1>14. CASE UNCHANGED vars
  BY <1>14
<1>15. QED
  BY <1>1, <1>2, <1>3, <1>4, <1>5, <1>6, <1>7, <1>8, <1>9, <1>10, <1>11, <1>12, <1>13, <1>14
     DEF Steps

-------------------------------------------------------------------------------
(* The theorems *)

LEMMA InitIInv ==
  ASSUME Init
  PROVE  IInv
<1> USE DEF Init, Manager!Init
<1>1. Delivered = {}
  BY DEF Delivered
<1>2. 0 \in 0..(MaxReconnectAttempts + 1)
  BY ManagerConstants
<1>3. TypeOK
  <2>1. DeliveryTypes
    BY SubscriberAssumption DEF DeliveryTypes, Setting
  <2>2. CallTypes
    BY <1>2 DEF CallTypes, Threads
  <2>3. OtherTypes
    BY SubscriberAssumption DEF OtherTypes, Setting
  <2>4. QED
    BY <2>1, <2>2, <2>3 DEF TypeOK, DeliveryTypes, CallTypes, OtherTypes
<1>4. Unsettled = {}
  BY <1>1 DEF Unsettled
<1>5. Placed /\ InUse /\ Captured
  BY <1>1, <1>4 DEF Placed, InUse, Captured
<1>6. AnsweredAtTheEnd /\ StrictWaits /\ Tracked
  BY <1>1 DEF AnsweredAtTheEnd, StrictWaits, Tracked
<1>7. StrictAcksAllOrNothing /\ SettledOnce /\ NothingForgotten /\ DrainedMeansSettled
  BY <1>1, <1>4 DEF StrictAcksAllOrNothing, SettledOnce, NothingForgotten, DrainedMeansSettled
<1>8. RunningIsConsuming
  BY DEF RunningIsConsuming
<1>9. QED
  BY <1>3, <1>5, <1>6, <1>7, <1>8 DEF IInv

LEMMA NextIInv ==
  ASSUME IInv, [Next]_vars
  PROVE  IInv'
<1> USE DEF IInv
<1>1. Steps
  BY StepCases
<1>2. DeliverySteps /\ StopSteps
  BY <1>1, DeliveryCases, StopCases
<1>3. TypeOK'
  <2>1. DeliveryTypes' /\ CallTypes' /\ OtherTypes'
    BY <1>1, <1>2, DeliveryTypesStep, CallTypesStep, OtherTypesStep
  <2>2. QED
    BY <2>1 DEF TypeOK, DeliveryTypes, CallTypes, OtherTypes
<1>4. Placed' /\ InUse' /\ Captured'
  BY <1>1, <1>2, PlacedStep, InUseStep, CapturedStep
<1>5. AnsweredAtTheEnd' /\ StrictWaits' /\ Tracked'
  BY <1>2, AnsweredAtTheEndStep, StrictWaitsStep, TrackedStep
<1>6. StrictAcksAllOrNothing' /\ SettledOnce' /\ NothingForgotten'
  BY <1>2, StrictAcksAllOrNothingStep, SettledOnceStep, NothingForgottenStep
<1>7. DrainedMeansSettled'
  BY <1>2, <1>5, DrainedMeansSettledStep
<1>8. RunningIsConsuming'
  BY <1>1, RunningIsConsumingStep
<1>9. QED
  BY <1>3, <1>4, <1>5, <1>6, <1>7, <1>8

LEMMA Inductive ==
  Spec => []IInv
BY InitIInv, NextIInv, PTL DEF Spec

(* Every variable keeps its type; the callbacks the manager counts as in   *)
(* progress are exactly the calls of reRegisterConsumer() under way.       *)
THEOREM TypeCorrect ==
  Spec => []TypeOK
<1>1. IInv => TypeOK
  BY DEF IInv
<1>2. QED
  BY Inductive, <1>1, PTL

(* Strict mode acknowledges an event when all its handlers have succeeded  *)
(* and none is running (lines 662-690), for any number of events,          *)
(* channels, handlers and time-outs.                                       *)
THEOREM StrictAcks ==
  Spec => []StrictAcksAllOrNothing
<1>1. IInv => StrictAcksAllOrNothing
  BY DEF IInv
<1>2. QED
  BY Inductive, <1>1, PTL

(* handleMessage() answers an event once, however its handlers, their      *)
(* time-outs and the loss of its channel interleave.                       *)
THEOREM OneAnswer ==
  Spec => []SettledOnce
<1>1. IInv => SettledOnce
  BY DEF IInv
<1>2. QED
  BY Inductive, <1>1, PTL

(* Every path through handleMessage() ends with an answer on a channel     *)
(* that takes one.                                                         *)
THEOREM AnswerGiven ==
  Spec => []NothingForgotten
<1>1. IInv => NothingForgotten
  BY DEF IInv
<1>2. QED
  BY Inductive, <1>1, PTL

(* stop() that has seen inFlightMessages empty closes a channel on which   *)
(* nothing waits, but for events that share a key.                         *)
THEOREM DrainIsComplete ==
  Spec => []DrainedMeansSettled
<1>1. IInv => DrainedMeansSettled
  BY DEF IInv
<1>2. QED
  BY Inductive, <1>1, PTL

(* isRunning() tells the truth, or will be corrected by 'close'.           *)
THEOREM RunningIsTrue ==
  Spec => []RunningIsConsuming
<1>1. IInv => RunningIsConsuming
  BY DEF IInv
<1>2. QED
  BY Inductive, <1>1, PTL

(* A reconnection of the subscriber's consumer, once scheduled, is lost by *)
(* no step, with any number of callbacks and start() calls under way.      *)
THEOREM ReconnectsGoOn ==
  Spec => ReconnectGoesOn
<1>1. IInv /\ [Next]_vars =>
        [Recovering =>
           Recovering' \/ running' \/ reconnectAttempts' > MaxReconnectAttempts]_vars
  BY StepCases, ReconnectGoesOnStep DEF IInv
<1>2. QED
  BY Inductive, <1>1, PTL DEF Spec, ReconnectGoesOn
=============================================================================
