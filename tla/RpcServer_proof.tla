---------------------------- MODULE RpcServer_proof ----------------------------
(***************************************************************************)
(* The safety properties of RpcServer, for any requests, commands, options *)
(* and channels.                                                           *)
(***************************************************************************)
EXTENDS RpcServer, MessageDeduplicator_proof

-------------------------------------------------------------------------------
(* The inductive invariant *)

(* Who was accepted has a channel, who runs a consumer's tag. *)
Placed ==
  /\ \A t \in Threads : pc[t] = "accepted" => on[t] # None
  /\ isRunning => consumerTag # None
  /\ stop = "closing" => stopping \in Channels

(* What is referred to was created; consumers are on open channels, and    *)
(* stop() closes one that is not.                                          *)
InUse ==
  /\ channel # None => chan[channel] # "none"
  /\ consumerTag # None => chan[consumerTag[1]] # "none"
  /\ \A t \in Threads : on[t] # None => chan[on[t]] # "none"
  /\ \A k \in consumers : chan[k[1]] = "open"
  /\ stop = "closing" => chan[stopping] \in {"broken", "closed"}

(* A request without an answer is on an open channel. *)
Owned ==
  /\ \A d \in Delivered : chan[d[1]] # "none"
  /\ \A d \in Unsettled : chan[d[1]] = "open"

(* What the deduplicator remembers, a handler has completed. *)
CachedWasHandled ==
  \A i \in DOMAIN cache : \E m \in handled : DedupKey[m] = cache[i].key

(* inFlightMessages has the id of every request being handled that has     *)
(* one, but for one whose id another delivery has removed.                 *)
Tracked ==
  \A d \in Delivered :
    LET id == CorrelationId[deliv[d].msg] IN
    deliv[d].at # "ended" =>
      \/ id = None
      \/ id \in inFlight
      \/ \E e \in Delivered \ {d} :
           CorrelationId[deliv[e].msg] = id /\ deliv[e].at = "ended"

(* A message that waits for an answer is out, and waits for one.           *)
OneDelivery ==
  \A d \in Unsettled :
    /\ where[deliv[d].msg] = "out"
    /\ \A e \in Unsettled : deliv[e].msg = deliv[d].msg => e = d

(* The redelivered flag remembers that a message was put back.             *)
Flagged ==
  \A m \in Messages :
    requeues[m] > 0 =>
      redelivered[m] /\ \A d \in Unsettled : deliv[d].msg = m => deliv[d].redelivered

IInv ==
  /\ TypeOK /\ Placed /\ InUse /\ Owned
  /\ CachedWasHandled /\ Tracked
  /\ AckedWasHandled /\ SettledWasAnswered /\ NothingForgotten
  /\ DrainedMeansIdle /\ HookedIsListening
  /\ OneDelivery /\ Flagged /\ RequeueLimit

-------------------------------------------------------------------------------
(* What a step does to the deliveries *)

(* handleRequest() for d ends, with this verdict and reply. *)
Ends(d, verdict, reply) ==
  /\ d \in Delivered
  /\ deliv[d].at # "ended"
  /\ verdict \in {"acked", "dead", "queued", "nothing"}
  /\ reply \in {"ok", "error", "unsent", "nothing"}
  /\ verdict = "acked" =>
       \/ deliv[d].msg \in malformed
       \/ deliv[d].msg \in handled'
       \/ Deduplicate /\ \E n \in handled : DedupKey[n] = DedupKey[deliv[d].msg]
  /\ verdict = "queued" => Attempts(d) < MaxRetries
  /\ mode = "auto" => verdict # "nothing" \/ d \in rejected'
  /\ rejected' \in {rejected, rejected \cup {d}}
  /\ mode = "auto" /\ deliv[d].msg \in RpcMessages \ malformed => reply # "nothing"
  /\ handled' \in {handled, handled \cup {deliv[d].msg}}
  /\ Conclude(d, verdict, reply)

(* What that does to delivery e and its channel: nothing, the answer, or   *)
(* the loss of both.                                                       *)
Reaches(d, e, verdict) ==
  \/ /\ deliv'[e].unsettled = deliv[e].unsettled
     /\ \/ chan'[e[1]] = chan[e[1]]
        \/ e \notin Unsettled /\ chan[e[1]] = "open" /\ chan'[e[1]] = "broken"
     /\ e = << channel, d[2] >> /\ OpenNow /\ verdict # "nothing" => e \notin Unsettled
  \/ /\ deliv'[e].unsettled = FALSE
     /\ \/ chan'[e[1]] = chan[e[1]]
        \/ chan[e[1]] = "open" /\ chan'[e[1]] = "broken"

(* And to message m: nothing, back to the queue, or the verdict.           *)
Moves(d, m, verdict) ==
  \/ where'[m] = where[m]
  \/ where'[m] = "queued"
  \/ /\ verdict # "nothing" /\ OpenNow
     /\ << channel, d[2] >> \in Delivered
     /\ m = deliv[<< channel, d[2] >>].msg
     /\ where'[m] = verdict

(* What becomes of the messages when the delivery t gets its answer, and   *)
(* when channel c is lost.                                                 *)
Settled(t, verdict) ==
  /\ t \in Unsettled
  /\ Unsettled' = Unsettled \ {t}
  /\ where' = [where EXCEPT ![deliv[t].msg] = verdict]
  /\ redelivered' = [redelivered EXCEPT ![deliv[t].msg] = @ \/ verdict = "queued"]
  /\ requeues' = [requeues EXCEPT ![deliv[t].msg] =
                    IF verdict = "queued" /\ @ < 2 THEN @ + 1 ELSE @]

Returned(c) ==
  LET back == {m \in Messages : \E d \in Unsettled : d[1] = c /\ deliv[d].msg = m}
  IN  /\ Unsettled' = {d \in Unsettled : d[1] # c}
      /\ where' = [m \in Messages |-> IF m \in back THEN "queued" ELSE where[m]]
      /\ redelivered' = [m \in Messages |-> m \in back \/ redelivered[m]]

Marks(d, verdict) ==
  \/ UNCHANGED << where, redelivered, requeues >> /\ Unsettled' = Unsettled
  \/ /\ verdict # "nothing" /\ OpenNow
     /\ Settled(<< channel, d[2] >>, verdict)
  \/ Returned(channel) /\ UNCHANGED requeues

MessageTypes ==
  /\ where \in [Messages -> Places]
  /\ redelivered \in [Messages -> BOOLEAN]
  /\ requeues \in [Messages -> 0..2]

Links ==
  \/ UNCHANGED linkVars
  \/ /\ OpenNow
     /\ chan' = [chan EXCEPT ![channel] = "broken"]
     /\ consumers' = {k \in consumers : k[1] # channel}
     /\ hooked' = hooked

Answers(d, verdict) ==
  /\ deliv' \in [Deliveries -> Delivery \cup {None}]
  /\ Delivered' = Delivered
  /\ \A e \in Delivered :
       /\ deliv'[e].msg = deliv[e].msg
       /\ deliv'[e].redelivered = deliv[e].redelivered
       /\ deliv'[e].at = IF e = d THEN "ended" ELSE deliv[e].at
       /\ Reaches(d, e, verdict)
  /\ \A m \in Messages : Moves(d, m, verdict)
  /\ Marks(d, verdict)
  /\ Links
  /\ MessageTypes'
  /\ UNCHANGED givenVars

(* What the loss of channel c leaves. *)
Loses(c, state) ==
  /\ deliv' \in [Deliveries -> Delivery \cup {None}]
  /\ Delivered' = Delivered
  /\ \A e \in Delivered :
       /\ deliv'[e].msg = deliv[e].msg
       /\ deliv'[e].redelivered = deliv[e].redelivered
       /\ deliv'[e].at = deliv[e].at
       /\ e[1] = c => deliv'[e].unsettled = FALSE
       /\ e[1] # c => deliv'[e].unsettled = deliv[e].unsettled
  /\ chan' = [chan EXCEPT ![c] = state]
  /\ consumers' = {k \in consumers : k[1] # c}
  /\ \A m \in Messages : where'[m] \in {where[m], "queued"}
  /\ where' \in [Messages -> Places]
  /\ redelivered' \in [Messages -> BOOLEAN]
  /\ Returned(c)
  /\ UNCHANGED givenVars

(* What the arrival of m at consumer k, as d, leaves. *)
Arrives(m, k, d) ==
  /\ d[1] = k[1]
  /\ d \notin Delivered
  /\ Delivered' = Delivered \cup {d}
  /\ deliv' \in [Deliveries -> Delivery \cup {None}]
  /\ \A e \in Delivered : deliv'[e] = deliv[e]
  /\ deliv'[d].msg = m
  /\ deliv'[d].redelivered = redelivered[m]
  /\ deliv'[d].at = IF channel = None THEN "ended" ELSE "arrived"

(* What the start of a handler leaves. *)
Begins(d) ==
  /\ d \in Delivered
  /\ deliv[d].at # "ended"
  /\ Delivered' = Delivered
  /\ deliv' \in [Deliveries -> Delivery \cup {None}]
  /\ \A e \in Delivered :
       /\ deliv'[e].msg = deliv[e].msg
       /\ deliv'[e].redelivered = deliv[e].redelivered
       /\ deliv'[e].unsettled = deliv[e].unsettled
       /\ deliv'[e].at = IF e = d THEN "running" ELSE deliv[e].at
  /\ UNCHANGED << givenVars, where, redelivered, linkVars, requeues, crossed, rejected, sent,
                  inFlight >>

(* The updates of a delivery. *)
LEMMA DeliveryUpdates ==
  ASSUME NEW r \in Delivery, NEW p \in {"running", "ended"}
  PROVE  /\ [r EXCEPT !.at = p] \in Delivery
         /\ [r EXCEPT !.at = p].msg = r.msg
         /\ [r EXCEPT !.at = p].redelivered = r.redelivered
         /\ [r EXCEPT !.at = p].unsettled = r.unsettled
         /\ [r EXCEPT !.at = p].at = p
         /\ [r EXCEPT !.unsettled = FALSE] \in Delivery
         /\ [r EXCEPT !.unsettled = FALSE].msg = r.msg
         /\ [r EXCEPT !.unsettled = FALSE].redelivered = r.redelivered
         /\ [r EXCEPT !.unsettled = FALSE].unsettled = FALSE
         /\ [r EXCEPT !.unsettled = FALSE].at = r.at
BY DEF Delivery

(* A delivery that is not None is a record. *)
LEMMA DeliveredAreDeliveries ==
  ASSUME TypeOK
  PROVE  /\ \A d \in Delivered : deliv[d] \in Delivery /\ d \in Deliveries
         /\ None \notin Delivery /\ None \notin Channels
         /\ Unsettled \subseteq Delivered
BY NoneAssumption DEF TypeOK, Delivered, Unsettled

(* The delivery whose handling starts or ends, as the step leaves it.      *)
LEMMA PlaceEffect ==
  ASSUME TypeOK, NEW d \in Delivered, NEW p \in {"running", "ended"}
  PROVE  LET f == [deliv EXCEPT ![d].at = p] IN
         /\ f \in [Deliveries -> Delivery \cup {None}]
         /\ \A e \in Deliveries : f[e] = None <=> deliv[e] = None
         /\ \A e \in Delivered :
              /\ f[e] \in Delivery
              /\ f[e].msg = deliv[e].msg
              /\ f[e].redelivered = deliv[e].redelivered
              /\ f[e].unsettled = deliv[e].unsettled
              /\ f[e].at = IF e = d THEN p ELSE deliv[e].at
<1> USE DeliveredAreDeliveries
<1> DEFINE f == [deliv EXCEPT ![d].at = p]
           r == deliv[d]
<1>1. f = [e \in Deliveries |-> IF e = d THEN [r EXCEPT !.at = p] ELSE deliv[e]]
  BY DEF TypeOK
<1>2. r \in Delivery /\ d \in Deliveries /\ deliv \in [Deliveries -> Delivery \cup {None}]
  BY DEF TypeOK
<1> HIDE DEF f, r
<1>3. /\ [r EXCEPT !.at = p] \in Delivery
      /\ [r EXCEPT !.at = p].msg = r.msg
      /\ [r EXCEPT !.at = p].redelivered = r.redelivered
      /\ [r EXCEPT !.at = p].unsettled = r.unsettled
      /\ [r EXCEPT !.at = p].at = p
  BY <1>2, DeliveryUpdates
<1>4. f \in [Deliveries -> Delivery \cup {None}]
  BY <1>1, <1>2, <1>3
<1>5. \A e \in Deliveries : f[e] = None <=> deliv[e] = None
  BY <1>1, <1>2, <1>3 DEF Delivered
<1>6. ASSUME NEW e \in Delivered
      PROVE  /\ f[e] \in Delivery
             /\ f[e].msg = deliv[e].msg
             /\ f[e].redelivered = deliv[e].redelivered
             /\ f[e].unsettled = deliv[e].unsettled
             /\ f[e].at = IF e = d THEN p ELSE deliv[e].at
  <2>1. CASE e = d
    BY <1>1, <1>3, <2>1 DEF r
  <2>2. CASE e # d
    BY <1>1, <2>2
  <2>3. QED
    BY <2>1, <2>2
<1>7. QED
  BY <1>4, <1>5, <1>6 DEF f

(* What the loss of channel c leaves of the deliveries f and the messages. *)
LEMMA DropEffect ==
  ASSUME TypeOK, NEW c, NEW state, NEW f \in [Deliveries -> Delivery \cup {None}],
         \A e \in Deliveries : f[e] = None <=> deliv[e] = None,
         \A e \in Delivered : f[e].unsettled = deliv[e].unsettled,
         Drop(c, state, f)
  PROVE  /\ deliv' \in [Deliveries -> Delivery \cup {None}]
         /\ Delivered' = Delivered
         /\ \A e \in Delivered :
              /\ deliv'[e].msg = f[e].msg
              /\ deliv'[e].redelivered = f[e].redelivered
              /\ deliv'[e].at = f[e].at
              /\ e[1] = c => deliv'[e].unsettled = FALSE
              /\ e[1] # c => deliv'[e].unsettled = deliv[e].unsettled
         /\ \A m \in Messages : where'[m] \in {where[m], "queued"}
         /\ where' \in [Messages -> Places]
         /\ redelivered' \in [Messages -> BOOLEAN]
         /\ Returned(c)
<1> USE DeliveredAreDeliveries
<1> DEFINE lost == {d \in Unsettled : d[1] = c}
<1>1. deliv' = [d \in Deliveries |-> IF d \in lost THEN [f[d] EXCEPT !.unsettled = FALSE] ELSE f[d]]
  BY DEF Drop
<1>2. lost \subseteq Delivered /\ Delivered \subseteq Deliveries
  OBVIOUS
<1>3. \A e \in Delivered : f[e] \in Delivery
  BY DEF Delivered
<1>4. \A e \in lost : LET r == [f[e] EXCEPT !.unsettled = FALSE] IN
        r \in Delivery /\ r.msg = f[e].msg /\ r.redelivered = f[e].redelivered
        /\ r.at = f[e].at /\ r.unsettled = FALSE
  BY <1>2, <1>3, DeliveryUpdates
<1>5. deliv' \in [Deliveries -> Delivery \cup {None}]
  BY <1>1, <1>4
<1>6. \A e \in Deliveries : deliv'[e] = None <=> deliv[e] = None
  BY <1>1, <1>2, <1>3, <1>4 DEF Delivered
<1>7. Delivered' = Delivered
  BY <1>6 DEF Delivered
<1>8. ASSUME NEW e \in Delivered
      PROVE  /\ deliv'[e].msg = f[e].msg
             /\ deliv'[e].redelivered = f[e].redelivered
             /\ deliv'[e].at = f[e].at
             /\ e[1] = c => deliv'[e].unsettled = FALSE
             /\ e[1] # c => deliv'[e].unsettled = deliv[e].unsettled
  <2>1. CASE e \in lost
    BY <1>1, <1>2, <1>4, <2>1
  <2>2. CASE e \notin lost
    <3>1. deliv'[e] = f[e]
      BY <1>1, <1>2, <2>2
    <3>2. e[1] = c => deliv[e].unsettled = FALSE
      BY <2>2 DEF Unsettled, Delivery
    <3>3. QED
      BY <3>1, <3>2
  <2>3. QED
    BY <2>1, <2>2
<1>9. /\ \A m \in Messages : where'[m] \in {where[m], "queued"}
      /\ where' \in [Messages -> Places]
      /\ redelivered' \in [Messages -> BOOLEAN]
  BY DEF Drop, TypeOK, Places
<1>10. Unsettled' = {d \in Unsettled : d[1] # c}
  <2>1. \A e \in Delivered : deliv'[e].unsettled <=> deliv[e].unsettled /\ e[1] # c
    BY <1>3, <1>8 DEF Delivery
  <2>2. QED
    BY <1>7, <2>1 DEF Unsettled
<1>11. Returned(c)
  BY <1>10 DEF Returned, Drop
<1>12. QED
  BY <1>5, <1>7, <1>8, <1>9, <1>11

(* A channel that is lost without an answer on its way. *)
LEMMA LossEffect ==
  ASSUME TypeOK, NEW c, NEW state, Drop(c, state, deliv)
  PROVE  Loses(c, state)
<1>1. deliv \in [Deliveries -> Delivery \cup {None}]
  BY DEF TypeOK
<1>2. /\ chan' = [chan EXCEPT ![c] = state]
      /\ consumers' = {k \in consumers : k[1] # c}
      /\ UNCHANGED givenVars
  BY DEF Drop
<1>3. QED
  BY <1>1, <1>2, DropEffect DEF Loses

(* The end of handleRequest() for d. *)
LEMMA EndEffect ==
  ASSUME TypeOK, NEW d, NEW verdict, NEW reply, Ends(d, verdict, reply)
  PROVE  Answers(d, verdict)
<1> USE DeliveredAreDeliveries
<1> DEFINE t == << channel, d[2] >>
           f == End(d)
<1>1. d \in Delivered /\ Settle(d, verdict)
      /\ verdict \in {"acked", "dead", "queued", "nothing"}
  BY DEF Ends, Conclude
<1>2. /\ f \in [Deliveries -> Delivery \cup {None}]
      /\ \A e \in Deliveries : f[e] = None <=> deliv[e] = None
      /\ \A e \in Delivered :
           /\ f[e] \in Delivery
           /\ f[e].msg = deliv[e].msg
           /\ f[e].redelivered = deliv[e].redelivered
           /\ f[e].unsettled = deliv[e].unsettled
           /\ f[e].at = IF e = d THEN "ended" ELSE deliv[e].at
  BY <1>1, PlaceEffect DEF End
<1> HIDE DEF f
<1>3. CASE verdict = "nothing" \/ ~OpenNow
  <2>1. /\ deliv' = f
        /\ UNCHANGED << givenVars, where, redelivered, linkVars, requeues >>
    BY <1>1, <1>3 DEF Settle, f
  <2>2. Delivered' = Delivered
    BY <1>2, <2>1 DEF Delivered
  <2>3. \A e \in Delivered : Reaches(d, e, verdict)
    BY <1>2, <1>3, <2>1 DEF Reaches, linkVars
  <2>4. \A m \in Messages : Moves(d, m, verdict)
    BY <2>1 DEF Moves
  <2>5. MessageTypes'
    BY <2>1 DEF MessageTypes, TypeOK
  <2>6. Marks(d, verdict)
    BY <1>2, <2>1, <2>2 DEF Marks, Unsettled
  <2>7. QED
    BY <1>2, <2>1, <2>2, <2>3, <2>4, <2>5, <2>6 DEF Answers, Links
<1>4. CASE verdict # "nothing" /\ OpenNow /\ t \in Unsettled
  <2>1. /\ deliv' = [f EXCEPT ![t].unsettled = FALSE]
        /\ where' = [where EXCEPT ![deliv[t].msg] = verdict]
        /\ redelivered' = [redelivered EXCEPT ![deliv[t].msg] = @ \/ verdict = "queued"]
        /\ requeues' = [requeues EXCEPT ![deliv[t].msg] =
                          IF verdict = "queued" /\ @ < 2 THEN @ + 1 ELSE @]
        /\ UNCHANGED << givenVars, linkVars >>
    BY <1>1, <1>4 DEF Settle, f, linkVars
  <2>2. t \in Delivered /\ t \in Deliveries /\ deliv[t].msg \in Messages
    BY <1>4 DEF Delivery
  <2> DEFINE r == f[t]
  <2>3. deliv' = [e \in Deliveries |-> IF e = t THEN [r EXCEPT !.unsettled = FALSE] ELSE f[e]]
    BY <1>2, <2>1
  <2>4. r \in Delivery
    BY <1>2, <2>2
  <2> HIDE DEF r
  <2>5. /\ [r EXCEPT !.unsettled = FALSE] \in Delivery
        /\ [r EXCEPT !.unsettled = FALSE].msg = r.msg
        /\ [r EXCEPT !.unsettled = FALSE].redelivered = r.redelivered
        /\ [r EXCEPT !.unsettled = FALSE].unsettled = FALSE
        /\ [r EXCEPT !.unsettled = FALSE].at = r.at
    BY <2>4, DeliveryUpdates
  <2>6. deliv' \in [Deliveries -> Delivery \cup {None}]
    BY <1>2, <2>3, <2>5
  <2>7. \A e \in Deliveries : deliv'[e] = None <=> deliv[e] = None
    BY <1>2, <2>2, <2>3, <2>5 DEF Delivered
  <2>8. Delivered' = Delivered
    BY <2>7 DEF Delivered
  <2>9. ASSUME NEW e \in Delivered
        PROVE  /\ deliv'[e].msg = deliv[e].msg
               /\ deliv'[e].redelivered = deliv[e].redelivered
               /\ deliv'[e].at = IF e = d THEN "ended" ELSE deliv[e].at
               /\ deliv'[e].unsettled = IF e = t THEN FALSE ELSE deliv[e].unsettled
    <3>1. CASE e = t
      BY <1>2, <2>3, <2>5, <3>1 DEF r
    <3>2. CASE e # t
      BY <1>2, <2>3, <3>2
    <3>3. QED
      BY <3>1, <3>2
  <2>10. \A e \in Delivered : Reaches(d, e, verdict)
    BY <2>1, <2>9 DEF Reaches, linkVars
  <2>11. \A m \in Messages : Moves(d, m, verdict)
    BY <1>4, <2>1, <2>2 DEF Moves, TypeOK
  <2>12. MessageTypes'
    <3>1. where' \in [Messages -> Places]
      BY <1>1, <1>4, <2>1, <2>2 DEF TypeOK, Places
    <3>2. redelivered' \in [Messages -> BOOLEAN]
      BY <2>1, <2>2 DEF TypeOK
    <3>3. requeues' \in [Messages -> 0..2]
      <4>1. requeues \in [Messages -> 0..2]
        BY DEF TypeOK
      <4>2. \A n \in 0..2 : n < 2 => n + 1 \in 0..2
        OBVIOUS
      <4>3. QED
        BY <2>1, <2>2, <4>1, <4>2
    <3>4. QED
      BY <3>1, <3>2, <3>3 DEF MessageTypes
  <2>13. Marks(d, verdict)
    <3>1. Unsettled' = Unsettled \ {t}
      BY <2>8, <2>9 DEF Unsettled
    <3>2. QED
      BY <1>4, <2>1, <3>1 DEF Marks, Settled
  <2>14. QED
    BY <2>1, <2>6, <2>8, <2>9, <2>10, <2>11, <2>12, <2>13 DEF Answers, Links
<1>5. CASE verdict # "nothing" /\ OpenNow /\ t \notin Unsettled
  <2>1. /\ Drop(channel, "broken", f)
        /\ UNCHANGED << hooked, requeues >>
    BY <1>1, <1>5 DEF Settle, f
  <2>2. /\ chan' = [chan EXCEPT ![channel] = "broken"]
        /\ consumers' = {k \in consumers : k[1] # channel}
        /\ UNCHANGED givenVars
    BY <2>1 DEF Drop
  <2>3. /\ deliv' \in [Deliveries -> Delivery \cup {None}]
        /\ Delivered' = Delivered
        /\ \A e \in Delivered :
             /\ deliv'[e].msg = f[e].msg
             /\ deliv'[e].redelivered = f[e].redelivered
             /\ deliv'[e].at = f[e].at
             /\ e[1] = channel => deliv'[e].unsettled = FALSE
             /\ e[1] # channel => deliv'[e].unsettled = deliv[e].unsettled
        /\ \A m \in Messages : where'[m] \in {where[m], "queued"}
        /\ where' \in [Messages -> Places]
        /\ redelivered' \in [Messages -> BOOLEAN]
        /\ Returned(channel)
    BY <1>2, <2>1, DropEffect
  <2>4. ASSUME NEW e \in Delivered
        PROVE  Reaches(d, e, verdict)
    <3>1. e[1] \in Channels /\ chan \in [Channels -> {"none", "open", "broken", "closed"}]
      BY DEF Deliveries, TypeOK
    <3>2. chan'[e[1]] = IF e[1] = channel THEN "broken" ELSE chan[e[1]]
      BY <2>2, <3>1
    <3>3. QED
      BY <1>5, <2>3, <3>2 DEF Reaches, OpenNow
  <2>5. \A m \in Messages : Moves(d, m, verdict)
    BY <2>3 DEF Moves
  <2>6. MessageTypes'
    BY <2>1, <2>3 DEF MessageTypes, TypeOK
  <2>7. Marks(d, verdict)
    BY <2>1, <2>3 DEF Marks
  <2>8. QED
    BY <1>2, <1>5, <2>1, <2>2, <2>3, <2>4, <2>5, <2>6, <2>7 DEF Answers, Links
<1>6. QED
  BY <1>3, <1>4, <1>5

(* The arrival of a request. *)
LEMMA DeliverEffect ==
  ASSUME TypeOK, NEW m \in Messages, NEW k \in consumers, Deliver(m, k)
  PROVE  \E d \in Deliveries : Arrives(m, k, d)
<1> USE DeliveredAreDeliveries
<1>1. k[1] \in Channels
  BY DEF TypeOK
<1>2. PICK tag \in 1..MaxTags :
        /\ deliv[<< k[1], tag >>] = None
        /\ deliv' = [deliv EXCEPT ![<< k[1], tag >>] =
                      [msg |-> m, redelivered |-> redelivered[m], unsettled |-> TRUE,
                       at |-> IF channel = None THEN "ended" ELSE "arrived"]]
  BY DEF Deliver
<1> DEFINE d == << k[1], tag >>
           r == [msg |-> m, redelivered |-> redelivered[m], unsettled |-> TRUE,
                 at |-> IF channel = None THEN "ended" ELSE "arrived"]
<1>3. d \in Deliveries /\ d[1] = k[1] /\ d \notin Delivered
  BY <1>1, <1>2 DEF Deliveries, Delivered
<1>4. r \in Delivery
  BY DEF Delivery, TypeOK
<1>5. deliv' = [e \in Deliveries |-> IF e = d THEN r ELSE deliv[e]]
  BY <1>2, <1>3 DEF TypeOK
<1>6. r.msg = m /\ r.redelivered = redelivered[m] /\ r.unsettled
      /\ r.at = IF channel = None THEN "ended" ELSE "arrived"
  OBVIOUS
<1> HIDE DEF r, d
<1>7. deliv' \in [Deliveries -> Delivery \cup {None}]
  BY <1>4, <1>5 DEF TypeOK
<1>8. Delivered' = Delivered \cup {d}
  BY <1>3, <1>4, <1>5 DEF Delivered
<1>9. \A e \in Delivered : deliv'[e] = deliv[e]
  BY <1>3, <1>5 DEF Delivered
<1>10. QED
  BY <1>3, <1>5, <1>6, <1>7, <1>8, <1>9 DEF Arrives

(* The start of a handler. *)
LEMMA BeginEffect ==
  ASSUME TypeOK, NEW d \in Delivered, deliv[d].at # "ended", Begin(d)
  PROVE  Begins(d)
<1> DEFINE f == [deliv EXCEPT ![d].at = "running"]
<1>1. deliv' = f
  BY DEF Begin
<1>2. /\ f \in [Deliveries -> Delivery \cup {None}]
      /\ \A e \in Deliveries : f[e] = None <=> deliv[e] = None
      /\ \A e \in Delivered :
           /\ f[e] \in Delivery
           /\ f[e].msg = deliv[e].msg
           /\ f[e].redelivered = deliv[e].redelivered
           /\ f[e].unsettled = deliv[e].unsettled
           /\ f[e].at = IF e = d THEN "running" ELSE deliv[e].at
  BY PlaceEffect
<1> HIDE DEF f
<1>3. Delivered' = Delivered
  BY <1>1, <1>2 DEF Delivered
<1>4. QED
  BY <1>1, <1>2, <1>3 DEF Begin, Begins

-------------------------------------------------------------------------------
(* The steps *)

idle == << serverVars, reconnectVars, callVars >>

(* The steps, those of handleRequest() by what they do to the deliveries.  *)
Steps ==
  \/ \E s \in Starters : Start(s)
  \/ TimerFires
  \/ \E t \in Threads : Opened(t) \/ Consume(t) \/ Registered(t) \/ RegistrationFails(t)
  \/ StopBegins \/ StopCancels \/ StopWaited \/ StopCloses
  \/ \E m \in Messages, k \in consumers : Deliver(m, k)
  \/ UNCHANGED idle /\ \E d, verdict, reply : Ends(d, verdict, reply)
  \/ UNCHANGED << idle, handled >> /\ \E d : Begins(d)
  \/ \E c \in Commands : RegisterHandler(c) \/ UnregisterHandler(c)
  \/ \E k \in consumers : ConsumerCancelled(k)
  \/ \E c \in Channels : ChannelBreaks(c) \/ ChannelDown(c)
  \/ UNCHANGED vars

(* A request that fails is answered and settled, or rejected on. *)
LEMMA ErrorEffect ==
  ASSUME TypeOK, NEW d \in Delivered, deliv[d].at # "ended",
         handled' \in {handled, handled \cup {deliv[d].msg}},
         HandleRequestError(d)
  PROVE  \E verdict, reply : Ends(d, verdict, reply)
<1>1. CASE mode = "manual" /\ Finish(d, "dead", "nothing")
  <2>1. Ends(d, "dead", "nothing")
    BY <1>1 DEF Ends, Finish
  <2>2. QED
    BY <2>1
<1>2. ASSUME mode = "auto", NEW reply \in {"error", "unsent"}, Finish(d, "dead", reply)
      PROVE  \E verdict, answer : Ends(d, verdict, answer)
  <2>1. Ends(d, "dead", reply)
    BY <1>2 DEF Ends, Finish
  <2>2. QED
    BY <2>1
<1>3. ASSUME mode = "auto", deliv[d].msg \notin RpcMessages, NEW requeue \in BOOLEAN,
             requeue => Attempts(d) < MaxRetries,
             Finish(d, IF requeue THEN "queued" ELSE "dead", "nothing")
      PROVE  \E verdict, reply : Ends(d, verdict, reply)
  <2>1. Ends(d, IF requeue THEN "queued" ELSE "dead", "nothing")
    BY <1>3 DEF Ends, Finish
  <2>2. QED
    BY <2>1
<1>4. CASE /\ mode = "auto" /\ deliv[d].msg \notin RpcMessages
           /\ \E requeue \in RequeueAnswers :
                Finish(d, IF Attempts(d) < MaxRetries /\ requeue THEN "queued" ELSE "dead",
                       "nothing")
  <2>1. PICK requeue \in RequeueAnswers :
          Finish(d, IF Attempts(d) < MaxRetries /\ requeue THEN "queued" ELSE "dead", "nothing")
    BY <1>4
  <2>2. CASE Attempts(d) < MaxRetries /\ requeue
    BY <1>3, <1>4, <2>1, <2>2
  <2>3. CASE ~ (Attempts(d) < MaxRetries /\ requeue)
    BY <1>3, <1>4, <2>1, <2>3
  <2>4. QED
    BY <2>2, <2>3
<1>5. CASE mode = "auto" /\ deliv[d].msg \notin RpcMessages /\ Reject(d)
  <2>1. Ends(d, "nothing", "nothing")
    BY <1>5 DEF Ends, Reject
  <2>2. QED
    BY <2>1
<1>6. QED
  BY <1>1, <1>2, <1>4, <1>5 DEF HandleRequestError

(* So is one that succeeds, or was completed before. *)
LEMMA RespondEffect ==
  ASSUME TypeOK, NEW d \in Delivered, deliv[d].at # "ended",
         handled' \in {handled, handled \cup {deliv[d].msg}},
         \/ deliv[d].msg \in handled'
         \/ Deduplicate /\ \E n \in handled : DedupKey[n] = DedupKey[deliv[d].msg],
         Respond(d)
  PROVE  \E verdict, reply : Ends(d, verdict, reply)
<1>1. CASE HandleRequestError(d)
  BY <1>1, ErrorEffect
<1>2. CASE Finish(d, IF mode = "auto" THEN "acked" ELSE "nothing", "ok")
  <2>1. CASE mode = "auto"
    <3>1. Ends(d, "acked", "ok")
      BY <1>2, <2>1 DEF Ends, Finish
    <3>2. QED
      BY <3>1
  <2>2. CASE mode # "auto"
    <3>1. Ends(d, "nothing", "ok")
      BY <1>2, <2>2 DEF Ends, Finish
    <3>2. QED
      BY <3>1
  <2>3. QED
    BY <2>1, <2>2
<1>3. QED
  BY <1>1, <1>2 DEF Respond

(* What the cache is. *)
LEMMA CacheType ==
  ASSUME TypeOK
  PROVE  /\ cache \in Seq(Entries({DedupKey[m] : m \in Messages}))
         /\ Distinct(cache)
         /\ Len(cache) <= CacheSize
BY DEF TypeOK, Entries, Distinct

LEMMA StepCases ==
  ASSUME TypeOK, CachedWasHandled, [Next]_vars
  PROVE  Steps
<1> USE DeliveredAreDeliveries
<1>1. ASSUME NEW d \in Deliveries, Parsed(d)
      PROVE  Steps
  <2> DEFINE m == deliv[d].msg
             key == DedupKey[m]
  <2>1. /\ d \in Delivered /\ deliv[d].at # "ended"
        /\ UNCHANGED << idle, handled >> /\ m \in Messages
    BY <1>1 DEF Parsed, idle, Delivery
  <2>2. CASE m \in malformed /\ HandleMalformed(d)
    <3>1. PICK strategy \in MalformedStrategies :
            Finish(d, IF strategy = "ignore" THEN "acked" ELSE "dead", "nothing")
      BY <2>2 DEF HandleMalformed
    <3>2. Ends(d, IF strategy = "ignore" THEN "acked" ELSE "dead", "nothing")
      BY <2>1, <2>2, <3>1 DEF Ends, Finish
    <3>3. QED
      BY <2>1, <3>2 DEF Steps
  <2>3. CASE HandleRequestError(d)
    BY <2>1, <2>3, ErrorEffect DEF Steps
  <2>4. CASE Begin(d)
    BY <2>1, <2>4, BeginEffect DEF Steps
  <2>5. CASE Deduplicate /\ cache' \in Hits(cache, key) /\ Respond(d)
    <3>1. HasKey(cache, key)
      BY <2>1, <2>5, CacheType, LookupProperties
    <3>2. \E n \in handled : DedupKey[n] = key
      BY <3>1 DEF HasKey, CachedWasHandled
    <3>3. QED
      BY <2>1, <2>5, <3>2, RespondEffect DEF Steps
  <2>6. QED
    BY <1>1, <2>2, <2>3, <2>4, <2>5 DEF Parsed, Deduplicated
<1>2. ASSUME NEW d \in Deliveries, HandlerSucceeds(d)
      PROVE  Steps
  <2>1. /\ d \in Delivered /\ deliv[d].at # "ended"
        /\ UNCHANGED idle /\ handled' = handled \cup {deliv[d].msg}
        /\ Respond(d)
    BY <1>2 DEF HandlerSucceeds, idle
  <2>2. QED
    BY <2>1, RespondEffect DEF Steps
<1>3. ASSUME NEW d \in Deliveries, HandlerFails(d)
      PROVE  Steps
  <2>1. /\ d \in Delivered /\ deliv[d].at # "ended"
        /\ UNCHANGED << idle, handled >> /\ HandleRequestError(d)
    BY <1>3 DEF HandlerFails, idle
  <2>2. QED
    BY <2>1, ErrorEffect DEF Steps
<1>4. CASE Handle
  BY <1>1, <1>2, <1>3, <1>4 DEF Handle, Steps
<1>5. CASE Register \/ Stop
  BY <1>5 DEF Register, Stop, Steps
<1>6. QED
  BY <1>4, <1>5 DEF Next, Steps

(* The steps as the deliveries see them.  Nothing arrives, ends or is      *)
(* lost; channels are opened or closed for good.                           *)
Quiet ==
  /\ UNCHANGED << messageVars, inFlight, handled, sent, requeues, crossed, rejected >>
  /\ \/ channel' \in {channel, None}
     \/ channel' \in Channels /\ chan[channel'] = "none"
  /\ \A c \in Channels :
       /\ chan[c] = "open" => chan'[c] = "open"
       /\ chan[c] \in {"broken", "closed"} => chan'[c] \in {"broken", "closed"}

Arrival(m, k, d) ==
  /\ Arrives(m, k, d)
  /\ where[m] = "queued"
  /\ where' = [where EXCEPT ![m] = "out"]
  /\ inFlight' = IF channel = None THEN inFlight
                 ELSE inFlight \cup ({CorrelationId[m]} \ {None})
  /\ UNCHANGED << channel, givenVars, chan, redelivered, handled, sent, requeues, crossed,
                  rejected >>

Loss(c, state) ==
  /\ Loses(c, state)
  /\ state \in {"broken", "closed"}
  /\ chan[c] # "none"
  /\ UNCHANGED << channel, inFlight, handled, sent, requeues, crossed, rejected >>

DeliverySteps ==
  \/ Quiet
  \/ \E m \in Messages, k \in consumers, d \in Deliveries : Arrival(m, k, d)
  \/ UNCHANGED channel /\ \E d, verdict, reply : Ends(d, verdict, reply)
  \/ UNCHANGED << channel, handled >> /\ \E d : Begins(d)
  \/ \E c \in Channels : \E state : Loss(c, state)

LEMMA DeliveryCases ==
  ASSUME TypeOK, Placed, InUse, Steps
  PROVE  DeliverySteps
<1> USE DEF vars, serverVars, reconnectVars, callVars, linkVars, givenVars, messageVars,
          workVars, restOfStep, idle
<1>0. /\ channel \in Channels \cup {None}
      /\ chan \in [Channels -> {"none", "open", "broken", "closed"}]
  BY DEF TypeOK
<1>1. CASE (\E s \in Starters : Start(s)) \/ TimerFires
  BY <1>1 DEF Start, TimerFires, Quiet, DeliverySteps
<1>2. ASSUME NEW t \in Threads, Opened(t) \/ Consume(t) \/ Registered(t) \/ RegistrationFails(t)
      PROVE  DeliverySteps
  <2>1. CASE Opened(t)
    <3>1. Quiet
      BY <1>0, <2>1 DEF Opened, Quiet
    <3>2. QED
      BY <3>1 DEF DeliverySteps
  <2>2. CASE Consume(t) \/ Registered(t) \/ RegistrationFails(t)
    BY <2>2 DEF Consume, Registered, RegistrationFails, Quiet, DeliverySteps
  <2>3. QED
    BY <1>2, <2>1, <2>2
<1>3. CASE StopBegins \/ StopCancels
  BY <1>3 DEF StopBegins, StopCancels, Quiet, DeliverySteps
<1>4. CASE StopWaited
  <2>1. CASE channel = None
    BY <1>4, <2>1 DEF StopWaited, Stopped, Quiet, DeliverySteps
  <2>2. CASE channel # None
    <3> DEFINE state == IF OpenNow THEN "broken" ELSE chan[channel]
    <3>1. Drop(channel, state, deliv) /\ channel \in Channels
      BY <1>0, <1>4, <2>2 DEF StopWaited
    <3>2. state \in {"broken", "closed"} /\ chan[channel] # "none"
      BY <1>0, <2>2, <3>1 DEF InUse, OpenNow
    <3>3. UNCHANGED << channel, inFlight, handled, sent, requeues, crossed, rejected >>
      BY <1>4, <2>2 DEF StopWaited
    <3> HIDE DEF state
    <3>4. Loss(channel, state)
      BY <3>1, <3>2, <3>3, LossEffect DEF Loss
    <3>5. QED
      BY <3>1, <3>4 DEF DeliverySteps
  <2>3. QED
    BY <2>1, <2>2
<1>5. CASE StopCloses
  <2>1. Quiet
    BY <1>0, <1>5 DEF StopCloses, Stopped, Quiet, Placed, InUse
  <2>2. QED
    BY <2>1 DEF DeliverySteps
<1>6. ASSUME NEW m \in Messages, NEW k \in consumers, Deliver(m, k)
      PROVE  DeliverySteps
  <2>1. PICK d \in Deliveries : Arrives(m, k, d)
    BY <1>6, DeliverEffect
  <2>2. Arrival(m, k, d)
    BY <1>6, <2>1 DEF Deliver, Arrival, Track
  <2>3. QED
    BY <2>2 DEF DeliverySteps
<1>7. CASE UNCHANGED idle /\ \E d, verdict, reply : Ends(d, verdict, reply)
  BY <1>7 DEF DeliverySteps
<1>8. CASE UNCHANGED << idle, handled >> /\ \E d : Begins(d)
  BY <1>8 DEF DeliverySteps
<1>9. CASE \E c \in Commands : RegisterHandler(c) \/ UnregisterHandler(c)
  BY <1>9 DEF RegisterHandler, UnregisterHandler, Quiet, DeliverySteps
<1>10. CASE \E k \in consumers : ConsumerCancelled(k)
  BY <1>10 DEF ConsumerCancelled, Quiet, DeliverySteps
<1>11. ASSUME NEW c \in Channels, ChannelBreaks(c) \/ ChannelDown(c)
       PROVE  DeliverySteps
  <2>1. CASE ChannelBreaks(c)
    <3>1. Loss(c, "broken")
      BY <2>1, LossEffect DEF ChannelBreaks, Loss
    <3>2. QED
      BY <3>1 DEF DeliverySteps
  <2>2. CASE ChannelDown(c)
    <3>1. Quiet
      BY <1>0, <2>2 DEF ChannelDown, Quiet, OnChannelDown
    <3>2. QED
      BY <3>1 DEF DeliverySteps
  <2>3. QED
    BY <1>11, <2>1, <2>2
<1>12. CASE UNCHANGED vars
  BY <1>12 DEF Quiet, DeliverySteps
<1>13. QED
  BY <1>1, <1>2, <1>3, <1>4, <1>5, <1>6, <1>7, <1>8, <1>9, <1>10, <1>11, <1>12 DEF Steps

(* A channel that breaks takes what it has not settled with it.            *)
LEMMA OwnedStep ==
  ASSUME TypeOK, InUse, Owned, DeliverySteps
  PROVE  Owned'
<1> USE DeliveredAreDeliveries DEF Owned, Unsettled
<1>1. CASE Quiet
  <2>1. Delivered' = Delivered
    BY <1>1 DEF Quiet, messageVars, Delivered
  <2>2. QED
    BY <1>1, <2>1 DEF Quiet, messageVars, givenVars, Deliveries, TypeOK
<1>2. ASSUME NEW m \in Messages, NEW k \in consumers, NEW d \in Deliveries, Arrival(m, k, d)
      PROVE  Owned'
  BY <1>2 DEF Arrival, Arrives, Deliveries, givenVars, InUse
<1>3. ASSUME NEW d, NEW verdict, NEW reply, Ends(d, verdict, reply), UNCHANGED channel
      PROVE  Owned'
  <2>1. /\ Answers(d, verdict)
        /\ d \in Delivered /\ deliv[d].at # "ended" /\ d = << d[1], d[2] >>
    <3>1. d \in Deliveries /\ Answers(d, verdict) /\ deliv[d].at # "ended"
      BY <1>3, EndEffect DEF Ends
    <3>2. QED
      BY <1>3, <3>1 DEF Ends, Deliveries
  <2>2. ASSUME NEW e \in Delivered
        PROVE  chan'[e[1]] # "none" /\ (e \in Unsettled' => chan'[e[1]] = "open")
    BY <2>1 DEF Answers, Reaches
  <2>3. QED
    BY <2>1, <2>2 DEF Answers
<1>4. ASSUME NEW d, Begins(d), UNCHANGED << channel, handled >>
      PROVE  Owned'
  BY <1>4 DEF Begins, linkVars, givenVars
<1>5. ASSUME NEW c \in Channels, NEW state, Loss(c, state)
      PROVE  Owned'
  BY <1>5 DEF Loss, Loses, givenVars, Deliveries, TypeOK
<1>6. QED
  BY <1>1, <1>2, <1>3, <1>4, <1>5 DEF DeliverySteps

(* A request takes its own id away when it ends, and no other.             *)
LEMMA TrackedStep ==
  ASSUME TypeOK, Tracked, DeliverySteps
  PROVE  Tracked'
<1> USE DeliveredAreDeliveries DEF Tracked
<1>1. CASE Quiet
  <2>1. Delivered' = Delivered
    BY <1>1 DEF Quiet, messageVars, Delivered
  <2>2. QED
    BY <1>1, <2>1 DEF Quiet, messageVars, givenVars, Deliveries
<1>2. ASSUME NEW m \in Messages, NEW k \in consumers, NEW d \in Deliveries, Arrival(m, k, d)
      PROVE  Tracked'
  BY <1>2 DEF Arrival, Arrives, Deliveries, givenVars
<1>3. ASSUME NEW d, NEW verdict, NEW reply, Ends(d, verdict, reply), UNCHANGED channel
      PROVE  Tracked'
  <2>1. /\ Answers(d, verdict)
        /\ d \in Delivered /\ deliv[d].at # "ended" /\ d = << d[1], d[2] >>
    <3>1. d \in Deliveries /\ Answers(d, verdict) /\ deliv[d].at # "ended"
      BY <1>3, EndEffect DEF Ends
    <3>2. QED
      BY <1>3, <3>1 DEF Ends, Deliveries
  <2>2. QED
    BY <1>3, <2>1 DEF Answers, Ends, Conclude
<1>4. ASSUME NEW d, Begins(d), UNCHANGED << channel, handled >>
      PROVE  Tracked'
  BY <1>4 DEF Begins, linkVars, givenVars
<1>5. ASSUME NEW c \in Channels, NEW state, Loss(c, state)
      PROVE  Tracked'
  BY <1>5 DEF Loss, Loses, givenVars
<1>6. QED
  BY <1>1, <1>2, <1>3, <1>4, <1>5 DEF DeliverySteps

(* A message is acknowledged by the end of its own handling, unless the    *)
(* answer is crossed.                                                      *)
LEMMA AckedWasHandledStep ==
  ASSUME TypeOK, AckedWasHandled, DeliverySteps
  PROVE  AckedWasHandled'
<1> USE DeliveredAreDeliveries DEF AckedWasHandled, TypeOK
<1>1. CASE Quiet
  <2>1. Delivered' = Delivered
    BY <1>1 DEF Quiet, messageVars, Delivered
  <2>2. QED
    BY <1>1, <2>1 DEF Quiet, messageVars, givenVars, Deliveries
<1>2. ASSUME NEW m \in Messages, NEW k \in consumers, NEW d \in Deliveries, Arrival(m, k, d)
      PROVE  AckedWasHandled'
  BY <1>2 DEF Arrival, Arrives, Deliveries, givenVars
<1>3. ASSUME NEW d, NEW verdict, NEW reply, Ends(d, verdict, reply), UNCHANGED channel
      PROVE  AckedWasHandled'
  <2>1. /\ Answers(d, verdict)
        /\ d \in Delivered /\ deliv[d].at # "ended" /\ d = << d[1], d[2] >>
    <3>1. d \in Deliveries /\ Answers(d, verdict) /\ deliv[d].at # "ended"
      BY <1>3, EndEffect DEF Ends
    <3>2. QED
      BY <1>3, <3>1 DEF Ends, Deliveries
  <2>2. ASSUME NEW m \in Messages \ malformed, where'[m] = "acked", ~crossed'
        PROVE  \/ m \in handled'
               \/ \E n \in handled' : Deduplicate /\ DedupKey[n] = DedupKey[m]
    <3>1. handled \subseteq handled' /\ ~crossed
      BY <1>3, <2>2 DEF Ends, Conclude
    <3>2. CASE where[m] = "acked"
      BY <3>1, <3>2
    <3>3. CASE verdict # "nothing" /\ OpenNow /\ verdict = "acked"
               /\ m = deliv[<< channel, d[2] >>].msg
      <4>1. m = deliv[d].msg
        BY <1>3, <2>1, <2>2, <3>3 DEF Ends, Conclude
      <4>2. QED
        BY <1>3, <2>2, <3>1, <3>3, <4>1 DEF Ends
    <3>4. Moves(d, m, verdict)
      BY <2>1 DEF Answers
    <3>5. QED
      BY <2>2, <3>2, <3>3, <3>4 DEF Moves
  <2>3. QED
    BY <2>1, <2>2 DEF Answers, givenVars
<1>4. ASSUME NEW d, Begins(d), UNCHANGED << channel, handled >>
      PROVE  AckedWasHandled'
  BY <1>4 DEF Begins, linkVars, givenVars
<1>5. ASSUME NEW c \in Channels, NEW state, Loss(c, state)
      PROVE  AckedWasHandled'
  BY <1>5 DEF Loss, Loses, givenVars
<1>6. QED
  BY <1>1, <1>2, <1>3, <1>4, <1>5 DEF DeliverySteps

(* A request is settled by the end of its own handling, which replies first. *)
LEMMA SettledWasAnsweredStep ==
  ASSUME TypeOK, SettledWasAnswered, DeliverySteps
  PROVE  SettledWasAnswered'
<1> USE DeliveredAreDeliveries DEF SettledWasAnswered, TypeOK
<1>1. CASE Quiet
  <2>1. Delivered' = Delivered
    BY <1>1 DEF Quiet, messageVars, Delivered
  <2>2. QED
    BY <1>1, <2>1 DEF Quiet, messageVars, givenVars, Deliveries
<1>2. ASSUME NEW m \in Messages, NEW k \in consumers, NEW d \in Deliveries, Arrival(m, k, d)
      PROVE  SettledWasAnswered'
  BY <1>2 DEF Arrival, Arrives, Deliveries, givenVars
<1>3. ASSUME NEW d, NEW verdict, NEW reply, Ends(d, verdict, reply), UNCHANGED channel
      PROVE  SettledWasAnswered'
  <2>1. /\ Answers(d, verdict)
        /\ d \in Delivered /\ deliv[d].at # "ended" /\ d = << d[1], d[2] >>
    <3>1. d \in Deliveries /\ Answers(d, verdict) /\ deliv[d].at # "ended"
      BY <1>3, EndEffect DEF Ends
    <3>2. QED
      BY <1>3, <3>1 DEF Ends, Deliveries
  <2>2. ASSUME mode = "auto", NEW m \in RpcMessages \ malformed,
               where'[m] \in {"acked", "dead"}, ~crossed'
        PROVE  sent'[m] # {}
    <3>1. m \in Messages /\ ~crossed /\ reply \in {"ok", "error", "unsent", "nothing"}
      BY <1>3, <2>2, ServerAssumption DEF Ends, Conclude
    <3>2. CASE where[m] \in {"acked", "dead"}
      <4>1. sent[m] # {} /\ deliv[d].msg \in Messages
        BY <2>1, <2>2, <3>1, <3>2 DEF Delivery
      <4>2. QED
        BY <1>3, <3>1, <4>1 DEF Ends, Conclude
    <3>3. CASE verdict # "nothing" /\ OpenNow /\ m = deliv[<< channel, d[2] >>].msg
      <4>1. m = deliv[d].msg
        BY <1>3, <2>1, <2>2, <3>3 DEF Ends, Conclude
      <4>2. sent' = [sent EXCEPT ![m] = @ \cup {reply}]
        BY <1>3, <2>2, <3>3, <4>1 DEF Ends, Conclude
      <4>3. QED
        BY <3>1, <4>2
    <3>4. Moves(d, m, verdict)
      BY <2>1, <3>1 DEF Answers
    <3>5. QED
      BY <2>2, <3>2, <3>3, <3>4 DEF Moves
  <2>3. QED
    BY <2>1, <2>2 DEF Answers, givenVars
<1>4. ASSUME NEW d, Begins(d), UNCHANGED << channel, handled >>
      PROVE  SettledWasAnswered'
  BY <1>4 DEF Begins, linkVars, givenVars
<1>5. ASSUME NEW c \in Channels, NEW state, Loss(c, state)
      PROVE  SettledWasAnswered'
  BY <1>5, ServerAssumption DEF Loss, Loses, givenVars
<1>6. QED
  BY <1>1, <1>2, <1>3, <1>4, <1>5 DEF DeliverySteps

(* The end of its handling answers a request that came on this.channel.    *)
LEMMA NothingForgottenStep ==
  ASSUME TypeOK, Owned, NothingForgotten, DeliverySteps
  PROVE  NothingForgotten'
<1> USE DeliveredAreDeliveries DEF NothingForgotten, Owned, Unsettled
<1>1. CASE Quiet
  <2>1. Delivered' = Delivered
    BY <1>1 DEF Quiet, messageVars, Delivered
  <2>2. QED
    BY <1>1, <2>1 DEF Quiet, messageVars, givenVars, Deliveries
<1>2. ASSUME NEW m \in Messages, NEW k \in consumers, NEW d \in Deliveries, Arrival(m, k, d)
      PROVE  NothingForgotten'
  BY <1>2 DEF Arrival, Arrives, Deliveries, givenVars
<1>3. ASSUME NEW d, NEW verdict, NEW reply, Ends(d, verdict, reply), UNCHANGED channel
      PROVE  NothingForgotten'
  <2>1. /\ Answers(d, verdict)
        /\ d \in Delivered /\ deliv[d].at # "ended" /\ d = << d[1], d[2] >>
    <3>1. d \in Deliveries /\ Answers(d, verdict) /\ deliv[d].at # "ended"
      BY <1>3, EndEffect DEF Ends
    <3>2. QED
      BY <1>3, <3>1 DEF Ends, Deliveries
  <2>2. /\ mode = "auto" => verdict # "nothing" \/ d \in rejected'
        /\ rejected \subseteq rejected'
    BY <1>3 DEF Ends
  <2>3. ASSUME mode = "auto", d \in Unsettled, d[1] = channel, d \notin rejected'
        PROVE  deliv'[d].unsettled = FALSE
    <3>1. OpenNow
      BY <2>1, <2>3 DEF OpenNow, Deliveries
    <3>2. d = << channel, d[2] >>
      BY <2>1, <2>3
    <3>3. Reaches(d, d, verdict)
      BY <2>1 DEF Answers
    <3>4. QED
      BY <2>2, <2>3, <3>1, <3>2, <3>3 DEF Reaches
  <2>4. ASSUME mode = "auto", NEW e \in Unsettled', e[1] = channel, e \notin rejected'
        PROVE  deliv'[e].at # "ended"
    <3>1. e \in Delivered /\ deliv'[e].unsettled /\ Reaches(d, e, verdict)
      BY <2>1, <2>4 DEF Answers
    <3>2. e \in Unsettled
      BY <3>1 DEF Reaches
    <3>3. e # d /\ deliv[e].at # "ended"
      BY <2>2, <2>3, <2>4, <3>1, <3>2
    <3>4. QED
      BY <2>1, <3>1, <3>3 DEF Answers
  <2>5. QED
    BY <1>3, <2>1, <2>4 DEF Answers, givenVars
<1>4. ASSUME NEW d, Begins(d), UNCHANGED << channel, handled >>
      PROVE  NothingForgotten'
  BY <1>4 DEF Begins, linkVars, givenVars
<1>5. ASSUME NEW c \in Channels, NEW state, Loss(c, state)
      PROVE  NothingForgotten'
  BY <1>5 DEF Loss, Loses, givenVars
<1>6. QED
  BY <1>1, <1>2, <1>3, <1>4, <1>5 DEF DeliverySteps

-------------------------------------------------------------------------------
(* Requeueing *)

(* A delivery that is answered or lost leaves the others, and the messages *)
(* they carry, as they were.                                               *)
Others ==
  /\ Unsettled' \subseteq Unsettled
  /\ \A e \in Unsettled' :
       /\ deliv'[e].msg = deliv[e].msg
       /\ deliv'[e].redelivered = deliv[e].redelivered
       /\ where'[deliv[e].msg] = where[deliv[e].msg]

LEMMA ReturnedLeavesOthers ==
  ASSUME TypeOK, OneDelivery, NEW c, Returned(c)
  PROVE  \A e \in Unsettled' : e \in Unsettled /\ where'[deliv[e].msg] = where[deliv[e].msg]
<1> SUFFICES ASSUME NEW e \in Unsettled'
             PROVE  e \in Unsettled /\ where'[deliv[e].msg] = where[deliv[e].msg]
  OBVIOUS
<1>1. e \in Unsettled /\ e[1] # c
  BY DEF Returned
<1>2. deliv[e].msg \in Messages
  BY <1>1, DeliveredAreDeliveries DEF Delivery
<1>3. \A d \in Unsettled : d[1] = c => deliv[d].msg # deliv[e].msg
  BY <1>1 DEF OneDelivery
<1>4. QED
  BY <1>1, <1>2, <1>3 DEF Returned

LEMMA AnswerLeavesOthers ==
  ASSUME TypeOK, OneDelivery, NEW d, NEW verdict, Answers(d, verdict)
  PROVE  Others
<1> USE DeliveredAreDeliveries
<1>1. \A e \in Delivered : deliv'[e].msg = deliv[e].msg /\ deliv'[e].redelivered = deliv[e].redelivered
  BY DEF Answers
<1>2. CASE UNCHANGED << where, redelivered, requeues >> /\ Unsettled' = Unsettled
  BY <1>1, <1>2 DEF Others
<1>3. ASSUME NEW t, Settled(t, verdict)
      PROVE  Others
  <2>1. \A e \in Unsettled' : e \in Unsettled /\ deliv[e].msg # deliv[t].msg
    BY <1>3 DEF Settled, OneDelivery
  <2>2. \A e \in Unsettled : deliv[e].msg \in Messages
    BY DEF Delivery
  <2>3. QED
    BY <1>1, <1>3, <2>1, <2>2 DEF Settled, Others, TypeOK
<1>4. CASE Returned(channel) /\ UNCHANGED requeues
  BY <1>1, <1>4, ReturnedLeavesOthers DEF Others
<1>5. QED
  BY <1>2, <1>3, <1>4 DEF Answers, Marks

LEMMA LossLeavesOthers ==
  ASSUME TypeOK, OneDelivery, NEW c, NEW state, Loses(c, state)
  PROVE  Others
BY DeliveredAreDeliveries, ReturnedLeavesOthers DEF Loses, Others

(* The broker never has one message out twice. *)
LEMMA OneDeliveryStep ==
  ASSUME TypeOK, OneDelivery, DeliverySteps
  PROVE  OneDelivery'
<1> USE DeliveredAreDeliveries
<1>1. CASE Quiet
  <2>1. Unsettled' = Unsettled
    BY <1>1 DEF Quiet, messageVars, Delivered, Unsettled
  <2>2. QED
    BY <1>1, <2>1 DEF Quiet, messageVars, OneDelivery
<1>2. ASSUME NEW m \in Messages, NEW k \in consumers, NEW d \in Deliveries, Arrival(m, k, d)
      PROVE  OneDelivery'
  <2>1. \A e \in Unsettled' : e = d \/ (e \in Unsettled /\ deliv'[e] = deliv[e])
    BY <1>2 DEF Arrival, Arrives, Unsettled
  <2>2. \A e \in Unsettled : deliv[e].msg \in Messages /\ deliv[e].msg # m
    BY <1>2 DEF Arrival, OneDelivery, Delivery
  <2>3. where' = [where EXCEPT ![m] = "out"] /\ deliv'[d].msg = m
    BY <1>2 DEF Arrival, Arrives
  <2>4. QED
    BY <2>1, <2>2, <2>3 DEF OneDelivery, TypeOK
<1>3. CASE Others
  BY <1>3 DEF Others, OneDelivery
<1>4. CASE \E d, verdict, reply : Ends(d, verdict, reply)
  BY <1>3, <1>4, EndEffect, AnswerLeavesOthers
<1>5. ASSUME NEW d, Begins(d)
      PROVE  OneDelivery'
  <2>1. Others
    BY <1>5 DEF Begins, Others, Unsettled
  <2>2. QED
    BY <1>3, <2>1
<1>6. CASE \E c \in Channels : \E state : Loss(c, state)
  BY <1>3, <1>6, LossLeavesOthers DEF Loss
<1>7. QED
  BY <1>1, <1>2, <1>4, <1>5, <1>6 DEF DeliverySteps

(* A message that was acknowledged or dead-lettered stays so: no answer    *)
(* by a tag of whatever channel there is by then (lines 459, 580 and 669), *)
(* and no loss of a channel, brings it back to be handled again.           *)
SettledForGood ==
  [][\A m \in Messages : where[m] \in {"acked", "dead"} => where'[m] = where[m]]_vars

(* What left the queue has no delivery that waits for an answer.           *)
LEMMA SettledForGoodStep ==
  ASSUME TypeOK, OneDelivery, DeliverySteps, NEW m \in Messages, where[m] \in {"acked", "dead"}
  PROVE  where'[m] = where[m]
<1> USE DeliveredAreDeliveries
<1>1. \A d \in Unsettled : deliv[d].msg # m
  BY DEF OneDelivery
<1>2. CASE \E c : Returned(c)
  BY <1>1, <1>2 DEF Returned
<1>3. CASE UNCHANGED where
  BY <1>3
<1>4. ASSUME NEW n \in Messages, NEW k \in consumers, NEW d \in Deliveries, Arrival(n, k, d)
      PROVE  where'[m] = where[m]
  BY <1>4 DEF Arrival, TypeOK
<1>5. ASSUME NEW d, NEW verdict, NEW reply, Ends(d, verdict, reply)
      PROVE  where'[m] = where[m]
  <2>1. Marks(d, verdict)
    BY <1>5, EndEffect DEF Answers
  <2>2. ASSUME NEW t, Settled(t, verdict)
        PROVE  where'[m] = where[m]
    BY <1>1, <2>2 DEF Settled, TypeOK
  <2>3. QED
    BY <1>2, <1>3, <2>1, <2>2 DEF Marks
<1>6. QED
  BY <1>2, <1>3, <1>4, <1>5 DEF DeliverySteps, Quiet, messageVars, Begins, Loss, Loses

(* What was put back once is marked as redelivered, wherever it is. *)
LEMMA FlaggedStep ==
  ASSUME TypeOK, OneDelivery, Flagged, DeliverySteps
  PROVE  Flagged'
<1> USE DeliveredAreDeliveries
<1>1. CASE Quiet
  <2>1. Unsettled' = Unsettled
    BY <1>1 DEF Quiet, messageVars, Delivered, Unsettled
  <2>2. QED
    BY <1>1, <2>1 DEF Quiet, messageVars, Flagged
<1>2. ASSUME NEW m \in Messages, NEW k \in consumers, NEW d \in Deliveries, Arrival(m, k, d)
      PROVE  Flagged'
  <2>1. \A e \in Unsettled' : e = d \/ (e \in Unsettled /\ deliv'[e] = deliv[e])
    BY <1>2 DEF Arrival, Arrives, Unsettled
  <2>2. /\ deliv'[d].msg = m /\ deliv'[d].redelivered = redelivered[m]
        /\ UNCHANGED << redelivered, requeues >>
    BY <1>2 DEF Arrival, Arrives
  <2>3. QED
    BY <2>1, <2>2 DEF Flagged
<1>3. CASE /\ Others /\ UNCHANGED requeues
           /\ \A m \in Messages : redelivered[m] => redelivered'[m]
  BY <1>3 DEF Others, Flagged
<1>4. ASSUME NEW d, NEW verdict, NEW reply, Ends(d, verdict, reply)
      PROVE  Flagged'
  <2>1. Answers(d, verdict) /\ Others
    BY <1>4, EndEffect, AnswerLeavesOthers
  <2>2. ASSUME NEW t, Settled(t, verdict)
        PROVE  Flagged'
    <3>1. \A e \in Unsettled' : e \in Unsettled /\ deliv[e].msg # deliv[t].msg
      BY <2>2 DEF Settled, OneDelivery
    <3>2. ASSUME NEW m \in Messages, requeues'[m] > 0
          PROVE  redelivered'[m] /\ \A e \in Unsettled' : deliv'[e].msg = m => deliv'[e].redelivered
      <4>1. CASE m = deliv[t].msg
        <5>1. redelivered'[m] = (redelivered[m] \/ verdict = "queued")
          BY <2>2, <4>1 DEF Settled, TypeOK
        <5>2. verdict # "queued" => requeues'[m] = requeues[m]
          BY <2>2, <4>1 DEF Settled, TypeOK
        <5>3. redelivered'[m]
          BY <3>2, <5>1, <5>2 DEF Flagged
        <5>4. QED
          BY <2>1, <3>1, <4>1, <5>3 DEF Others
      <4>2. CASE m # deliv[t].msg
        <5>1. requeues'[m] = requeues[m] /\ redelivered'[m] = redelivered[m]
          BY <2>2, <4>2 DEF Settled, TypeOK
        <5>2. QED
          BY <2>1, <3>2, <5>1 DEF Flagged, Others
      <4>3. QED
        BY <4>1, <4>2
    <3>3. QED
      BY <3>2 DEF Flagged
  <2>3. CASE UNCHANGED << where, redelivered, requeues >> /\ Unsettled' = Unsettled
    BY <1>3, <2>1, <2>3
  <2>4. CASE Returned(channel) /\ UNCHANGED requeues
    BY <1>3, <2>1, <2>4 DEF Returned
  <2>5. QED
    BY <2>1, <2>2, <2>3, <2>4 DEF Answers, Marks
<1>5. ASSUME NEW d, Begins(d)
      PROVE  Flagged'
  BY <1>3, <1>5 DEF Begins, Others, Unsettled
<1>6. ASSUME NEW c \in Channels, NEW state, Loss(c, state)
      PROVE  Flagged'
  BY <1>3, <1>6, LossLeavesOthers DEF Loss, Loses, Returned
<1>7. QED
  BY <1>1, <1>2, <1>4, <1>5, <1>6 DEF DeliverySteps

(* A request is put back by the end of its own handling, which saw no      *)
(* redelivered flag: so it had never been put back.                        *)
LEMMA RequeueLimitStep ==
  ASSUME TypeOK, Flagged, RequeueLimit, DeliverySteps
  PROVE  RequeueLimit'
<1> USE DeliveredAreDeliveries
<1>1. CASE requeues' = requeues /\ (crossed => crossed')
  BY <1>1 DEF RequeueLimit
<1>2. ASSUME NEW d, NEW verdict, NEW reply, Ends(d, verdict, reply)
      PROVE  RequeueLimit'
  <2>1. Answers(d, verdict) /\ (crossed => crossed')
    BY <1>2, EndEffect DEF Ends, Conclude
  <2>2. ASSUME verdict # "nothing", OpenNow, Settled(<< channel, d[2] >>, verdict),
               MaxRetries <= 1, ~crossed', NEW m \in Messages
        PROVE  requeues'[m] <= MaxRetries
    <3> DEFINE t == << channel, d[2] >>
    <3>1. d \in Deliveries /\ channel = d[1]
      BY <1>2, <2>2 DEF Ends, Conclude
    <3>2. t = d
      BY <3>1 DEF Deliveries
    <3>3. requeues[m] <= MaxRetries /\ requeues[m] \in 0..2 /\ MaxRetries \in Nat
      BY <2>1, <2>2, ServerAssumption DEF RequeueLimit, TypeOK
    <3>4. CASE verdict = "queued" /\ m = deliv[d].msg
      <4>1. d \in Unsettled
        BY <2>2, <3>2 DEF Settled
      <4>2. Attempts(d) < MaxRetries
        BY <1>2, <3>4 DEF Ends
      <4>3. MaxRetries = 1 /\ ~deliv[d].redelivered
        BY <2>2, <3>3, <4>2 DEF Attempts
      <4>4. requeues[m] = 0
        BY <3>3, <3>4, <4>1, <4>3 DEF Flagged
      <4>5. requeues'[m] = 1
        <5>1. requeues \in [Messages -> 0..2]
          BY DEF TypeOK
        <5>2. requeues' = [requeues EXCEPT ![m] = IF verdict = "queued" /\ @ < 2 THEN @ + 1 ELSE @]
          BY <2>2, <3>2, <3>4 DEF Settled
        <5>3. requeues'[m] = requeues[m] + 1
          BY <3>4, <4>4, <5>1, <5>2
        <5>4. QED
          BY <4>4, <5>3
      <4>6. QED
        BY <4>3, <4>5
    <3>5. CASE verdict # "queued" \/ m # deliv[d].msg
      <4>1. requeues'[m] = requeues[m]
        BY <2>2, <3>2, <3>5 DEF Settled, TypeOK
      <4>2. QED
        BY <3>3, <4>1
    <3>6. QED
      BY <3>4, <3>5
  <2>3. QED
    BY <1>1, <2>1, <2>2 DEF Answers, Marks, RequeueLimit
<1>3. QED
  BY <1>1, <1>2 DEF DeliverySteps, Quiet, Arrival, Begins, Loss

-------------------------------------------------------------------------------
(* The deduplicator *)

(* Only what a handler completes is remembered, once and up to the size of *)
(* the cache.                                                              *)
CacheInv ==
  /\ cache \in Seq(Entries({DedupKey[m] : m \in Messages}))
  /\ Distinct(cache)
  /\ Len(cache) <= CacheSize
  /\ CachedWasHandled

LEMMA CacheInvStep ==
  ASSUME TypeOK, CachedWasHandled, [Next]_vars
  PROVE  CacheInv'
<1> USE DeliveredAreDeliveries DEF CacheInv, CachedWasHandled
<1> DEFINE K == {DedupKey[m] : m \in Messages}
<1>0. cache \in Seq(Entries(K)) /\ Distinct(cache) /\ Len(cache) <= CacheSize /\ CacheSize \in Nat
  BY CacheType, ServerAssumption
<1>1. CASE UNCHANGED << cache, handled >>
  BY <1>0, <1>1
<1>2. CASE cache' = << >>
  BY <1>0, <1>2 DEF Distinct
<1>3. ASSUME NEW d \in Deliveries, Parsed(d)
      PROVE  CacheInv'
  <2> DEFINE key == DedupKey[deliv[d].msg]
  <2>1. d \in Delivered /\ UNCHANGED handled /\ key \in K
    BY <1>3 DEF Parsed, Delivery
  <2>2. CASE cache' \in Hits(cache, key) \/ cache' \in Misses(cache, key)
    <3> HIDE DEF key, K
    <3>1. /\ cache' \in Seq(Entries(K))
          /\ Distinct(cache')
          /\ Len(cache') <= Len(cache)
          /\ \A i \in DOMAIN cache' : \E j \in DOMAIN cache : cache'[i].key = cache[j].key
      BY <1>0, <2>1, <2>2, LookupProperties
    <3>2. Len(cache') <= CacheSize
      BY <1>0, <3>1
    <3>3. QED
      BY <2>1, <3>1, <3>2 DEF K, Distinct
  <2>3. QED
    BY <1>1, <1>3, <2>1, <2>2 DEF Parsed, Deduplicated
<1>4. ASSUME NEW d \in Deliveries, HandlerSucceeds(d)
      PROVE  CacheInv'
  <2> DEFINE key == DedupKey[deliv[d].msg]
  <2>1. /\ d \in Delivered /\ deliv[d].msg \in Messages
        /\ handled' = handled \cup {deliv[d].msg} /\ key \in K
    BY <1>4 DEF HandlerSucceeds, Delivery
  <2>2. CASE UNCHANGED cache
    BY <1>0, <2>1, <2>2
  <2>3. ASSUME NEW defined \in BOOLEAN, cache' = Set(cache, key, defined, CacheSize)
        PROVE  CacheInv'
    <3> HIDE DEF key, K
    <3>1. /\ cache' \in Seq(Entries(K))
          /\ Distinct(cache')
          /\ Len(cache') <= CacheSize
          /\ \A i \in DOMAIN cache' : cache'[i].key = key \/ Keeps(cache, cache', i)
      BY <1>0, <2>1, <2>3, SetKeepsCache
    <3>2. ASSUME NEW i \in DOMAIN cache'
          PROVE  \E m \in handled' : DedupKey[m] = cache'[i].key
      BY <2>1, <3>1 DEF Keeps, key
    <3>3. QED
      BY <3>1, <3>2 DEF K, Distinct
  <2>4. QED
    BY <1>4, <2>2, <2>3 DEF HandlerSucceeds
<1>5. ASSUME NEW d \in Deliveries, HandlerFails(d)
      PROVE  UNCHANGED << cache, handled >>
  BY <1>5 DEF HandlerFails
<1>6. CASE \E m \in Messages, k \in consumers : Deliver(m, k)
  BY <1>1, <1>6 DEF Deliver
<1>7. CASE Register
  BY <1>1, <1>7 DEF Register, Start, TimerFires, Opened, Consume, Registered,
                    RegistrationFails, restOfStep
<1>8. CASE StopBegins \/ StopCancels \/ StopCloses
  BY <1>1, <1>8 DEF StopBegins, StopCancels, StopCloses, workVars
<1>9. CASE StopWaited
  BY <1>2, <1>9 DEF StopWaited
<1>10. CASE \/ \E c \in Commands : RegisterHandler(c) \/ UnregisterHandler(c)
            \/ \E k \in consumers : ConsumerCancelled(k)
            \/ \E c \in Channels : ChannelBreaks(c) \/ ChannelDown(c)
            \/ UNCHANGED vars
  BY <1>1, <1>10 DEF RegisterHandler, UnregisterHandler, ConsumerCancelled, ChannelBreaks,
                     ChannelDown, restOfStep, workVars, vars
<1>11. QED
  BY <1>1, <1>3, <1>4, <1>5, <1>6, <1>7, <1>8, <1>9, <1>10 DEF Next, Handle, Stop

-------------------------------------------------------------------------------
(* stop(), registrations and channels *)

(* Nothing is in flight when stop() has found it so. *)
StopSteps ==
  \/ UNCHANGED << stop, stopping, drained >>
  \/ stop' # "closing"
  \/ drained' => inFlight' = {}

LEMMA StopCases ==
  ASSUME Steps
  PROVE  StopSteps
<1> USE DEF StopSteps, vars, callVars, restOfStep, idle
<1>1. CASE \/ \E s \in Starters : Start(s)
           \/ TimerFires
           \/ \E t \in Threads :
                Opened(t) \/ Consume(t) \/ Registered(t) \/ RegistrationFails(t)
           \/ \E m \in Messages, k \in consumers : Deliver(m, k)
           \/ UNCHANGED idle
           \/ \E c \in Commands : RegisterHandler(c) \/ UnregisterHandler(c)
           \/ \E k \in consumers : ConsumerCancelled(k)
           \/ \E c \in Channels : ChannelBreaks(c) \/ ChannelDown(c)
           \/ UNCHANGED vars
  BY <1>1 DEF Start, TimerFires, Opened, Consume, Registered, RegistrationFails, Deliver,
              RegisterHandler, UnregisterHandler, ConsumerCancelled, ChannelBreaks, ChannelDown
<1>2. CASE StopBegins \/ StopCancels \/ StopWaited \/ StopCloses
  BY <1>2 DEF StopBegins, StopCancels, StopWaited, StopCloses, Stopped, workVars
<1>3. QED
  BY <1>1, <1>2 DEF Steps

(* Nothing arrives on a channel that stop() closes. *)
LEMMA DrainedMeansIdleStep ==
  ASSUME TypeOK, InUse, Owned, Tracked', DrainedMeansIdle, DeliverySteps, StopSteps
  PROVE  DrainedMeansIdle'
<1> USE DeliveredAreDeliveries DEF DrainedMeansIdle
<1>1. CASE stop' # "closing" \/ (drained' => inFlight' = {})
  BY <1>1 DEF Tracked
<1>2. CASE UNCHANGED << stop, stopping, drained >>
  <2> USE <1>2
  <2>1. CASE Quiet
    <3>1. Delivered' = Delivered
      BY <2>1 DEF Quiet, messageVars, Delivered
    <3>2. QED
      BY <2>1, <3>1 DEF Quiet, messageVars
  <2>2. ASSUME NEW m \in Messages, NEW k \in consumers, NEW d \in Deliveries, Arrival(m, k, d)
        PROVE  DrainedMeansIdle'
    <3>1. stop = "closing" => d[1] # stopping
      BY <2>2 DEF Arrival, Arrives, InUse
    <3>2. QED
      BY <2>2, <3>1 DEF Arrival, Arrives
  <2>3. ASSUME NEW d, NEW verdict, NEW reply, Ends(d, verdict, reply)
        PROVE  DrainedMeansIdle'
    <3>1. Answers(d, verdict)
      BY <2>3, EndEffect
    <3>2. QED
      BY <3>1 DEF Answers
  <2>4. ASSUME NEW d, Begins(d)
        PROVE  DrainedMeansIdle'
    BY <2>4 DEF Begins
  <2>5. ASSUME NEW c \in Channels, NEW state, Loss(c, state)
        PROVE  DrainedMeansIdle'
    BY <2>5 DEF Loss, Loses
  <2>6. QED
    BY <2>1, <2>2, <2>3, <2>4, <2>5 DEF DeliverySteps
<1>3. QED
  BY <1>1, <1>2 DEF StopSteps

(* An accepted call knows its channel; a server that runs has been given a *)
(* tag, and stop() knows the channel it closes.                            *)
LEMMA PlacedStep ==
  ASSUME TypeOK, Placed, Steps
  PROVE  Placed'
<1> USE DEF Placed, vars, serverVars, reconnectVars, callVars, linkVars, restOfStep, idle
<1>0. /\ pc \in [Threads -> {"idle", "opening", "setup", "accepted"}]
      /\ on \in [Threads -> Channels \cup {None}]
      /\ channel \in Channels \cup {None}
  BY DEF TypeOK
<1>1. CASE UNCHANGED << pc, on, isRunning, consumerTag, stop, stopping >>
  BY <1>1
<1>2. ASSUME NEW s \in Starters, Start(s)
      PROVE  Placed'
  BY <1>0, <1>2 DEF Start
<1>3. CASE TimerFires
  <2>1. \A t \in Threads : pc'[t] = "accepted" => pc[t] = "accepted"
    BY <1>0, <1>3 DEF TimerFires, NothingToDo, ReRegister
  <2>2. QED
    BY <1>3, <2>1 DEF TimerFires
<1>4. ASSUME NEW t \in Threads, Opened(t) \/ Consume(t) \/ Registered(t) \/ RegistrationFails(t)
      PROVE  Placed'
  <2>1. CASE Opened(t)
    BY <1>0, <2>1 DEF Opened
  <2>2. CASE Consume(t)
    BY <1>0, <2>2 DEF Consume, OpenNow
  <2>3. CASE Registered(t)
    <3>1. << on[t], t >> \in Channels \X Threads
      BY <1>0, <2>3 DEF Registered
    <3>2. << on[t], t >> # None
      BY <3>1, NoneAssumption
    <3>3. QED
      BY <1>0, <2>3, <3>2 DEF Registered
  <2>4. CASE RegistrationFails(t)
    BY <1>0, <2>4 DEF RegistrationFails
  <2>5. QED
    BY <1>4, <2>1, <2>2, <2>3, <2>4
<1>5. ASSUME NEW c \in Channels, ChannelDown(c)
      PROVE  Placed'
  BY <1>5 DEF ChannelDown, OnChannelDown
<1>6. CASE \E k \in consumers : ConsumerCancelled(k)
  BY <1>6 DEF ConsumerCancelled
<1>7. CASE StopBegins \/ StopCancels
  BY <1>7 DEF StopBegins, StopCancels
<1>8. CASE StopWaited \/ StopCloses
  <2>1. CASE Stopped
    BY <2>1 DEF Stopped
  <2>2. CASE StopWaited /\ ~ Stopped
    <3>1. channel \in Channels /\ stopping' = channel /\ UNCHANGED << serverVars, pc, on >>
      BY <1>0, <2>2 DEF StopWaited
    <3>2. QED
      BY <3>1
  <2>3. QED
    BY <1>8, <2>1, <2>2 DEF StopCloses
<1>9. QED
  BY <1>1, <1>2, <1>3, <1>4, <1>5, <1>6, <1>7, <1>8
     DEF Steps, RegisterHandler, UnregisterHandler, Deliver, ChannelBreaks

(* A channel is opened before it is used, and loses its consumers when it  *)
(* is not open any more.                                                   *)
LEMMA InUseStep ==
  ASSUME TypeOK, Placed, InUse, Steps
  PROVE  InUse'
<1> USE NoneAssumption
    DEF InUse, vars, serverVars, reconnectVars, callVars, linkVars, restOfStep, idle
<1>0. /\ pc \in [Threads -> {"idle", "opening", "setup", "accepted"}]
      /\ on \in [Threads -> Channels \cup {None}]
      /\ channel \in Channels \cup {None}
      /\ consumerTag \in (Channels \X Threads) \cup {None}
      /\ chan \in [Channels -> {"none", "open", "broken", "closed"}]
      /\ consumers \subseteq Channels \X Threads
  BY DEF TypeOK
<1>1. CASE UNCHANGED << channel, consumerTag, on, stop, stopping, linkVars >>
  BY <1>1
<1>2. ASSUME NEW t \in Threads, Opened(t)
      PROVE  InUse'
  BY <1>0, <1>2 DEF Opened, Placed
<1>3. ASSUME NEW t \in Threads, Consume(t)
      PROVE  InUse'
  BY <1>0, <1>3 DEF Consume, OpenNow
<1>4. ASSUME NEW t \in Threads, Registered(t)
      PROVE  InUse'
  BY <1>0, <1>4 DEF Registered, Placed
<1>5. ASSUME NEW d, NEW verdict, NEW reply, Ends(d, verdict, reply), UNCHANGED idle
      PROVE  InUse'
  <2>1. Links
    BY <1>5, EndEffect DEF Answers
  <2>2. CASE UNCHANGED linkVars
    BY <1>5, <2>2
  <2>3. CASE /\ OpenNow
             /\ chan' = [chan EXCEPT ![channel] = "broken"]
             /\ consumers' = {k \in consumers : k[1] # channel}
    BY <1>0, <1>5, <2>3 DEF OpenNow
  <2>4. QED
    BY <2>1, <2>2, <2>3 DEF Links
<1>6. CASE \E k \in consumers : ConsumerCancelled(k)
  BY <1>0, <1>6 DEF ConsumerCancelled
<1>7. ASSUME NEW c \in Channels, ChannelBreaks(c)
      PROVE  InUse'
  BY <1>0, <1>7 DEF ChannelBreaks, Drop
<1>8. ASSUME NEW c \in Channels, ChannelDown(c)
      PROVE  InUse'
  BY <1>0, <1>8 DEF ChannelDown, OnChannelDown
<1>9. CASE StopBegins \/ StopCancels
  BY <1>0, <1>9 DEF StopBegins, StopCancels
<1>10. CASE StopWaited
  <2>1. CASE channel = None
    BY <1>0, <1>10, <2>1 DEF StopWaited, Stopped
  <2>2. CASE channel # None
    <3>1. /\ channel \in Channels /\ chan[channel] # "none"
          /\ UNCHANGED << channel, consumerTag, on >> /\ stopping' = channel
          /\ chan' = [chan EXCEPT ![channel] = IF chan[channel] = "open" THEN "broken"
                                              ELSE chan[channel]]
          /\ consumers' = {k \in consumers : k[1] # channel}
      BY <1>0, <1>10, <2>2 DEF StopWaited, Drop, OpenNow
    <3>2. chan'[channel] \in {"broken", "closed"}
      BY <1>0, <3>1
    <3>3. \A c \in Channels \ {channel} : chan'[c] = chan[c]
      BY <1>0, <3>1
    <3>4. QED
      BY <1>0, <3>1, <3>2, <3>3
  <2>3. QED
    BY <2>1, <2>2
<1>11. CASE StopCloses
  BY <1>0, <1>11 DEF StopCloses, Stopped, Placed
<1>12. CASE \E t \in Threads : RegistrationFails(t)
  BY <1>1, <1>12 DEF RegistrationFails
<1>13. CASE UNCHANGED << idle, handled >> /\ \E d : Begins(d)
  BY <1>1, <1>13 DEF Begins
<1>14. QED
  BY <1>1, <1>2, <1>3, <1>4, <1>5, <1>6, <1>7, <1>8, <1>9, <1>10, <1>11, <1>12, <1>13
     DEF Steps, RegisterHandler, UnregisterHandler, Start, TimerFires, Deliver

(* A consumer is cancelled, or lost with its channel: if start() listens   *)
(* to that, 'close' has yet to tell.                                       *)
LEMMA HookedIsListeningStep ==
  ASSUME TypeOK, Placed, InUse, HookedIsListening, Steps
  PROVE  HookedIsListening'
<1> USE DEF HookedIsListening, vars, serverVars, reconnectVars, callVars, linkVars,
            restOfStep, idle
<1>0. /\ on \in [Threads -> Channels \cup {None}]
      /\ channel \in Channels \cup {None}
      /\ isRunning => consumerTag \in Channels \X Threads
      /\ chan \in [Channels -> {"none", "open", "broken", "closed"}]
      /\ consumers \subseteq Channels \X Threads
  BY DEF TypeOK, Placed
<1>1. CASE UNCHANGED << consumerTag, isRunning, stop, late, linkVars >>
  BY <1>1
<1>2. CASE isRunning' = FALSE \/ stop' # "idle"
  BY <1>2
<1>3. ASSUME NEW t \in Threads, Opened(t)
      PROVE  HookedIsListening'
  BY <1>0, <1>3 DEF Opened, InUse, Placed
<1>4. ASSUME NEW t \in Threads, Consume(t)
      PROVE  HookedIsListening'
  BY <1>4 DEF Consume
<1>5. ASSUME NEW t \in Threads, Registered(t)
      PROVE  HookedIsListening'
  BY <1>5 DEF Registered
<1>6. ASSUME NEW d, NEW verdict, NEW reply, Ends(d, verdict, reply), UNCHANGED idle
      PROVE  HookedIsListening'
  <2>1. Links
    BY <1>6, EndEffect DEF Answers
  <2>2. CASE UNCHANGED linkVars
    BY <1>6, <2>2
  <2>3. CASE /\ OpenNow
             /\ chan' = [chan EXCEPT ![channel] = "broken"]
             /\ consumers' = {k \in consumers : k[1] # channel}
             /\ hooked' = hooked
    BY <1>0, <1>6, <2>3 DEF OpenNow
  <2>4. QED
    BY <2>1, <2>2, <2>3 DEF Links
<1>7. ASSUME NEW c \in Channels, ChannelBreaks(c)
      PROVE  HookedIsListening'
  BY <1>0, <1>7 DEF ChannelBreaks, Drop
<1>8. ASSUME NEW c \in Channels, ChannelDown(c)
      PROVE  HookedIsListening'
  BY <1>0, <1>8 DEF ChannelDown, OnChannelDown
<1>9. CASE UNCHANGED << idle, handled >> /\ \E d : Begins(d)
  BY <1>1, <1>9 DEF Begins
<1>10. CASE StopBegins \/ StopCancels \/ StopWaited \/ StopCloses
  BY <1>2, <1>10 DEF StopBegins, StopCancels, StopWaited, StopCloses, Stopped
<1>11. CASE \E t \in Threads : RegistrationFails(t)
  BY <1>1, <1>11 DEF RegistrationFails
<1>12. CASE \E k \in consumers : ConsumerCancelled(k)
  BY <1>2, <1>12 DEF ConsumerCancelled
<1>13. QED
  BY <1>1, <1>2, <1>3, <1>4, <1>5, <1>6, <1>7, <1>8, <1>9, <1>10, <1>11, <1>12
     DEF Steps, RegisterHandler, UnregisterHandler, Start, TimerFires, Deliver

-------------------------------------------------------------------------------
(* Types are preserved: those of the deliveries, of the manager and the    *)
(* calls, and of the rest.                                                 *)
DeliveryTypes ==
  /\ inFlight \subseteq {CorrelationId[m] : m \in Messages} \ {None}
  /\ setting \in Settings
  /\ mode \in {"auto", "manual"}
  /\ malformed \subseteq Malformable
  /\ where \in [Messages -> Places]
  /\ redelivered \in [Messages -> BOOLEAN]
  /\ deliv \in [Deliveries -> Delivery \cup {None}]
  /\ handled \subseteq Messages
  /\ sent \in [Messages -> SUBSET {"ok", "error", "unsent"}]
  /\ requeues \in [Messages -> 0..2]
  /\ crossed \in BOOLEAN
  /\ rejected \subseteq Deliveries

LEMMA DeliveryTypesStep ==
  ASSUME TypeOK, DeliverySteps
  PROVE  DeliveryTypes'
<1> USE DeliveredAreDeliveries DEF DeliveryTypes
<1>0. DeliveryTypes
  BY DEF TypeOK
<1>1. CASE Quiet
  BY <1>0, <1>1 DEF Quiet, messageVars, givenVars
<1>2. ASSUME NEW m \in Messages, NEW k \in consumers, NEW d \in Deliveries, Arrival(m, k, d)
      PROVE  DeliveryTypes'
  <2>1. inFlight' \subseteq {CorrelationId[n] : n \in Messages} \ {None}
    BY <1>0, <1>2 DEF Arrival
  <2>2. where' \in [Messages -> Places]
    BY <1>0, <1>2 DEF Arrival, Places
  <2>3. QED
    BY <1>0, <1>2, <2>1, <2>2 DEF Arrival, Arrives, givenVars
<1>3. ASSUME NEW d, NEW verdict, NEW reply, Ends(d, verdict, reply)
      PROVE  DeliveryTypes'
  <2>1. Answers(d, verdict)
    BY <1>3, EndEffect
  <2>2. deliv[d].msg \in Messages
    BY <1>3 DEF Ends, Delivery
  <2>3. handled' \subseteq Messages
    BY <1>0, <1>3, <2>2 DEF Ends
  <2>4. sent' \in [Messages -> SUBSET {"ok", "error", "unsent"}]
    BY <1>0, <1>3, <2>2 DEF Ends, Conclude
  <2>5. inFlight' \subseteq inFlight /\ crossed' \in BOOLEAN /\ rejected' \subseteq Deliveries
    BY <1>0, <1>3 DEF Ends, Conclude
  <2>6. QED
    BY <1>0, <2>1, <2>3, <2>4, <2>5 DEF Answers, MessageTypes, givenVars
<1>4. ASSUME NEW d, Begins(d), UNCHANGED handled
      PROVE  DeliveryTypes'
  BY <1>0, <1>4 DEF Begins, givenVars
<1>5. ASSUME NEW c \in Channels, NEW state, Loss(c, state)
      PROVE  DeliveryTypes'
  BY <1>0, <1>5 DEF Loss, Loses, givenVars
<1>6. QED
  BY <1>1, <1>2, <1>3, <1>4, <1>5 DEF DeliverySteps

(* The manager's callbacks are the calls in progress. *)
CallTypes ==
  /\ reconnectAttempts \in 0..(MaxReconnectAttempts + 1)
  /\ reconnectTimer \in BOOLEAN
  /\ running = {b \in Callbacks : pc[b] # "idle"}
  /\ pc \in [Threads -> {"idle", "opening", "setup", "accepted"}]
  /\ on \in [Threads -> Channels \cup {None}]
  /\ late \in BOOLEAN

LEMMA ManagerConstants ==
  MaxReconnectAttempts \in Nat /\ Starters \cap Callbacks = {}
BY ServerAssumption

LEMMA ScheduleTypes ==
  ASSUME reconnectAttempts \in 0..(MaxReconnectAttempts + 1), reconnectTimer \in BOOLEAN,
         Manager!Schedule
  PROVE  reconnectAttempts' \in 0..(MaxReconnectAttempts + 1) /\ reconnectTimer' \in BOOLEAN
<1>1. MaxReconnectAttempts \in Nat
  BY ManagerConstants
<1>2. Manager!NextAttempt \in 0..(MaxReconnectAttempts + 1)
  BY <1>1 DEF Manager!NextAttempt
<1>3. QED
  BY <1>2 DEF Manager!Schedule

LEMMA CallTypesStep ==
  ASSUME TypeOK, Steps
  PROVE  CallTypes'
<1> USE ManagerConstants
    DEF CallTypes, vars, serverVars, reconnectVars, callVars, restOfStep, idle,
        Manager!ClearAll, Manager!Reset
<1>0. CallTypes /\ channel \in Channels \cup {None}
  BY DEF TypeOK
<1>1. CASE UNCHANGED << reconnectVars, pc, on, late >>
  BY <1>0, <1>1
<1>2. ASSUME NEW s \in Starters, Start(s)
      PROVE  CallTypes'
  <2>1. \A b \in Callbacks : pc'[b] = pc[b]
    BY <1>0, <1>2 DEF Start, Threads
  <2>2. QED
    BY <1>0, <1>2, <2>1 DEF Start, Threads
<1>3. CASE TimerFires
  <2>1. CASE NothingToDo
    <3>1. 0 \in 0..(MaxReconnectAttempts + 1)
      OBVIOUS
    <3>2. QED
      BY <1>0, <1>3, <2>1, <3>1 DEF TimerFires, NothingToDo
  <2>2. ASSUME NEW b \in Callbacks, ReRegister(b)
        PROVE  CallTypes'
    <3>1. \A a \in Callbacks : pc'[a] # "idle" <=> pc[a] # "idle" \/ a = b
      BY <1>0, <2>2 DEF ReRegister, Threads
    <3>2. running' = {a \in Callbacks : pc'[a] # "idle"}
      BY <1>0, <2>2, <3>1 DEF ReRegister, Manager!TimerFires
    <3>3. QED
      BY <1>0, <1>3, <2>2, <3>2 DEF TimerFires, ReRegister, Threads, Manager!TimerFires
  <2>3. QED
    BY <1>3, <2>1, <2>2 DEF TimerFires
<1>4. ASSUME NEW t \in Threads, Opened(t)
      PROVE  CallTypes'
  BY <1>0, <1>4 DEF Opened
<1>5. ASSUME NEW t \in Threads, Consume(t)
      PROVE  CallTypes'
  BY <1>0, <1>5 DEF Consume, OpenNow
<1>6. ASSUME NEW t \in Threads, Registered(t)
      PROVE  CallTypes'
  <2>1. \A a \in Callbacks : pc'[a] # "idle" <=> pc[a] # "idle" /\ a # t
    BY <1>0, <1>6 DEF Registered, Threads
  <2>2. running' = running \ {t}
    BY <1>0, <1>6 DEF Registered, Threads, Manager!CallbackSucceeds
  <2>3. 0 \in 0..(MaxReconnectAttempts + 1)
    OBVIOUS
  <2>4. running' = {a \in Callbacks : pc'[a] # "idle"}
    BY <1>0, <2>1, <2>2
  <2>5. QED
    BY <1>0, <1>6, <2>3, <2>4 DEF Registered, Manager!CallbackSucceeds
<1>7. ASSUME NEW t \in Threads, RegistrationFails(t)
      PROVE  CallTypes'
  <2>1. \A a \in Callbacks : pc'[a] # "idle" <=> pc[a] # "idle" /\ a # t
    BY <1>0, <1>7 DEF RegistrationFails, Threads
  <2>2. running' = running \ {t}
    BY <1>0, <1>7 DEF RegistrationFails, Threads, Manager!CallbackFails
  <2>3. reconnectAttempts' \in 0..(MaxReconnectAttempts + 1) /\ reconnectTimer' \in BOOLEAN
    BY <1>0, <1>7, ScheduleTypes DEF RegistrationFails, Manager!CallbackFails
  <2>4. QED
    BY <1>0, <1>7, <2>1, <2>2, <2>3 DEF RegistrationFails
<1>8. CASE \E k \in consumers : ConsumerCancelled(k)
  BY <1>0, <1>8, ScheduleTypes DEF ConsumerCancelled, Manager!ScheduleReconnect
<1>9. CASE StopBegins
  BY <1>0, <1>9 DEF StopBegins, Manager!Cancel
<1>10. CASE StopCancels \/ StopWaited \/ StopCloses
  BY <1>1, <1>10 DEF StopCancels, StopWaited, StopCloses, Stopped
<1>11. CASE UNCHANGED << idle, handled >> /\ \E d : Begins(d)
  BY <1>1, <1>11
<1>12. CASE UNCHANGED idle /\ \E d, verdict, reply : Ends(d, verdict, reply)
  BY <1>1, <1>12
<1>13. QED
  BY <1>1, <1>2, <1>3, <1>4, <1>5, <1>6, <1>7, <1>8, <1>9, <1>10, <1>11, <1>12
     DEF Steps, RegisterHandler, UnregisterHandler, Deliver, ChannelBreaks, ChannelDown

(* A callback that fails, and a consumer that is cancelled, leave a timer  *)
(* or have no attempt left.                                                *)
LEMMA ScheduleGoesOn ==
  ASSUME reconnectAttempts \in 0..(MaxReconnectAttempts + 1), Manager!Schedule
  PROVE  reconnectTimer' \/ reconnectAttempts' > MaxReconnectAttempts
<1>1. CASE reconnectTimer /\ UNCHANGED << reconnectAttempts, reconnectTimer >>
  BY <1>1
<1>2. CASE /\ reconnectAttempts' = Manager!NextAttempt
           /\ reconnectTimer' = IF Manager!NextAttempt <= MaxReconnectAttempts
                                THEN TRUE ELSE FALSE
  <2>1. Manager!NextAttempt \in 0..(MaxReconnectAttempts + 1)
    BY ManagerConstants DEF Manager!NextAttempt
  <2>2. CASE Manager!NextAttempt <= MaxReconnectAttempts
    BY <1>2, <2>2
  <2>3. CASE ~(Manager!NextAttempt <= MaxReconnectAttempts)
    BY <1>2, <2>1, <2>3, ManagerConstants
  <2>4. QED
    BY <2>2, <2>3
<1>3. QED
  BY <1>1, <1>2 DEF Manager!Schedule

LEMMA ReconnectGoesOnStep ==
  ASSUME TypeOK, Steps, Recovering
  PROVE  Recovering' \/ isRunning' \/ reconnectAttempts' > MaxReconnectAttempts
<1> USE ManagerConstants
    DEF Recovering, CallTypes, vars, reconnectVars, callVars, restOfStep, idle, serverVars
<1>0. CallTypes
  BY DEF TypeOK, CallTypes
<1>1. CASE reconnectTimer' = reconnectTimer /\ \A b \in Callbacks : pc[b] # "idle" => pc'[b] # "idle"
  BY <1>1
<1>2. ASSUME NEW s \in Starters, Start(s)
      PROVE  Recovering'
  BY <1>0, <1>1, <1>2 DEF Start, Threads
<1>3. CASE TimerFires
  <2>1. CASE NothingToDo
    BY <1>3, <2>1 DEF TimerFires, NothingToDo
  <2>2. ASSUME NEW b \in Callbacks, ReRegister(b)
        PROVE  Recovering'
    BY <1>0, <2>2 DEF ReRegister, Threads
  <2>3. QED
    BY <1>3, <2>1, <2>2 DEF TimerFires
<1>4. ASSUME NEW t \in Threads, Opened(t) \/ Consume(t)
      PROVE  Recovering'
  <2>1. reconnectTimer' = reconnectTimer /\ \A b \in Callbacks : pc[b] # "idle" => pc'[b] # "idle"
    BY <1>0, <1>4 DEF Opened, Consume, Threads
  <2>2. QED
    BY <1>1, <2>1
<1>5. CASE \E t \in Threads : Registered(t)
  BY <1>5 DEF Registered
<1>6. ASSUME NEW t \in Threads, RegistrationFails(t)
      PROVE  Recovering' \/ reconnectAttempts' > MaxReconnectAttempts
  <2>1. CASE t \in Starters
    BY <1>0, <1>1, <1>6, <2>1 DEF RegistrationFails
  <2>2. CASE t \notin Starters
    BY <1>0, <1>6, <2>2, ScheduleGoesOn DEF RegistrationFails, Manager!CallbackFails
  <2>3. QED
    BY <2>1, <2>2
<1>7. CASE \E k \in consumers : ConsumerCancelled(k)
  BY <1>0, <1>7, ScheduleGoesOn DEF ConsumerCancelled, Manager!ScheduleReconnect
<1>8. CASE StopBegins
  BY <1>8 DEF StopBegins
<1>9. CASE UNCHANGED << reconnectVars, pc >>
  BY <1>1, <1>9
<1>10. CASE StopCancels \/ StopWaited \/ StopCloses
  BY <1>9, <1>10 DEF StopCancels, StopWaited, StopCloses, Stopped
<1>11. QED
  BY <1>2, <1>3, <1>4, <1>5, <1>6, <1>7, <1>8, <1>9, <1>10
     DEF Steps, Deliver, ChannelBreaks, ChannelDown, RegisterHandler, UnregisterHandler

OtherTypes ==
  /\ handlers \subseteq Commands
  /\ channel \in Channels \cup {None}
  /\ consumerTag \in (Channels \X Threads) \cup {None}
  /\ isRunning \in BOOLEAN
  /\ stop \in {"idle", "cancelling", "waiting", "closing"}
  /\ chan \in [Channels -> {"none", "open", "broken", "closed"}]
  /\ hooked \subseteq Channels
  /\ consumers \subseteq Channels \X Threads
  /\ drained \in BOOLEAN

LEMMA OtherTypesStep ==
  ASSUME TypeOK, Placed, Steps
  PROVE  OtherTypes'
<1> USE DEF OtherTypes, vars, serverVars, reconnectVars, callVars, linkVars, restOfStep, idle
<1>0. OtherTypes /\ on \in [Threads -> Channels \cup {None}]
  BY DEF TypeOK
<1>1. CASE UNCHANGED << serverVars, stop, drained, linkVars >>
  BY <1>0, <1>1
<1>2. CASE (\E s \in Starters : Start(s)) \/ TimerFires
  BY <1>1, <1>2 DEF Start, TimerFires
<1>3. ASSUME NEW t \in Threads, Opened(t)
      PROVE  OtherTypes'
  BY <1>0, <1>3 DEF Opened
<1>4. ASSUME NEW t \in Threads, Consume(t)
      PROVE  OtherTypes'
  BY <1>0, <1>4 DEF Consume, OpenNow
<1>5. ASSUME NEW t \in Threads, Registered(t)
      PROVE  OtherTypes'
  <2>1. << on[t], t >> \in Channels \X Threads
    BY <1>0, <1>5 DEF Registered, Placed
  <2>2. QED
    BY <1>0, <1>5, <2>1 DEF Registered
<1>6. CASE \E t \in Threads : RegistrationFails(t)
  BY <1>1, <1>6 DEF RegistrationFails
<1>7. ASSUME NEW d, NEW verdict, NEW reply, Ends(d, verdict, reply), UNCHANGED idle
      PROVE  OtherTypes'
  <2>1. Links
    BY <1>7, EndEffect DEF Answers
  <2>2. QED
    BY <1>0, <1>7, <2>1 DEF Links
<1>8. CASE UNCHANGED << idle, handled >> /\ \E d : Begins(d)
  BY <1>1, <1>8 DEF Begins
<1>9. CASE \E k \in consumers : ConsumerCancelled(k)
  BY <1>0, <1>9 DEF ConsumerCancelled
<1>10. ASSUME NEW c \in Channels, ChannelBreaks(c)
       PROVE  OtherTypes'
  BY <1>0, <1>10 DEF ChannelBreaks, Drop
<1>11. ASSUME NEW c \in Channels, ChannelDown(c)
       PROVE  OtherTypes'
  BY <1>0, <1>11 DEF ChannelDown, OnChannelDown
<1>12. CASE \E c \in Commands : RegisterHandler(c) \/ UnregisterHandler(c)
  BY <1>0, <1>12 DEF RegisterHandler, UnregisterHandler
<1>13. CASE StopBegins \/ StopCancels
  BY <1>0, <1>13 DEF StopBegins, StopCancels
<1>14. CASE StopWaited
  <2>1. CASE channel = None
    BY <1>0, <1>14, <2>1 DEF StopWaited, Stopped
  <2>2. CASE channel # None
    <3>1. /\ UNCHANGED << serverVars, hooked >> /\ stop' = "closing" /\ drained' \in BOOLEAN
          /\ chan' = [chan EXCEPT ![channel] = IF OpenNow THEN "broken" ELSE chan[channel]]
          /\ consumers' = {k \in consumers : k[1] # channel}
      BY <1>14, <2>2 DEF StopWaited, Drop
    <3>2. QED
      BY <1>0, <2>2, <3>1
  <2>3. QED
    BY <2>1, <2>2
<1>15. CASE StopCloses
  BY <1>0, <1>15 DEF StopCloses, Stopped
<1>16. QED
  BY <1>1, <1>2, <1>3, <1>4, <1>5, <1>6, <1>7, <1>8, <1>9, <1>10, <1>11, <1>12, <1>13, <1>14,
     <1>15 DEF Steps, Deliver

-------------------------------------------------------------------------------
(* The theorems *)

LEMMA InitIInv ==
  ASSUME Init
  PROVE  IInv
<1> USE DEF Init, Manager!Init
<1>1. Delivered = {}
  BY DEF Delivered
<1>2. 0 \in 0..(MaxReconnectAttempts + 1)
  BY ManagerConstants
<1>3. TypeOK
  <2> setting \in Setting
    BY ServerAssumption
  <2>1. DeliveryTypes
    <3>1. /\ where \in [Messages -> Places] /\ requeues \in [Messages -> 0..2]
          /\ redelivered \in [Messages -> BOOLEAN]
          /\ sent \in [Messages -> SUBSET {"ok", "error", "unsent"}]
      BY DEF Places
    <3>2. deliv \in [Deliveries -> Delivery \cup {None}]
      OBVIOUS
    <3>3. mode \in {"auto", "manual"} /\ malformed \subseteq Malformable
      BY DEF Setting
    <3>4. QED
      BY <3>1, <3>2, <3>3 DEF DeliveryTypes
  <2>2. CallTypes
    BY <1>2 DEF CallTypes, Threads
  <2>3. OtherTypes
    BY DEF OtherTypes, Setting
  <2>4. /\ cache \in Seq([key : {DedupKey[m] : m \in Messages}, defined : BOOLEAN])
        /\ \A i, j \in DOMAIN cache : cache[i].key = cache[j].key => i = j
        /\ Len(cache) <= CacheSize
    BY ServerAssumption
  <2>5. QED
    BY <2>1, <2>2, <2>3, <2>4 DEF TypeOK, DeliveryTypes, CallTypes, OtherTypes
<1>4. Unsettled = {}
  BY <1>1 DEF Unsettled
<1>5. Placed /\ InUse /\ Owned
  BY <1>1, <1>4 DEF Placed, InUse, Owned
<1>6. CachedWasHandled /\ Tracked
  BY <1>1 DEF CachedWasHandled, Tracked
<1>7. AckedWasHandled /\ SettledWasAnswered /\ NothingForgotten
  BY <1>4, ServerAssumption DEF AckedWasHandled, SettledWasAnswered, NothingForgotten
<1>8. DrainedMeansIdle /\ HookedIsListening
  BY DEF DrainedMeansIdle, HookedIsListening
<1>9. OneDelivery /\ Flagged /\ RequeueLimit
  BY <1>4, ServerAssumption DEF OneDelivery, Flagged, RequeueLimit
<1>10. QED
  BY <1>3, <1>5, <1>6, <1>7, <1>8, <1>9 DEF IInv

LEMMA NextIInv ==
  ASSUME IInv, [Next]_vars
  PROVE  IInv'
<1> USE DEF IInv
<1>1. Steps /\ CacheInv'
  BY StepCases, CacheInvStep
<1>2. DeliverySteps /\ StopSteps
  BY <1>1, DeliveryCases, StopCases
<1>3. TypeOK'
  <2>1. DeliveryTypes' /\ CallTypes' /\ OtherTypes'
    BY <1>1, <1>2, DeliveryTypesStep, CallTypesStep, OtherTypesStep
  <2>2. QED
    BY <1>1, <2>1 DEF TypeOK, DeliveryTypes, CallTypes, OtherTypes, CacheInv, Entries, Distinct
<1>4. Placed' /\ InUse' /\ Owned'
  BY <1>1, <1>2, PlacedStep, InUseStep, OwnedStep
<1>5. CachedWasHandled' /\ Tracked'
  BY <1>1, <1>2, TrackedStep DEF CacheInv
<1>6. AckedWasHandled' /\ SettledWasAnswered' /\ NothingForgotten'
  BY <1>2, AckedWasHandledStep, SettledWasAnsweredStep, NothingForgottenStep
<1>7. DrainedMeansIdle'
  BY <1>2, <1>5, DrainedMeansIdleStep
<1>8. HookedIsListening'
  BY <1>1, HookedIsListeningStep
<1>9. OneDelivery' /\ Flagged' /\ RequeueLimit'
  BY <1>2, OneDeliveryStep, FlaggedStep, RequeueLimitStep
<1>10. QED
  BY <1>3, <1>4, <1>5, <1>6, <1>7, <1>8, <1>9

LEMMA Inductive ==
  Spec => []IInv
BY InitIInv, NextIInv, PTL DEF Spec

(* Every variable keeps its type; the deduplicator's cache holds each key  *)
(* once and never more than cacheSize of them; the callbacks the manager   *)
(* counts as in progress are exactly the calls of reRegisterConsumer().    *)
THEOREM TypeCorrect ==
  Spec => []TypeOK
<1>1. IInv => TypeOK
  BY DEF IInv
<1>2. QED
  BY Inductive, <1>1, PTL

(* A request is acknowledged after its handler has completed, also when    *)
(* the answer comes from the deduplicator's cache (lines 484-506), for any *)
(* number of requests, channels and reconnections.                         *)
THEOREM AcksFollowHandlers ==
  Spec => []AckedWasHandled
<1>1. IInv => AckedWasHandled
  BY DEF IInv
<1>2. QED
  BY Inductive, <1>1, PTL

(* Each path of handleRequest() that takes a well-formed RPC request from  *)
(* the queue in auto mode has sent the caller its reply before (lines      *)
(* 723-726), but for the one that could not encode an error (line 621).    *)
THEOREM CallersAreAnswered ==
  Spec => []SettledWasAnswered
<1>1. IInv => SettledWasAnswered
  BY DEF IInv
<1>2. QED
  BY Inductive, <1>1, PTL

(* Of the paths through handleRequest() only the one on which a requeue or *)
(* retryDelay callback throws (lines 633 and 647) leaves a delivery of the *)
(* channel in use without an answer, in auto mode and for any number of    *)
(* requests, channels and reconnections.                                   *)
THEOREM RequestsAreSettled ==
  Spec => []NothingForgotten
<1>1. IInv => NothingForgotten
  BY DEF IInv
<1>2. QED
  BY Inductive, <1>1, PTL

(* stop() that has seen inFlightMessages empty closes a channel on which   *)
(* no handler works, but for the requests the set cannot count.            *)
THEOREM DrainIsComplete ==
  Spec => []DrainedMeansIdle
<1>1. IInv => DrainedMeansIdle
  BY DEF IInv
<1>2. QED
  BY Inductive, <1>1, PTL

(* On a channel that start() opened and listens to, isServerRunning()      *)
(* tells the truth, or will be corrected by 'close'.                       *)
THEOREM RunningIsTrue ==
  Spec => []HookedIsListening
<1>1. IInv => HookedIsListening
  BY DEF IInv
<1>2. QED
  BY Inductive, <1>1, PTL

(* With maxRetries of 0 or 1 a message whose handler keeps failing is put  *)
(* back at most that often (README.md:299), though all that is known of    *)
(* earlier attempts is the redelivered flag (line 755), which also marks   *)
(* what a lost channel gave back.                                          *)
THEOREM RequeuesAreBounded ==
  Spec => []RequeueLimit
<1>1. IInv => RequeueLimit
  BY DEF IInv
<1>2. QED
  BY Inductive, <1>1, PTL

(* A message that was acknowledged or sent to the dead letters is never    *)
(* handled again, though deliveries are settled by their tags on whatever  *)
(* channel the server has by then (lines 459, 580 and 669).                *)
THEOREM SettlementsAreFinal ==
  Spec => SettledForGood
<1>1. IInv /\ [Next]_vars =>
        [\A m \in Messages : where[m] \in {"acked", "dead"} => where'[m] = where[m]]_vars
  BY StepCases, DeliveryCases, SettledForGoodStep DEF IInv
<1>2. QED
  BY Inductive, <1>1, PTL DEF Spec, SettledForGood

(* A reconnection of the server's consumer, once scheduled, is lost by no  *)
(* step: every callback ends in a consumer, in the next timer, or after    *)
(* the last attempt.                                                       *)
THEOREM ReconnectsGoOn ==
  Spec => ReconnectGoesOn
<1>1. IInv /\ [Next]_vars =>
        [Recovering =>
           Recovering' \/ isRunning' \/ reconnectAttempts' > MaxReconnectAttempts]_vars
  BY StepCases, ReconnectGoesOnStep DEF IInv
<1>2. QED
  BY Inductive, <1>1, PTL DEF Spec, ReconnectGoesOn
=============================================================================
