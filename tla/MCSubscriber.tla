------------------------------ MODULE MCSubscriber ------------------------------
(***************************************************************************)
(* Model-checking instances of Subscriber: handlers for all order events,  *)
(* an event with a message id and one without.                             *)
(***************************************************************************)
EXTENDS Subscriber

CONSTANTS m1, m2, h1, h2, s1, s2, b1, b2, id1

OrderPatterns == {<< "order", "#" >>}
OrderNames == {<< "order" >>, << "order", "placed" >>}

OrderEvents == [h \in Handlers |-> << "order", "#" >>]
OrderPlaced == [m \in Messages |-> << "order", "placed" >>]
IdOfFirst == [m \in Messages |-> IF m = m1 THEN id1 ELSE None]

(* An event whose name is all there is before the "#". *)
Order == [m \in Messages |-> << "order" >>]

Quiet ==
  [events |-> {}, handlers |-> {h1}, starters |-> {s1}, modes |-> {FALSE},
   cancels |-> FALSE, stops |-> FALSE]

(* An event and two handlers in both modes; one beside two start() calls;  *)
(* one on a subscriber that is stopped; both events; reconnections by two  *)
(* callbacks.                                                              *)
Handling == [Quiet EXCEPT !.events = {m2}, !.handlers = {h1, h2}, !.modes = BOOLEAN]
Overlapping == [Quiet EXCEPT !.events = {m2}, !.starters = {s1, s2}]
Stopping == [Quiet EXCEPT !.events = {m1}, !.stops = TRUE]
Draining == [Quiet EXCEPT !.events = {m1, m2}, !.stops = TRUE]
Reconnecting == [Quiet EXCEPT !.cancels = TRUE, !.stops = TRUE]

Everything == {Handling, Overlapping, Stopping, Draining, Reconnecting}
Isolating == {[Quiet EXCEPT !.events = {m2}, !.modes = {TRUE}]}
OneEvent == {[Quiet EXCEPT !.events = {m2}]}
=============================================================================
