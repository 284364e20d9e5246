------------------------------ MODULE MCRpcServer ------------------------------
(***************************************************************************)
(* Model-checking instances of RpcServer: an RPC request and a             *)
(* fire-and-forget message for one command.                                *)
(***************************************************************************)
EXTENDS RpcServer

CONSTANTS m1, m2, cmd, s1, s2, b1, b2

OneCommand == [m \in Messages |-> cmd]
OwnId == [m \in Messages |-> m]

(* Only requests with a reply address carry a correlation id. *)
IdIfRpc == [m \in Messages |-> IF m \in RpcMessages THEN m ELSE None]

Quiet ==
  [messages |-> {}, starters |-> {s1}, modes |-> {"auto"}, commands |-> {cmd},
   changes |-> FALSE, cancels |-> FALSE, stops |-> FALSE]

(* Both messages over two channels; a message on a server that is stopped; *)
(* on one whose two start() calls overlap, stopped or not; one whose       *)
(* handler comes and goes; and reconnections by two callbacks.             *)
Handling == [Quiet EXCEPT !.messages = {m1, m2}, !.modes = {"auto", "manual"}]
Stopping == [Quiet EXCEPT !.messages = {m1}, !.stops = TRUE]
Overlapping == [Quiet EXCEPT !.messages = {m1}, !.starters = {s1, s2}]
Starting == [Quiet EXCEPT !.starters = {s1, s2}, !.stops = TRUE]
Registering == [Quiet EXCEPT !.messages = {m2}, !.commands = {}, !.changes = TRUE]
Reconnecting == [Quiet EXCEPT !.cancels = TRUE, !.stops = TRUE]

Everything == {Handling, Stopping, Overlapping, Starting, Registering, Reconnecting}
OneMessage == {[Quiet EXCEPT !.messages = {m2}]}
Cancelled == {[Quiet EXCEPT !.cancels = TRUE]}
=============================================================================
