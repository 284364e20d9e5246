------------------------------- MODULE MCPublisher -------------------------------
(* Model-checking instances of Publisher. *)
EXTENDS Publisher, TLC

CONSTANTS p1, p2, x1, x2

(* A publish() of each message, or a publishToMany() of both. *)
OneOrBoth == {{p1}, {p2}, {p1, p2}}
Targets == (p1 :> x1 @@ p2 :> x2)
OnlySecond == << x2 >>
=============================================================================
