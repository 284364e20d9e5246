------------------------------- MODULE RpcCall -------------------------------
(***************************************************************************)
(* What RpcClient.send() promises its caller (the contract at lines        *)
(* 213-254 of src/client/rpc/RpcClient.ts): a call that was made settles,  *)
(* once and for good, with a reply to it or with an error.  Retries,       *)
(* correlation ids, timers, channels and close() are invisible here.       *)
(***************************************************************************)
CONSTANTS
  Requests,   \* calls of send()
  Errors      \* the ways a call can be rejected

VARIABLES
  called,     \* the calls that were made
  served,     \* the calls some server may have seen
  outcome     \* how each call settled: "none", "reply" or an error

vars == << called, served, outcome >>

Init ==
  /\ called = {}
  /\ served = {}
  /\ outcome = [r \in Requests |-> "none"]

Call(r) ==
  /\ r \notin called
  /\ called' = called \cup {r}
  /\ UNCHANGED << served, outcome >>

Active(r) == r \in called /\ outcome[r] = "none"

(* The message of an unsettled call reaches a server. *)
Serve(r) ==
  /\ Active(r)
  /\ served' = served \cup {r}
  /\ UNCHANGED << called, outcome >>

(* One event, such as close(), may settle several calls.  A call that is   *)
(* settled stays as it is; one that settles with a reply was served.       *)
Settle ==
  /\ outcome' \in [Requests -> Errors \cup {"reply", "none"}]
  /\ \A r \in Requests : outcome'[r] # outcome[r] =>
       Active(r) /\ (outcome'[r] = "reply" => r \in served)
  /\ UNCHANGED << called, served >>

Next == Settle \/ \E r \in Requests : Call(r) \/ Serve(r)

(* No call stays unsettled: a settled call stays settled and Requests is   *)
(* finite, so this says that each call that is made settles.               *)
Fairness == []<>(\A r \in Requests : ~Active(r))

Spec == Init /\ [][Next]_vars
FairSpec == Spec /\ Fairness
=============================================================================
