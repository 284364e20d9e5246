------------------------------ MODULE MCRpcClient ------------------------------
(* Two requests.  One uses generated ids and a signal; the other passes its    *)
(* own correlation id, so that its retry reuses it, and a timeout long enough  *)
(* for the cleanup (older than twice the default) to come first.               *)
EXTENDS RpcClient
CONSTANTS r1, r2, traceId
MCRequests == {r1, r2}
MCCustomId == [r \in {r2} |-> traceId]
MCTimeoutOf == [r \in MCRequests |-> IF r = r1 THEN 1 ELSE 3]
MCWithSignal == {r1}

(* One request with a correlation id of its own, a signal and a retry.         *)
TracedRequests == {r1}
TracedCustomId == [r \in {r1} |-> traceId]
TracedTimeoutOf == [r \in {r1} |-> 1]
================================================================================
