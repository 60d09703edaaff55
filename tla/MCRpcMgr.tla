------------------------------ MODULE MCRpcMgr ------------------------------
(* Small instances of RpcMgr for TLC. *)
EXTENDS RpcMgr, TLC

CONSTANTS h1, h2, k1, k2, k3

\* h1 makes calls k1 and k2, h2 makes k3.
Caller == [k \in Calls |-> IF k = k3 THEN h2 ELSE h1]
Callee == [k \in Calls |-> IF k = k3 THEN h1 ELSE h2]
\* k1 and k2 are interchangeable.
AnyCall == Permutations({k1, k2})
=============================================================================
