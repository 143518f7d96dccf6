----------------------------- MODULE MCRpcCalls -----------------------------
(* Instances of RpcCalls for TLC.                                          *)
EXTENDS RpcCalls, TLC

Even2 == {102, 104}         \* a server's identifiers
Odd2 == {103, 105}
Symmetric == Permutations(Callers)
=============================================================================
