------------------------------ MODULE MCRpcPeer ------------------------------
(* Small instances of RpcPeer for TLC. *)
EXTENDS RpcPeer, TLC

CallSymmetry == Permutations(Mutations) \cup Permutations(Queries)
=============================================================================
