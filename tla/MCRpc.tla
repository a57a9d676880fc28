---------------------------------- MODULE MCRpc ----------------------------------
(* Rpc on small instances for TLC. *)
EXTENDS Rpc, TLC

CONSTANTS c1, q1

MCNoRequest == <<>>
MCPlainRequest == (q1 :> None)
MCNestedCall == (q1 :> c1)
=============================================================================
