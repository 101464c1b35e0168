---------------------------- MODULE MCSampleRpc ----------------------------
(* Small instances of SampleRpc for TLC. *)
EXTENDS SampleRpcProps
MCRequests == 1..2
MCMaxCancels == [r \in MCRequests |-> IF r = 1 THEN 1 ELSE 0]
=============================================================================
