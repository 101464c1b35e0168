----------------------------- MODULE MCTsQueue -----------------------------
(* Small instances of TsQueue for TLC. *)
EXTENDS TsQueueProps
=============================================================================
