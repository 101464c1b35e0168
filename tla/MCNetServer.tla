----------------------------- MODULE MCNetServer ---------------------------
(* Small instances of NetServer for TLC. *)
EXTENDS NetServerProps, TLC

CONSTANTS c1, c2, c3
MCConn == {c1, c2, c3}
Symmetry == Permutations(MCConn)
=============================================================================
