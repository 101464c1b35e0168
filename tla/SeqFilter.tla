------------------------------ MODULE SeqFilter -----------------------------
(***************************************************************************)
(* Filtering a sequence: what std::remove leaves of a container, or what   *)
(* one client's share of a log is.  A recursive function, which unlike     *)
(* SelectSeq can be reasoned about by induction on the length.             *)
(***************************************************************************)
EXTENDS Integers, Sequences

\* The elements of s that are in T, in their order.
Kept(s, T) ==
    LET f[n \in 0..Len(s)] ==
            IF n = 0 THEN <<>>
            ELSE IF s[n] \in T THEN Append(f[n - 1], s[n]) ELSE f[n - 1]
    IN  f[Len(s)]
=============================================================================
