-------------------------- MODULE MCNetConnection --------------------------
(* Small instances of NetConnection for TLC. *)
EXTENDS NetConnectionProps

CONSTANTS text,     \* a message with a body
          accept    \* a message without one

MCMsg == {text, accept}
MCSized == {text}
MCWord == {0, 1}
MCScramble == [w \in MCWord |-> 1 - w]
MCTwoEach == [e \in End |-> 2]
MCOneTwo == [e \in End |-> IF e = "server" THEN 1 ELSE 2]
MCGreeting == <<accept>>
=============================================================================
