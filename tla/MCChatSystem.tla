---------------------------- MODULE MCChatSystem ---------------------------
(* Small instances of ChatSystem for TLC. *)
EXTENDS ChatSystem
CONSTANTS s1, s2
MCSessions == {s1, s2}
MCMaxSay == [s \in MCSessions |-> IF s = s1 THEN 2 ELSE 1]
MCSize == <<0, 600>>
=============================================================================
