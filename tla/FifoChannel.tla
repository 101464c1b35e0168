---------------------------- MODULE FifoChannel ----------------------------
(***************************************************************************)
(* What every message path of this system promises, whatever carries it:   *)
(* items are accepted on one side and come out on the other side in the    *)
(* order of acceptance, each at most once, none invented, none skipped.    *)
(* The in-process queue (TsQueue), the two directions of a connection      *)
(* (NetConnection) and the chat room's client (ChatSystem) are shown to    *)
(* implement it.                                                           *)
(***************************************************************************)
EXTENDS Naturals, Sequences

CONSTANT Item       \* what travels

VARIABLES sent,     \* every item accepted so far, oldest first
          got       \* every item handed over so far, oldest first

vars == <<sent, got>>

Init == /\ sent = <<>>
        /\ got = <<>>

Accept(i) == /\ sent' = Append(sent, i)
             /\ UNCHANGED got

HandOver == /\ Len(got) < Len(sent)
            /\ got' = Append(got, sent[Len(got) + 1])
            /\ UNCHANGED sent

Next == \/ \E i \in Item : Accept(i)
        \/ HandOver

Spec == Init /\ [][Next]_vars
=============================================================================
