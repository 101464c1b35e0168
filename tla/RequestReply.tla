---------------------------- MODULE RequestReply ---------------------------
(***************************************************************************)
(* What a client with callbacks promises to its user: every request is     *)
(* told its outcome at most once; it is "ok" only when the server wrote a  *)
(* reply for that request, "aborted" only when the user cancelled it.      *)
(***************************************************************************)
EXTENDS Sequences

CONSTANT Request

VARIABLES asked,      \* requests made
          cancelled,  \* requests cancelled while they were known
          served,     \* requests the server has written a reply for
          told        \* outcomes passed to the callback of each request

vars == <<asked, cancelled, served, told>>

Init == /\ asked = {} /\ cancelled = {} /\ served = {}
        /\ told = [r \in Request |-> <<>>]

Ask(r) == /\ asked' = asked \cup {r}
          /\ UNCHANGED <<cancelled, served, told>>

Cancel(r) == /\ r \in asked
             /\ cancelled' = cancelled \cup {r}
             /\ UNCHANGED <<asked, served, told>>

Serve(r) == /\ r \in asked
            /\ served' = served \cup {r}
            /\ UNCHANGED <<asked, cancelled, told>>

Tell(r, outcome) ==
    /\ r \in asked /\ told[r] = <<>>
    /\ outcome = "ok" => r \in served
    /\ outcome = "aborted" => r \in cancelled
    /\ told' = [told EXCEPT ![r] = <<outcome>>]
    /\ UNCHANGED <<asked, cancelled, served>>

Next == \E r \in Request :
           \/ Ask(r) \/ Cancel(r) \/ Serve(r)
           \/ \E outcome \in {"ok", "aborted", "error"} : Tell(r, outcome)

Spec == Init /\ [][Next]_vars
=============================================================================
