--------------------------- MODULE NetServerProps --------------------------
(* What the server must guarantee about its connections. *)
EXTENDS NetServer

TypeOK ==
    /\ accepted \subseteq Conn /\ approved \subseteq accepted
    /\ challenged \subseteq approved /\ open \subseteq approved
    /\ deq \in Seq(Conn \cup {NoConn})
    /\ inQ \in Seq(Inbound)
    /\ asked \in [Conn -> 0..MaxSend]
    /\ ioPc \in {"idle", "pushed"}
    /\ appPc \in {"update", "visit", "erase"}
    /\ ignore \in Conn \cup {NoConn}
    /\ at \in Nat /\ end \in Nat
    /\ kept \in Seq(Conn)
    /\ told \subseteq Conn
    /\ reported \in [Conn -> Nat]

\* MessageAllClients never meets a pointer that an earlier broadcast has
\* reset: OnClientDisconnect would call GetID() on it.
NeverVisitsNull == appPc = "visit" /\ at <= end => deq[at] # NoConn

\* When the loop of a broadcast is over, every connection that was in the
\* container when it began and is still open has been sent the message, but
\* for the ignored one, whatever was appended or closed meanwhile.
BroadcastReaches ==
    appPc = "visit" /\ at > end =>
        \A i \in 1..end : deq[i] \in open => deq[i] \in told \cup {ignore}

\* A client that OnClientConnect has let in is in the container as long as
\* its socket is open ("connection allow, add to container",
\* net_server.hpp:78).  Fails: an erase of the application thread that
\* overlaps the push_back of the io thread drops the new connection.
ApprovedIsListed == \A c \in approved \cap open : \E i \in 1..Len(deq) : deq[i] = c
=============================================================================
