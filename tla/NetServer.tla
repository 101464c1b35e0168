----------------------------- MODULE NetServer -----------------------------
(***************************************************************************)
(* server_interface<T> (net_server.hpp) with the handlers of SimpleServer: *)
(* the container m_deqConnections and the two threads that use it.         *)
(*                                                                         *)
(* The io thread accepts connections and runs their handlers; here a       *)
(* connection is only what the container sees of it, a socket that is open *)
(* or closed and messages that come from it (NetConnection has the rest).  *)
(* The application thread runs Update, whose OnMessage sends a message to  *)
(* its client or to all of them (SimpleServer has no use of MessageClient; *)
(* any other server may).                                                  *)
(*                                                                         *)
(* No lock protects the container.  The io thread appends to it while the  *)
(* application thread walks over it or erases from it.  Formally that is a *)
(* data race; the outcomes modelled are those of a deque whose size is     *)
(* read and written back: a walk ends where the deque ended when it began, *)
(* and an erase drops what was appended while it ran.                      *)
(***************************************************************************)
EXTENDS Naturals, Sequences, SequencesExt, SeqFilter

CONSTANTS Conn,      \* connections the acceptor may get
          NoConn,    \* a shared_ptr that has been reset
          MaxSend    \* bound of the model: messages from one client

ASSUME ConnAssumption == NoConn \notin Conn
ASSUME SendAssumption == MaxSend \in Nat

\* What OnMessage does: answer with Send, with MessageClient, or broadcast.
Kind == {"ping", "reply", "all"}

VARIABLES accepted,    \* connections the acceptor has got
          approved,    \* those OnClientConnect has let in
          challenged,  \* those ConnectToClient has been called on
          open,        \* those whose socket is open
          deq,         \* m_deqConnections
          inQ,         \* m_qMessagesIn: who sent, and what
          asked,       \* how many messages each client has sent
          ioPc,        \* the accept handler: between two accepts or after push_back
          appPc,       \* the application: in Update, or where in MessageAllClients
          ignore,      \* pIgnoreClient
          at,          \* the element the loop is at
          end,         \* where the loop ends
          kept,        \* what the erase in progress leaves
          told,        \* who was sent the broadcast in progress
          reported     \* how often OnClientDisconnect was called for each

io == <<accepted, approved, challenged, asked, ioPc>>
app == <<appPc, ignore, at, end, kept, told, reported>>
vars == <<io, app, open, deq, inQ>>

Inbound == [remote : Conn, kind : Kind]

Init == /\ accepted = {} /\ approved = {} /\ challenged = {} /\ open = {}
        /\ deq = <<>>
        /\ inQ = <<>>
        /\ asked = [c \in Conn |-> 0]
        /\ ioPc = "idle"
        /\ appPc = "update"
        /\ ignore = NoConn
        /\ at = 1 /\ end = 0
        /\ kept = <<>>
        /\ told = {}
        /\ reported = [c \in Conn |-> 0]

-----------------------------------------------------------------------------
(* The io thread. *)

\* The accept handler, up to push_back.
AcceptApprove(c) ==
    /\ ioPc = "idle" /\ c \notin accepted
    /\ accepted' = accepted \cup {c}
    /\ approved' = approved \cup {c}
    /\ open' = open \cup {c}
    /\ deq' = Append(deq, c)
    /\ ioPc' = "pushed"
    /\ UNCHANGED <<challenged, asked, inQ, app>>

\* OnClientConnect returns false: the connection is destroyed.
AcceptDeny(c) ==
    /\ ioPc = "idle" /\ c \notin accepted
    /\ accepted' = accepted \cup {c}
    /\ UNCHANGED <<approved, challenged, asked, ioPc, app, open, deq, inQ>>

\* m_deqConnections.back()->ConnectToClient(): whatever is last by now, with
\* a socket that is open; undefined if nothing is there.
AcceptConnect ==
    /\ ioPc = "pushed"
    /\ challenged' = IF deq # <<>> /\ Last(deq) \in open
                     THEN challenged \cup {Last(deq)} ELSE challenged
    /\ ioPc' = "idle"
    /\ UNCHANGED <<accepted, approved, asked, app, open, deq, inQ>>

\* A handler of a connection puts a message in the queue.
Receive(c) ==
    /\ ioPc = "idle"
    /\ c \in challenged /\ c \in open
    /\ asked[c] < MaxSend
    /\ asked' = [asked EXCEPT ![c] = @ + 1]
    /\ \E k \in Kind : inQ' = Append(inQ, [remote |-> c, kind |-> k])
    /\ UNCHANGED <<accepted, approved, challenged, ioPc, app, open, deq>>

\* A handler of a connection has failed and closed the socket.
Fail(c) ==
    /\ ioPc = "idle"
    /\ c \in open
    /\ open' = open \ {c}
    /\ UNCHANGED <<io, app, deq, inQ>>

-----------------------------------------------------------------------------
(* The application thread. *)

Take(k) == /\ appPc = "update"
           /\ inQ # <<>>
           /\ Head(inQ).kind = k
           /\ inQ' = Tail(inQ)

\* Send on the connection the message came from.
OnPing == /\ Take("ping")
          /\ UNCHANGED <<io, app, open, deq>>

\* Mutant: std::remove is given nothing to remove.
RemainingAll(d) == d

\* What std::remove of null pointers keeps.
Remaining(d) == Kept(d, Conn)

\* MessageClient resets its argument before it compares it with the elements,
\* so what it removes are null pointers.
MessageClient ==
    /\ Take("reply")
    /\ LET c == Head(inQ).remote
       IN  IF c \in open
           THEN UNCHANGED <<reported, deq>>
           ELSE /\ reported' = [reported EXCEPT ![c] = @ + 1]
                /\ deq' = Remaining(deq)
    /\ UNCHANGED <<io, appPc, ignore, at, end, kept, told, open>>

\* MessageAllClients: the loop's end is fixed when it begins.
BroadcastBegin ==
    /\ Take("all")
    /\ appPc' = "visit"
    /\ ignore' = Head(inQ).remote
    /\ at' = 1
    /\ end' = Len(deq)
    /\ told' = {}
    /\ UNCHANGED <<io, kept, reported, open, deq>>

\* Send to an open connection, other than the ignored one.
VisitOpen ==
    /\ appPc = "visit" /\ at <= end
    /\ deq[at] \in open
    /\ told' = told \cup ({deq[at]} \ {ignore})
    /\ at' = at + 1
    /\ UNCHANGED <<io, appPc, ignore, end, kept, reported, open, deq, inQ>>

\* Mutant: the element is erased inside the loop.
VisitClosedErases ==
    /\ appPc = "visit" /\ at <= end
    /\ deq[at] \notin open
    /\ reported' = [reported EXCEPT ![deq[at]] = @ + 1]
    /\ deq' = RemoveAt(deq, at)
    /\ at' = at + 1
    /\ end' = end - 1
    /\ UNCHANGED <<io, appPc, ignore, kept, told, open, inQ>>

\* OnClientDisconnect and reset for one that is closed.
VisitClosed ==
    /\ appPc = "visit" /\ at <= end
    /\ deq[at] \notin open
    /\ reported' = [reported EXCEPT ![deq[at]] = @ + 1]
    /\ deq' = [deq EXCEPT ![at] = NoConn]
    /\ at' = at + 1
    /\ UNCHANGED <<io, appPc, ignore, end, kept, told, open, inQ>>

\* Mutant: bInvalidClientExists is never set.
VisitEndKeeps ==
    /\ appPc = "visit" /\ at > end
    /\ appPc' = "update"
    /\ UNCHANGED <<io, ignore, at, end, kept, told, reported, open, deq, inQ>>

\* The loop is over; bInvalidClientExists says whether there is an erase.
VisitEnd ==
    /\ appPc = "visit" /\ at > end
    /\ IF \E i \in 1..end : deq[i] = NoConn
       THEN appPc' = "erase" /\ kept' = Remaining(deq)
       ELSE appPc' = "update" /\ UNCHANGED kept
    /\ UNCHANGED <<io, ignore, at, end, told, reported, open, deq, inQ>>

EraseEnd ==
    /\ appPc = "erase"
    /\ deq' = kept
    /\ appPc' = "update"
    /\ UNCHANGED <<io, ignore, at, end, kept, told, reported, open, inQ>>

-----------------------------------------------------------------------------
IoThread == \/ AcceptConnect
            \/ \E c \in Conn : \/ AcceptApprove(c) \/ AcceptDeny(c)
                               \/ Receive(c) \/ Fail(c)

Broadcast == BroadcastBegin \/ VisitOpen \/ VisitClosed \/ VisitEnd \/ EraseEnd

Application == OnPing \/ MessageClient \/ Broadcast

Next == IoThread \/ Application

Spec == Init /\ [][Next]_vars
=============================================================================
