----------------------------- MODULE SampleLink ----------------------------
(***************************************************************************)
(* The sample programs all meet on port 3333 of one host: a client opens a *)
(* connection for each request, writes the request, and reads one line.    *)
(* This module has the state they share and what TCP does between them.    *)
(*                                                                         *)
(* Which client program and which server program meet is chosen in the     *)
(* initial state.                                                          *)
(***************************************************************************)
EXTENDS Naturals, Sequences

CONSTANTS Requests,      \* request ids, numbered from 1
          ClientPrograms, ServerPrograms,
          Faults         \* may connections and accepts fail on their own?

ASSUME RequestsAssumption == Requests \subseteq Nat \ {0}
ASSUME ProgramsAssumption ==
    /\ ClientPrograms \subseteq {"AsyncTCPClient", "RequestOp"}
    /\ ServerPrograms \subseteq {"iterative", "parallel", "async", "daytime", "t_msg"}
ASSUME FaultsAssumption == Faults \in BOOLEAN

VARIABLES client, server,  \* the programs that run
          req,      \* a request in the client: see Fresh
          sock,     \* its connection and the service behind it: see NoSock
          backlog,  \* connections the acceptor has not taken, oldest first
          host,     \* the server process
          user      \* the other threads of the client process

vars == <<client, server, req, sock, backlog, host, user>>

\* at: where the request is; op, res: its outstanding operation and how that
\* ended; ec, cancelled: m_ec, m_was_cancelled; locked: does the io thread
\* hold m_cancel_guard? posted: is doCancel dispatched? told: callbacks.
Fresh == [at |-> "new", op |-> "none", res |-> "none", ec |-> "ok",
          cancelled |-> FALSE, locked |-> FALSE, posted |-> FALSE, told |-> <<>>]

\* sent: what the server can read; shut, closed: the ends the client and the
\* server have closed; reply: has the server written a line? svc: its Service.
NoSock == [sent |-> "nothing", shut |-> FALSE, closed |-> FALSE, reply |-> FALSE,
           svc |-> "none"]

Sync == {"iterative", "parallel"}

\* loop: the accept loop or the outstanding async_accept; stop: how far
\* Server::Stop is; late: connections accepted since it began.
Init == /\ client \in ClientPrograms /\ server \in ServerPrograms
        /\ req = [r \in Requests |-> Fresh]
        /\ sock = [r \in Requests |-> NoSock]
        /\ backlog = <<>>
        /\ host = [loop |-> IF server \in Sync THEN "check" ELSE "accept",
                   stop |-> "no", listening |-> TRUE, late |-> 0]
        /\ user = [cancelling |-> 0, cancels |-> [r \in Requests |-> 0],
                   closing |-> "no"]

\* A request with an operation started or ended.
Started(q, what) == [q EXCEPT !.op = what, !.res = "none"]
Ended(r, how) == req' = [req EXCEPT ![r].res = how]
Outstanding(r, what) == req[r].op = what /\ req[r].res = "none"

\* The kernel completes the handshake while the server listens.
ConnectDone(r) ==
    /\ Outstanding(r, "connect")
    /\ \/ /\ host.listening
          /\ Ended(r, "ok") /\ backlog' = Append(backlog, r)
       \/ /\ ~host.listening \/ Faults
          /\ Ended(r, "error") /\ UNCHANGED backlog
    /\ UNCHANGED <<client, server, sock, host, user>>

\* AsyncTCPClient ends its request with '\n', RequestOp sends a word as
\* std::cin >> request left it.  A write to a closed connection may fail.
WriteDone(r) ==
    /\ Outstanding(r, "write")
    /\ \/ /\ Ended(r, "ok")
          /\ sock' = [sock EXCEPT ![r].sent = IF client = "RequestOp" THEN "word" ELSE "line"]
       \/ /\ sock[r].closed
          /\ Ended(r, "error") /\ UNCHANGED sock
    /\ UNCHANGED <<client, server, backlog, host, user>>

ReadDone(r) ==
    /\ Outstanding(r, "read")
    /\ sock[r].reply \/ sock[r].closed
    /\ Ended(r, IF sock[r].reply THEN "ok" ELSE "error")
    /\ UNCHANGED <<client, server, sock, backlog, host, user>>

Link(r) == ConnectDone(r) \/ WriteDone(r) \/ ReadDone(r)
=============================================================================
