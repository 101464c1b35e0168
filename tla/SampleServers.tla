--------------------------- MODULE SampleServers ---------------------------
(***************************************************************************)
(* The five server programs.  iterative and parallel accept in a thread    *)
(* that looks at m_stop; the others have an async_accept outstanding.  A   *)
(* Service reads up to '\n', works, and writes a line; daytime writes at   *)
(* once and reads to the end of the stream.                                *)
(***************************************************************************)
EXTENDS SampleLink, FiniteSets

CONSTANT PoolSize        \* threads of the asynchronous servers
ASSUME PoolSizeAssumption == PoolSize \in Nat \ {0}

Keep == UNCHANGED <<client, server, req, user>>

\* Work occupies a thread of the pool; stop() lets no further handler run.
Working == {r \in Requests : sock[r].svc = "work"}
CanRun == /\ host.stop \in {"no", "flag"}
          /\ server \notin Sync => Cardinality(Working) < PoolSize

-----------------------------------------------------------------------------
(* Accepting. *)

\* Closing the acceptor resets what it has not taken.
Reset(s, q) == [r \in Requests |->
                  IF \E i \in 1..Len(q) : q[i] = r THEN [s[r] EXCEPT !.closed = TRUE] ELSE s[r]]

\* The loop goes on at the given point, or ends and closes its acceptor; q is
\* what is left of the backlog, shorter when a connection was taken.
LoopOn(s, q, next) ==
    /\ host' = [host EXCEPT !.loop = next, !.listening = next # "end",
                            !.late = IF q = backlog \/ host.stop = "no" THEN @ ELSE @ + 1]
    /\ sock' = IF next = "end" THEN Reset(s, q) ELSE s
    /\ backlog' = IF next = "end" THEN <<>> ELSE q
    /\ Keep

\* The oldest connection gets a Service that starts to read.
Take(next) ==
    /\ host.loop = "accept" /\ backlog # <<>> /\ CanRun
    /\ LoopOn([sock EXCEPT ![Head(backlog)].svc = "read",
                           ![Head(backlog)].reply = server = "daytime"],
              Tail(backlog), next)

FailedAccept(next) == /\ Faults /\ host.loop = "accept" /\ CanRun
                      /\ LoopOn(sock, backlog, next)

\* The process is gone, and every connection with it.
ProcessEnds(stop) ==
    /\ host' = [host EXCEPT !.stop = stop, !.loop = "end", !.listening = FALSE]
    /\ sock' = [r \in Requests |-> [sock[r] EXCEPT !.closed = TRUE, !.svc = "done"]]
    /\ backlog' = <<>>
    /\ Keep

\* Run() of iterative and parallel; the acceptor lives in it.
RunLoop == /\ server \in Sync /\ host.loop = "check"
           /\ LoopOn(sock, backlog, IF host.stop = "no" THEN "accept" ELSE "end")

\* iterative serves what it has accepted before it looks at m_stop again.
IterativeAccept == server = "iterative" /\ Take("serve")

ParallelAccept == server = "parallel" /\ Take("check")

\* accept() throws in the thread of Run, which catches nothing.
AcceptThrows == /\ Faults /\ server \in Sync /\ host.loop = "accept"
                /\ ProcessEnds(host.stop)

\* Mutant: m_isStopped is not looked at.
AfterAcceptAlways == "accept"

\* onAccept starts the next accept unless m_isStopped.
AfterAccept == IF host.stop = "no" THEN "accept" ELSE "end"

OnAccept == server = "async" /\ (Take(AfterAccept) \/ FailedAccept(AfterAccept))

HandleAccept == server = "daytime" /\ (Take("accept") \/ FailedAccept("accept"))

\* accept_loop is not started again after an error; the acceptor goes on
\* listening while the process lives.
AcceptLoop == /\ server = "t_msg"
              /\ \/ Take("accept")
                 \/ /\ Faults /\ host.loop = "accept" /\ CanRun
                    /\ host' = [host EXCEPT !.loop = "end"]
                    /\ UNCHANGED <<sock, backlog>> /\ Keep

-----------------------------------------------------------------------------
(* Serving. *)

\* Mutant: iterative does not come back from a request.
FinishStays(r, replied) ==
    /\ sock' = [sock EXCEPT ![r].svc = "done", ![r].closed = TRUE, ![r].reply = replied]
    /\ UNCHANGED <<host, backlog>> /\ Keep

\* The Service goes and its socket with it; iterative returns to its loop.
Finish(r, replied) ==
    /\ sock' = [sock EXCEPT ![r].svc = "done", ![r].closed = TRUE, ![r].reply = replied]
    /\ host' = [host EXCEPT !.loop = IF @ = "serve" THEN "check" ELSE @]
    /\ UNCHANGED backlog /\ Keep

GetLine(r) ==
    /\ sock[r].svc = "read" /\ sock[r].sent = "line" /\ CanRun
    /\ sock' = [sock EXCEPT ![r].svc = "work"]
    /\ UNCHANGED <<host, backlog>> /\ Keep

\* Mutant: an error of the read leaves the Service as it is.
ReadFailsNot(r) ==
    /\ sock[r].svc = "read" /\ sock[r].shut /\ CanRun
    /\ sock' = [sock EXCEPT ![r].svc = "idle"]
    /\ UNCHANGED <<host, backlog>> /\ Keep

ReadFails(r) ==
    /\ sock[r].svc = "read" /\ sock[r].shut /\ CanRun
    /\ Finish(r, sock[r].reply)

\* What is written to a client that has gone may be lost.
Replies(r) == IF sock[r].shut THEN BOOLEAN ELSE {TRUE}

\* HandleClient of iterative and of parallel's detached threads, which no
\* stop() reaches: read, work and write, or an exception on the way.
HandleClient(r) == \/ GetLine(r) \/ ReadFails(r)
                   \/ /\ sock[r].svc = "work"
                      /\ \E replied \in Replies(r) : Finish(r, replied)

IterativeService(r) == server = "iterative" /\ HandleClient(r)
ParallelService(r) == server = "parallel" /\ HandleClient(r)

\* async_write: the line is on its way, its handler still to come.
StartWrite(r) ==
    /\ sock[r].svc = "work"
    /\ \E replied \in Replies(r) :
          sock' = [sock EXCEPT ![r].svc = "write", ![r].reply = replied]
    /\ UNCHANGED <<host, backlog>> /\ Keep

OnResponseSent(r) == sock[r].svc = "write" /\ CanRun /\ Finish(r, sock[r].reply)

\* onFinish deletes the Service of async ...
AsyncService(r) == server = "async" /\ (GetLine(r) \/ ReadFails(r) \/ StartWrite(r) \/ OnResponseSent(r))

\* ... and the last shared_ptr that of t_msg.
TMsgService(r) == server = "t_msg" /\ (GetLine(r) \/ ReadFails(r) \/ StartWrite(r) \/ OnResponseSent(r))

\* Both handlers are empty: the connection stays until the client's end.
DaytimeService(r) == server = "daytime" /\ ReadFails(r)

-----------------------------------------------------------------------------
(* Server::Stop, after which main returns and the process ends; t_msg, which
   nobody stops, ends when it has nothing left to do. *)

SetStop(from, to) == /\ host.stop = from /\ host' = [host EXCEPT !.stop = to]
                     /\ UNCHANGED <<sock, backlog>> /\ Keep

\* The threads of parallel are detached: only that of Run is joined.
SyncStop == /\ server \in Sync
            /\ \/ SetStop("no", "flag")
               \/ host.stop = "flag" /\ host.loop = "end" /\ ProcessEnds("joined")

\* m_isStopped, then m_ios.stop(), then the join of the pool.
AsyncStop == /\ server = "async"
             /\ \/ SetStop("no", "flag") \/ SetStop("flag", "ios")
                \/ host.stop = "ios" /\ Working = {} /\ ProcessEnds("joined")

\* io.join() of t_msg returns when no handler is outstanding: the accept has
\* failed and the last Service has gone.  server() returns, and main.
TMsgEnds == /\ server = "t_msg" /\ host.loop = "end" /\ host.listening
            /\ \A r \in Requests : sock[r].svc \in {"none", "done"}
            /\ ProcessEnds(host.stop)

Acceptor == IterativeAccept \/ ParallelAccept \/ OnAccept \/ HandleAccept \/ AcceptLoop
Service(r) == \/ IterativeService(r) \/ ParallelService(r) \/ AsyncService(r)
              \/ TMsgService(r) \/ DaytimeService(r)
=============================================================================
