--------------------------- MODULE SampleClients ---------------------------
(***************************************************************************)
(* The two asynchronous client programs.                                   *)
(*                                                                         *)
(* AsyncTCPClient (asynchronous_tcp_client.cpp) runs its handlers on one   *)
(* io thread; m_active_sessions is locked by a mutex that cancelRequest    *)
(* holds while it waits for the m_cancel_guard of the request.  RequestOp  *)
(* (t_msg_client.cpp) has a strand per request on a thread pool, an atomic *)
(* cancel flag, and posts the cancellation of the socket to the strand.    *)
(*                                                                         *)
(* A request is in the map of its client while Known.                      *)
(***************************************************************************)
EXTENDS SampleLink

CONSTANT MaxCancels      \* bound of the model: cancelRequest calls per request
ASSUME MaxCancelsAssumption == MaxCancels \in [Requests -> Nat]

AtCallback(r) == req[r].at \in {"complete", "callback"}

Known(r) == IF client = "AsyncTCPClient" THEN req[r].at \in {"start", "idle", "complete"}
                                         ELSE req[r].at \notin {"new", "done"}

\* m_active_sessions_guard is held across steps only by a cancelRequest.
SessionsFree == user.cancelling = 0

Rest == UNCHANGED <<client, server, backlog, host>>

-----------------------------------------------------------------------------
\* The session is put in the map under the sessions guard ...
Insert(r) ==
    /\ req[r].at = "new" /\ user.closing = "no" /\ SessionsFree
    /\ \A q \in Requests : q < r => req[q].at \notin {"new", "start"}
    /\ req' = [req EXCEPT ![r].at = "start"]
    /\ UNCHANGED <<sock, user>> /\ Rest

\* ... and connects after it is unlocked.
Connect(r) ==
    /\ req[r].at = "start"
    /\ req' = [req EXCEPT ![r] = [Started(@, "connect") EXCEPT !.at = "idle"]]
    /\ UNCHANGED <<sock, user>> /\ Rest

EmulateLongComputationOp(r) == client = "AsyncTCPClient" /\ (Insert(r) \/ Connect(r))

\* One turn of the loop of sendMessage; ids grow by one.
SendMessage(r) == client = "RequestOp" /\ (Insert(r) \/ Connect(r))

Following(op) == IF op = "connect" THEN "write" ELSE "read"

\* onRequestComplete and onComplete begin by shutting the socket down.
Complete(r, q) == /\ req' = [req EXCEPT ![r] = [q EXCEPT !.op = "none", !.res = "none"]]
                  /\ sock' = [sock EXCEPT ![r].shut = TRUE]

Proceed(r) == /\ req' = [req EXCEPT ![r] = Started(@, Following(@.op))]
              /\ UNCHANGED sock

\* Mutant: the handlers take the cancel guard before they look at the error.
HandleLockedAlways(r) ==
    /\ client = "AsyncTCPClient"
    /\ req[r].at = "idle" /\ req[r].res # "none"
    /\ \A q \in Requests : ~AtCallback(q)
    /\ LET early == req[r].res = "ok" /\ req[r].op # "read"
           q == [req[r] EXCEPT !.at = "complete", !.ec = req[r].res,
                               !.locked = req[r].op # "read"]
       IN  IF early /\ ~req[r].cancelled THEN Proceed(r) ELSE Complete(r, q)
    /\ UNCHANGED user /\ Rest

\* The lambdas of emulateLongComputationOp.  The connect and write handlers
\* take the cancel guard and keep it through onRequestComplete when the
\* request was cancelled; the read handler takes no lock.
Handle(r) ==
    /\ client = "AsyncTCPClient"
    /\ req[r].at = "idle" /\ req[r].res # "none"
    /\ \A q \in Requests : ~AtCallback(q)
    /\ LET early == req[r].res = "ok" /\ req[r].op # "read"
           q == [req[r] EXCEPT !.at = "complete", !.ec = req[r].res,
                               !.locked = early]
       IN  IF early /\ ~req[r].cancelled THEN Proceed(r) ELSE Complete(r, q)
    /\ UNCHANGED user /\ Rest

\* onRequestComplete takes the session out of the map, when it may.
Erase(r) ==
    /\ req[r].at = "complete" /\ SessionsFree
    /\ req' = [req EXCEPT ![r].at = "callback"]
    /\ UNCHANGED <<sock, user>> /\ Rest

\* Mutant: the callback gets m_ec whether or not the request was cancelled.
TellError(r) ==
    /\ req[r].at = "callback"
    /\ req' = [req EXCEPT ![r].at = "done", ![r].locked = FALSE,
                          ![r].told = Append(@, req[r].ec)]
    /\ UNCHANGED <<sock, user>> /\ Rest

\* The outcome onRequestComplete has found, the callback, the unlocking.
\* RequestOp has decided in its handler.
Tell(r) ==
    /\ req[r].at = "callback"
    /\ LET aborted == client = "AsyncTCPClient" /\ req[r].ec = "ok" /\ req[r].cancelled
       IN  req' = [req EXCEPT ![r].at = "done", ![r].locked = FALSE,
                              ![r].told = Append(@, IF aborted THEN "aborted" ELSE req[r].ec)]
    /\ UNCHANGED <<sock, user>> /\ Rest

\* Mutant: the error of the read is ignored, as Get() ignores it.
HandleOpAnyRead(r) ==
    /\ client = "RequestOp"
    /\ req[r].at = "idle" /\ req[r].res # "none"
    /\ LET q == req[r]
           ec == IF q.res = "ok" /\ q.cancelled THEN "aborted"
                 ELSE IF q.op = "read" THEN "ok" ELSE q.res
       IN  IF ec = "ok" /\ q.op # "read"
           THEN Proceed(r)
           ELSE Complete(r, [q EXCEPT !.at = "callback", !.ec = ec])
    /\ UNCHANGED user /\ Rest

\* The handlers of RequestOp, up to the callback in onComplete.
HandleOp(r) ==
    /\ client = "RequestOp"
    /\ req[r].at = "idle" /\ req[r].res # "none"
    /\ LET q == req[r]
           ec == IF q.res = "ok" /\ q.cancelled THEN "aborted" ELSE q.res
       IN  IF ec = "ok" /\ q.op # "read"
           THEN Proceed(r)
           ELSE Complete(r, [q EXCEPT !.at = "callback", !.ec = ec])
    /\ UNCHANGED user /\ Rest

-----------------------------------------------------------------------------
\* socket::cancel() ends the operation that has not ended yet.
Aborted(q) == IF q.op # "none" /\ q.res = "none" THEN [q EXCEPT !.res = "aborted"] ELSE q

\* cancelRequest takes the sessions guard, and when it finds the request goes
\* on to wait for its cancel guard, still holding the other.
CancelRequest(r) ==
    /\ client = "AsyncTCPClient"
    /\ req[r].at # "new" /\ SessionsFree /\ user.cancels[r] < MaxCancels[r]
    /\ user' = [user EXCEPT !.cancels[r] = @ + 1, !.cancelling = IF Known(r) THEN r ELSE 0]
    /\ UNCHANGED <<req, sock>> /\ Rest

\* cancelRequest and RequestOp::Cancel: lock() finds the request alive; the
\* flag is set at once, doCancel is posted.
CancelOp(r) ==
    /\ client = "RequestOp"
    /\ req[r].at # "new" /\ user.cancels[r] < MaxCancels[r]
    /\ user' = [user EXCEPT !.cancels[r] = @ + 1]
    /\ req' = IF Known(r) THEN [req EXCEPT ![r].cancelled = TRUE, ![r].posted = TRUE] ELSE req
    /\ UNCHANGED sock /\ Rest

CancelLocked(r) ==
    /\ user.cancelling = r /\ ~req[r].locked
    /\ req' = [req EXCEPT ![r] = [Aborted(@) EXCEPT !.cancelled = TRUE]]
    /\ user' = [user EXCEPT !.cancelling = 0]
    /\ UNCHANGED sock /\ Rest

\* Mutant: the flag is set but the socket is left alone.
DoCancelNothing(r) ==
    /\ req[r].posted /\ req[r].at # "callback"
    /\ req' = [req EXCEPT ![r].posted = FALSE]
    /\ UNCHANGED <<sock, user>> /\ Rest

\* RequestOp::doCancel on the strand.
DoCancel(r) ==
    /\ req[r].posted /\ req[r].at # "callback"
    /\ req' = [req EXCEPT ![r] = [Aborted(@) EXCEPT !.posted = FALSE]]
    /\ UNCHANGED <<sock, user>> /\ Rest

\* close(): the io thread returns from run() when nothing is outstanding.
Close == /\ client = "AsyncTCPClient" /\ user.closing = "no"
         /\ \A r \in Requests : req[r].at # "start"
         /\ user' = [user EXCEPT !.closing = "joining"]
         /\ UNCHANGED <<req, sock>> /\ Rest

Join == /\ user.closing = "joining"
        /\ \A r \in Requests : req[r].op = "none" /\ ~AtCallback(r)
        /\ user' = [user EXCEPT !.closing = "joined"]
        /\ UNCHANGED <<req, sock>> /\ Rest

\* The threads that use a client: main of the sample asks, cancels and closes.
User(r) == \/ EmulateLongComputationOp(r) \/ SendMessage(r) \/ Close
           \/ CancelRequest(r) \/ CancelOp(r)
Io(r) == Handle(r) \/ HandleOp(r) \/ Erase(r) \/ Tell(r)
=============================================================================
