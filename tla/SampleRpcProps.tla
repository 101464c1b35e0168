--------------------------- MODULE SampleRpcProps --------------------------
(* What the sample clients and servers must guarantee together. *)
EXTENDS SampleRpc

Outcome == {"ok", "error", "aborted"}

Asked == [at : {"new", "start", "idle", "complete", "callback", "done"},
          op : {"none", "connect", "write", "read"}, res : Outcome \cup {"none"},
          ec : Outcome, cancelled : BOOLEAN, locked : BOOLEAN, posted : BOOLEAN,
          told : Seq(Outcome)]

Socket == [sent : {"nothing", "word", "line"}, shut : BOOLEAN, closed : BOOLEAN,
           reply : BOOLEAN, svc : {"none", "read", "work", "write", "done"}]

TypeOK ==
    /\ client \in ClientPrograms /\ server \in ServerPrograms
    /\ req \in [Requests -> Asked] /\ sock \in [Requests -> Socket]
    /\ backlog \in Seq(Requests)
    /\ host \in [loop : {"check", "accept", "serve", "end"},
                 stop : {"no", "flag", "ios", "joined"}, listening : BOOLEAN, late : Nat]
    /\ user \in [cancelling : Requests \cup {0}, cancels : [Requests -> Nat],
                 closing : {"no", "joining", "joined"}]

\* Either client with any server: each callback is called at most once, with
\* "ok" only if the server wrote a line on that connection, and with
\* "aborted" only if the user cancelled.
Promise == INSTANCE RequestReply WITH
              Request <- Requests,
              asked <- {r \in Requests : req[r].at # "new"},
              cancelled <- {r \in Requests : req[r].cancelled},
              served <- {r \in Requests : sock[r].reply},
              told <- [r \in Requests |-> req[r].told]
ImplementsPromise == Promise!Spec

\* AsyncTCPClient reads m_was_cancelled for the outcome after it has let go
\* of every lock that the read handler holds.  A cancelRequest that found
\* the request must have written it by then: no such request reports success.
CancelledNeverSucceeds ==
    client = "AsyncTCPClient" =>
        \A r \in Requests : req[r].cancelled => req[r].told \in {<<>>, <<"error">>, <<"aborted">>}

\* cancelRequest waits for a cancel guard under the sessions guard, and a
\* handler that completes a cancelled request waits the other way round.
\* They meet only when the request had been cancelled before: one call of
\* cancelRequest per request never blocks the client for ever.  (Two do.)
EmbraceTakesTwo ==
    \A r \in Requests :
        (user.cancelling = r /\ req[r].locked /\ req[r].at = "complete") => user.cancels[r] > 1

\* Once Server::Stop has begun at most one more connection is taken: the one
\* the accept was already waiting for.  (accept() may wait for it for ever:
\* Stop of iterative and parallel returns only if another client comes.)
OneLateAccept == host.late <= 1

\* Every request ends, whatever fails and whenever the server is stopped;
\* also one in the backlog of a t_msg whose accept_loop has ended, because
\* the other Services end, io.join() returns and the process resets it.
\* (RequestOp's words have no '\n', and only daytime answers those.)
EveryRequestEnds ==
    \A r \in Requests :
        (req[r].at # "new" /\ (client = "AsyncTCPClient" \/ server = "daytime"))
        ~> req[r].at = "done"

\* A cancelled request ends even if the server never answers, as with the
\* words of RequestOp: whatever step the cancellation meets, and though the
\* connect may still be started after it, no operation stays outstanding.
CancelEnds == \A r \in Requests : req[r].cancelled ~> req[r].at = "done"

\* A service whose client has gone lets go of its connection: no thread of
\* parallel, no undeleted Service of async, no connection of daytime stays.
ServiceEnds ==
    \A r \in Requests : (sock[r].shut /\ sock[r].svc # "none") ~> sock[r].svc = "done"
=============================================================================
