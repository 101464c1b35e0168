------------------------------ MODULE SampleRpc -----------------------------
(***************************************************************************)
(* A client program, a server program and the connections between them.    *)
(***************************************************************************)
EXTENDS SampleClients, SampleServers

ClientSide(r) == User(r) \/ Io(r) \/ CancelLocked(r) \/ DoCancel(r) \/ Join

ServerSide == RunLoop \/ Acceptor \/ AcceptThrows \/ SyncStop \/ AsyncStop \/ TMsgEnds

Next == \/ \E r \in Requests : ClientSide(r) \/ Link(r) \/ Service(r)
        \/ ServerSide

Spec == Init /\ [][Next]_vars

(***************************************************************************)
(* Threads that can run do, and TCP makes progress.  The user need not     *)
(* ask, cancel or close, the server need not be stopped, and nothing has   *)
(* to fail; but a stop goes on when it has begun.                          *)
(***************************************************************************)
Fairness ==
    /\ WF_vars(RunLoop) /\ WF_vars(Acceptor) /\ WF_vars(TMsgEnds)
    /\ WF_vars(host.stop # "no" /\ (SyncStop \/ AsyncStop))
    /\ \A r \in Requests :
          /\ WF_vars(Link(r)) /\ WF_vars(Service(r)) /\ WF_vars(Io(r))
          /\ WF_vars(Connect(r)) /\ WF_vars(CancelLocked(r)) /\ WF_vars(DoCancel(r))

FairSpec == Spec /\ Fairness
=============================================================================
