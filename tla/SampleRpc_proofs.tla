-------------------------- MODULE SampleRpc_proofs --------------------------
(***************************************************************************)
(* Proofs about the sample programs, for any number of requests, any pool  *)
(* and any number of cancels: what a callback is told, when two locks can  *)
(* meet, and how many connections a stopping server still takes.           *)
(***************************************************************************)
EXTENDS SampleRpcProps, TLAPS

InMap == {"start", "idle", "complete"}

\* A request and its connection: what its operation, its outcome and the
\* service behind it say about each other.
Sound(q, s) ==
    /\ q.op # "none" => q.at = "idle"
    /\ q.at = "new" => ~q.posted
    /\ q.at # "done" => q.told = <<>>
    /\ q.op = "read" /\ q.res = "ok" => s.reply
    /\ q.res = "aborted" \/ q.posted => q.cancelled
    /\ q.at \in {"complete", "callback"} =>
          /\ q.ec = "ok" => s.reply \/ (client = "AsyncTCPClient" /\ q.cancelled)
          /\ q.ec = "aborted" => q.cancelled
    /\ q.at = "complete" /\ q.locked => q.cancelled
    /\ s.svc \in {"read", "work", "write"} => q.at # "new"
    /\ s.svc \in {"none", "work"} \/ (s.svc = "read" /\ server # "daytime") => ~s.reply
    /\ client = "AsyncTCPClient" /\ q.cancelled => q.told \in {<<>>, <<"error">>, <<"aborted">>}

AllSound == \A r \in Requests : Sound(req[r], sock[r])

\* A request that is cancelled, or about to be, was the subject of a call.
CancelInv ==
    \A r \in Requests :
        /\ req[r].cancelled \/ user.cancelling = r => user.cancels[r] > 0
        /\ req[r].cancelled /\ user.cancelling = r => user.cancels[r] > 1
        /\ user.cancelling = r => client = "AsyncTCPClient" /\ req[r].at \in InMap

\* A connection waits once, before it has a service, if the server listens.
Waiting(q) == q.at \in {"new", "start"} \/ (q.op = "connect" /\ q.res = "none")
QueueInv ==
    /\ host.loop # "end" => host.listening
    /\ \A r \in Requests : host.listening /\ Waiting(req[r]) =>
          sock[r].svc = "none" /\ \A i \in 1..Len(backlog) : backlog[i] # r
    /\ \A i \in 1..Len(backlog) : sock[backlog[i]].svc = "none" /\ req[backlog[i]].at # "new"
    /\ \A i, j \in 1..Len(backlog) : backlog[i] = backlog[j] => i = j

\* Only the accept that was already waiting takes a connection late.
StopInv ==
    /\ host.stop = "no" => host.late = 0
    /\ host.late <= 1
    /\ host.late > 0 => host.loop # "accept"
    /\ server \in {"daytime", "t_msg"} => host.stop = "no"

IInv == TypeOK /\ AllSound /\ CancelInv /\ QueueInv

(***************************************************************************)
(* Types.  A step of a request writes its two records.                     *)
(***************************************************************************)
LEMMA Fields ==
    ASSUME TypeOK, NEW r \in Requests
    PROVE  req[r] \in Asked /\ sock[r] \in Socket
  BY DEF TypeOK

LEMMA AppendToNone == \A x : Append(<<>>, x) = <<x>>
  OBVIOUS

UserType == [cancelling : Requests \cup {0}, cancels : [Requests -> Nat],
             closing : {"no", "joining", "joined"}]
HostType == [loop : {"check", "accept", "serve", "end"},
             stop : {"no", "flag", "ios", "joined"}, listening : BOOLEAN, late : Nat]

LEMMA TypesSplit ==
    TypeOK <=> /\ client \in ClientPrograms /\ server \in ServerPrograms
               /\ req \in [Requests -> Asked] /\ sock \in [Requests -> Socket]
               /\ backlog \in Seq(Requests) /\ host \in HostType /\ user \in UserType
  BY DEF TypeOK, HostType, UserType

\* The step of request r that writes the records q and s.
Move(r, q, s) ==
    /\ q \in Asked /\ s \in Socket
    /\ req' = [req EXCEPT ![r] = q] /\ sock' = [sock EXCEPT ![r] = s]
    /\ UNCHANGED <<client, server>>

\* One that concerns neither the server ...
Local(r, q, s) ==
    /\ Move(r, q, s) /\ Sound(q, s)
    /\ s.svc = sock[r].svc /\ s.reply = sock[r].reply
    /\ Waiting(q) => Waiting(req[r])
    /\ q.at = "new" => req[r].at = "new"
    /\ user.cancelling = r => q.at \in InMap

\* ... nor the user.
Quiet(r, q, s) ==
    /\ Local(r, q, s) /\ req[r].at # "new"
    /\ q.told = req[r].told /\ q.cancelled = req[r].cancelled

LEMMA MoveType ==
    ASSUME TypeOK, NEW r \in Requests, NEW q, NEW s, Move(r, q, s)
    PROVE  /\ req' \in [Requests -> Asked] /\ sock' \in [Requests -> Socket]
           /\ client' \in ClientPrograms /\ server' \in ServerPrograms
           /\ req'[r] = q /\ sock'[r] = s
           /\ \A o \in Requests \ {r} : req'[o] = req[o] /\ sock'[o] = sock[o]
  BY DEF TypeOK, Move

LEMMA MoveSound ==
    ASSUME TypeOK, AllSound, NEW r \in Requests, NEW q, NEW s, Move(r, q, s), Sound(q, s)
    PROVE  AllSound'
<1> SUFFICES ASSUME NEW o \in Requests PROVE Sound(req[o], sock[o])'
  BY DEF AllSound
<1>1. Sound(req'[o], sock'[o])
  BY MoveType DEF AllSound
<1> QED
  BY <1>1 DEF Sound, Move

-----------------------------------------------------------------------------
(* The steps of a request in the client. *)

LEMMA ConnectQuiet ==
    ASSUME IInv, NEW r \in Requests, Connect(r)
    PROVE  \E q, s : Quiet(r, q, s)
<1> DEFINE q == [req[r] EXCEPT !.op = "connect", !.res = "none", !.at = "idle"]
<1>1. req[r] \in Asked /\ sock[r] \in Socket /\ Sound(req[r], sock[r])
  BY Fields DEF IInv, AllSound
<1>2. req' = [req EXCEPT ![r] = q] /\ sock' = [sock EXCEPT ![r] = sock[r]]
  BY DEF Connect, Started, IInv, TypeOK
<1>3. /\ q \in Asked /\ q.at = "idle" /\ req[r].at = "start"
      /\ q.op = "connect" /\ q.res = "none" /\ q.posted = req[r].posted /\ q.told = req[r].told
      /\ q.cancelled = req[r].cancelled /\ UNCHANGED <<client, server>>
  BY <1>1 DEF Asked, Connect, Rest, Outcome
<1> HIDE DEF q
<1>4. Sound(q, sock[r])
  BY <1>1, <1>3 DEF Sound
<1>5. Quiet(r, q, sock[r])
  BY <1>1, <1>2, <1>3, <1>4 DEF Quiet, Local, Move, Waiting, InMap
<1> QED
  BY <1>5

LEMMA ProceedQuiet ==
    ASSUME IInv, NEW r \in Requests, req[r].at = "idle", Proceed(r), UNCHANGED <<client, server>>
    PROVE  \E q, s : Quiet(r, q, s)
<1> DEFINE op == Following(req[r].op)
           q == [req[r] EXCEPT !.op = op, !.res = "none"]
<1>1. req[r] \in Asked /\ sock[r] \in Socket /\ Sound(req[r], sock[r])
  BY Fields DEF IInv, AllSound
<1>2. req' = [req EXCEPT ![r] = q] /\ sock' = [sock EXCEPT ![r] = sock[r]]
  BY DEF Proceed, Started, IInv, TypeOK
<1>3. op \in {"write", "read"}
  BY DEF Following
<1> HIDE DEF op
<1>4. /\ q \in Asked /\ q.at = "idle" /\ q.op = op /\ q.res = "none"
      /\ q.posted = req[r].posted /\ q.told = req[r].told /\ q.cancelled = req[r].cancelled
  BY <1>1, <1>3 DEF Asked, Outcome
<1> HIDE DEF q
<1>5. Sound(q, sock[r])
  BY <1>1, <1>4 DEF Sound
<1>6. Quiet(r, q, sock[r])
  BY <1>1, <1>2, <1>3, <1>4, <1>5 DEF Quiet, Local, Move, Waiting, InMap
<1> QED
  BY <1>6

\* A request completes with an outcome that its operation or the user explains.
LEMMA CompleteQuiet ==
    ASSUME IInv, NEW r \in Requests, req[r].at = "idle", UNCHANGED <<client, server>>,
           NEW at \in {"complete", "callback"}, NEW ec \in Outcome, NEW locked \in BOOLEAN,
           at = "callback" => user.cancelling # r,
           at = "complete" /\ locked => req[r].cancelled,
           ec = "ok" => sock[r].reply \/ (client = "AsyncTCPClient" /\ req[r].cancelled),
           ec = "aborted" => req[r].cancelled,
           Complete(r, [req[r] EXCEPT !.at = at, !.ec = ec, !.locked = locked])
    PROVE  \E q, s : Quiet(r, q, s)
<1> DEFINE q == [req[r] EXCEPT !.at = at, !.ec = ec, !.locked = locked, !.op = "none", !.res = "none"]
           s == [sock[r] EXCEPT !.shut = TRUE]
<1>1. req[r] \in Asked /\ sock[r] \in Socket /\ Sound(req[r], sock[r])
  BY Fields DEF IInv, AllSound
<1>2. req' = [req EXCEPT ![r] = q] /\ sock' = [sock EXCEPT ![r] = s]
  BY <1>1 DEF Complete, Asked
<1>3. /\ q \in Asked /\ q.at = at /\ q.ec = ec /\ q.locked = locked /\ q.op = "none"
      /\ q.res = "none" /\ q.posted = req[r].posted /\ q.told = req[r].told
      /\ q.cancelled = req[r].cancelled
  BY <1>1 DEF Asked, Outcome
<1>4. s \in Socket /\ s.svc = sock[r].svc /\ s.reply = sock[r].reply
  BY <1>1 DEF Socket
<1> HIDE DEF q, s
<1>5. Sound(q, s)
  BY <1>1, <1>3, <1>4 DEF Sound
<1>6. Quiet(r, q, s)
  BY <1>2, <1>3, <1>4, <1>5 DEF Quiet, Local, Move, Waiting, InMap
<1> QED
  BY <1>6

LEMMA HandleQuiet ==
    ASSUME IInv, NEW r \in Requests, Handle(r)
    PROVE  \E q, s : Quiet(r, q, s)
<1> DEFINE early == req[r].res = "ok" /\ req[r].op # "read"
<1>1. req[r] \in Asked /\ Sound(req[r], sock[r])
  BY Fields DEF IInv, AllSound
<1>2. req[r].at = "idle" /\ req[r].res \in Outcome /\ client = "AsyncTCPClient"
      /\ UNCHANGED <<client, server>>
  BY <1>1 DEF Handle, Rest, Asked
<1>3. CASE early /\ ~req[r].cancelled
  BY <1>2, <1>3, ProceedQuiet DEF Handle
<1>4. CASE ~(early /\ ~req[r].cancelled)
  <2>1. Complete(r, [req[r] EXCEPT !.at = "complete", !.ec = req[r].res, !.locked = early])
    BY <1>4 DEF Handle
  <2>2. /\ req[r].res = "ok" => sock[r].reply \/ req[r].cancelled
        /\ req[r].res = "aborted" => req[r].cancelled
        /\ early => req[r].cancelled
        /\ early \in BOOLEAN
    BY <1>1, <1>4 DEF Sound
  <2> HIDE DEF early
  <2> QED
    BY <1>2, <2>1, <2>2, CompleteQuiet
<1> QED
  BY <1>3, <1>4

LEMMA HandleOpQuiet ==
    ASSUME IInv, NEW r \in Requests, HandleOp(r)
    PROVE  \E q, s : Quiet(r, q, s)
<1> DEFINE ec == IF req[r].res = "ok" /\ req[r].cancelled THEN "aborted" ELSE req[r].res
<1>1. req[r] \in Asked /\ Sound(req[r], sock[r])
  BY Fields DEF IInv, AllSound
<1>2. req[r].at = "idle" /\ req[r].res \in Outcome /\ client = "RequestOp"
      /\ UNCHANGED <<client, server>>
  BY <1>1 DEF HandleOp, Rest, Asked
<1>3. user.cancelling # r
  BY <1>2 DEF IInv, CancelInv
<1>4. CASE ec = "ok" /\ req[r].op # "read"
  BY <1>2, <1>4, ProceedQuiet DEF HandleOp
<1>5. CASE ~(ec = "ok" /\ req[r].op # "read")
  <2>1. Complete(r, [req[r] EXCEPT !.at = "callback", !.ec = ec])
    BY <1>5 DEF HandleOp
  <2>2. [req[r] EXCEPT !.at = "callback", !.ec = ec]
         = [req[r] EXCEPT !.at = "callback", !.ec = ec, !.locked = req[r].locked]
    BY <1>1 DEF Asked
  <2>3. /\ ec = "ok" => sock[r].reply
        /\ ec = "aborted" => req[r].cancelled
        /\ ec \in Outcome /\ req[r].locked \in BOOLEAN
    BY <1>1, <1>2, <1>5 DEF Sound, Outcome, Asked
  <2>4. Complete(r, [req[r] EXCEPT !.at = "callback", !.ec = ec, !.locked = req[r].locked])
    BY <2>1, <2>2
  <2> HIDE DEF ec
  <2> QED
    BY <1>2, <1>3, <2>3, <2>4, CompleteQuiet
<1> QED
  BY <1>4, <1>5

LEMMA EraseQuiet ==
    ASSUME IInv, NEW r \in Requests, Erase(r)
    PROVE  \E q, s : Quiet(r, q, s)
<1> DEFINE q == [req[r] EXCEPT !.at = "callback"]
<1>1. req[r] \in Asked /\ sock[r] \in Socket /\ Sound(req[r], sock[r])
  BY Fields DEF IInv, AllSound
<1>2. req' = [req EXCEPT ![r] = q] /\ sock' = [sock EXCEPT ![r] = sock[r]]
  BY DEF Erase, IInv, TypeOK
<1>3. /\ q \in Asked /\ q.at = "callback" /\ req[r].at = "complete"
      /\ q.op = req[r].op /\ q.res = req[r].res /\ q.posted = req[r].posted /\ q.told = req[r].told
      /\ q.cancelled = req[r].cancelled /\ q.ec = req[r].ec /\ UNCHANGED <<client, server>>
  BY <1>1 DEF Asked, Erase, Rest
<1>4. user.cancelling # r
  BY RequestsAssumption DEF Erase, SessionsFree
<1> HIDE DEF q
<1>5. Sound(q, sock[r])
  BY <1>1, <1>3 DEF Sound
<1>6. Quiet(r, q, sock[r])
  BY <1>1, <1>2, <1>3, <1>4, <1>5 DEF Quiet, Local, Move, Waiting, InMap
<1> QED
  BY <1>6

LEMMA DoCancelQuiet ==
    ASSUME IInv, NEW r \in Requests, DoCancel(r)
    PROVE  \E q, s : Quiet(r, q, s)
<1> DEFINE q == [Aborted(req[r]) EXCEPT !.posted = FALSE]
<1>1. req[r] \in Asked /\ sock[r] \in Socket /\ Sound(req[r], sock[r])
  BY Fields DEF IInv, AllSound
<1>2. req' = [req EXCEPT ![r] = q] /\ sock' = [sock EXCEPT ![r] = sock[r]]
  BY DEF DoCancel, IInv, TypeOK
<1>3. req[r].cancelled /\ req[r].at # "callback" /\ UNCHANGED <<client, server>>
  BY <1>1 DEF DoCancel, Sound, Rest
<1>4. /\ q \in Asked /\ q.at = req[r].at /\ q.op = req[r].op /\ q.ec = req[r].ec
      /\ q.told = req[r].told /\ q.cancelled = req[r].cancelled /\ q.locked = req[r].locked
      /\ q.res \in {req[r].res, "aborted"} /\ ~q.posted
      /\ req[r].res # "none" => q.res = req[r].res
  BY <1>1 DEF Asked, Outcome, Aborted
<1>5. user.cancelling = r => q.at \in InMap
  BY <1>4 DEF IInv, CancelInv
<1> HIDE DEF q
<1>6. Sound(q, sock[r]) /\ (Waiting(q) => Waiting(req[r]))
  BY <1>1, <1>3, <1>4 DEF Sound, Waiting
<1>7. req[r].at # "new"
  BY <1>1 DEF DoCancel, Sound
<1>8. Quiet(r, q, sock[r])
  BY <1>1, <1>2, <1>3, <1>4, <1>5, <1>6, <1>7 DEF Quiet, Local, Move
<1> QED
  BY <1>8

LEMMA InsertLocal ==
    ASSUME IInv, NEW r \in Requests, Insert(r)
    PROVE  \E q : /\ Local(r, q, sock[r]) /\ req[r].at = "new" /\ q.at = "start"
                  /\ q.told = req[r].told /\ q.cancelled = req[r].cancelled
<1> DEFINE q == [req[r] EXCEPT !.at = "start"]
<1>1. req[r] \in Asked /\ sock[r] \in Socket /\ Sound(req[r], sock[r])
  BY Fields DEF IInv, AllSound
<1>2. req' = [req EXCEPT ![r] = q] /\ sock' = [sock EXCEPT ![r] = sock[r]]
  BY DEF Insert, IInv, TypeOK
<1>3. /\ q \in Asked /\ q.at = "start" /\ req[r].at = "new" /\ UNCHANGED <<client, server>>
      /\ q.op = req[r].op /\ q.res = req[r].res /\ q.posted = req[r].posted
      /\ q.told = req[r].told /\ q.cancelled = req[r].cancelled
  BY <1>1 DEF Asked, Insert, Rest
<1> HIDE DEF q
<1>4. Sound(q, sock[r])
  BY <1>1, <1>3 DEF Sound
<1>5. Local(r, q, sock[r])
  BY <1>1, <1>2, <1>3, <1>4 DEF Local, Move, Waiting, InMap
<1> QED
  BY <1>3, <1>5

LEMMA CancelLockedLocal ==
    ASSUME IInv, NEW r \in Requests, CancelLocked(r)
    PROVE  \E q : /\ Local(r, q, sock[r]) /\ req[r].at # "new"
                  /\ q.told = req[r].told /\ q.cancelled
<1> DEFINE q == [Aborted(req[r]) EXCEPT !.cancelled = TRUE]
<1>1. req[r] \in Asked /\ sock[r] \in Socket /\ Sound(req[r], sock[r])
  BY Fields DEF IInv, AllSound
<1>2. req' = [req EXCEPT ![r] = q] /\ sock' = [sock EXCEPT ![r] = sock[r]]
  BY DEF CancelLocked, IInv, TypeOK
<1>3. req[r].at \in InMap \ {"new"} /\ UNCHANGED <<client, server>>
  BY DEF CancelLocked, IInv, CancelInv, Rest, InMap
<1>4. /\ q \in Asked /\ q.at = req[r].at /\ q.op = req[r].op /\ q.ec = req[r].ec
      /\ q.told = req[r].told /\ q.cancelled /\ q.locked = req[r].locked
      /\ q.res \in {req[r].res, "aborted"}
      /\ req[r].res # "none" => q.res = req[r].res
  BY <1>1 DEF Asked, Outcome, Aborted
<1> HIDE DEF q
<1>5. Sound(q, sock[r]) /\ (Waiting(q) => Waiting(req[r]))
  BY <1>1, <1>3, <1>4 DEF Sound, Waiting, InMap
<1>6. Local(r, q, sock[r])
  BY <1>1, <1>2, <1>3, <1>4, <1>5 DEF Local, Move
<1> QED
  BY <1>3, <1>4, <1>6

LEMMA CancelOpLocal ==
    ASSUME IInv, NEW r \in Requests, CancelOp(r), Known(r)
    PROVE  \E q : /\ Local(r, q, sock[r]) /\ req[r].at # "new"
                  /\ q.told = req[r].told /\ q.cancelled
<1> DEFINE q == [req[r] EXCEPT !.cancelled = TRUE, !.posted = TRUE]
<1>1. req[r] \in Asked /\ sock[r] \in Socket /\ Sound(req[r], sock[r])
  BY Fields DEF IInv, AllSound
<1>2. req' = [req EXCEPT ![r] = q] /\ sock' = [sock EXCEPT ![r] = sock[r]]
  BY DEF CancelOp, IInv, TypeOK
<1>3. /\ req[r].at # "new" /\ client = "RequestOp" /\ UNCHANGED <<client, server>>
      /\ user.cancelling # r
  BY DEF CancelOp, IInv, CancelInv, Rest
<1>4. /\ q \in Asked /\ q.at = req[r].at /\ q.op = req[r].op /\ q.ec = req[r].ec
      /\ q.told = req[r].told /\ q.cancelled /\ q.locked = req[r].locked /\ q.res = req[r].res
  BY <1>1 DEF Asked
<1> HIDE DEF q
<1>5. Sound(q, sock[r]) /\ (Waiting(q) => Waiting(req[r]))
  BY <1>1, <1>3, <1>4 DEF Sound, Waiting
<1>6. Local(r, q, sock[r])
  BY <1>1, <1>2, <1>3, <1>4, <1>5 DEF Local, Move
<1> QED
  BY <1>3, <1>4, <1>6

\* The callback is called for the first time, with what really happened.
LEMMA TellLocal ==
    ASSUME IInv, NEW r \in Requests, Tell(r)
    PROVE  \E q, o : /\ Local(r, q, sock[r]) /\ req[r].at # "new"
                     /\ q.cancelled = req[r].cancelled
                     /\ req[r].told = <<>> /\ q.told = <<o>> /\ o \in Outcome
                     /\ o = "ok" => sock[r].reply
                     /\ o = "aborted" => req[r].cancelled
<1> DEFINE o == IF client = "AsyncTCPClient" /\ req[r].ec = "ok" /\ req[r].cancelled
                THEN "aborted" ELSE req[r].ec
           q == [req[r] EXCEPT !.at = "done", !.locked = FALSE, !.told = Append(req[r].told, o)]
<1>1. req[r] \in Asked /\ sock[r] \in Socket /\ Sound(req[r], sock[r])
  BY Fields DEF IInv, AllSound
<1>2. req' = [req EXCEPT ![r] = q] /\ sock' = [sock EXCEPT ![r] = sock[r]]
  BY DEF Tell, IInv, TypeOK
<1>3. /\ req[r].at = "callback" /\ UNCHANGED <<client, server>> /\ req[r].told = <<>>
  BY <1>1 DEF Tell, Rest, Sound
<1>4. o \in Outcome /\ (o = "aborted" => req[r].cancelled) /\ (o = "ok" => sock[r].reply)
      /\ (client = "AsyncTCPClient" /\ req[r].cancelled => o # "ok")
  BY <1>1, <1>3 DEF Sound, Asked, Outcome
<1> HIDE DEF o
<1>5. Append(req[r].told, o) = <<o>> /\ <<o>> \in Seq(Outcome)
  BY <1>3, <1>4, AppendToNone
<1>6. /\ q \in Asked /\ q.at = "done" /\ q.op = req[r].op /\ q.res = req[r].res
      /\ q.posted = req[r].posted /\ q.cancelled = req[r].cancelled /\ q.told = <<o>>
  BY <1>1, <1>5 DEF Asked
<1>7. user.cancelling # r
  BY <1>3 DEF IInv, CancelInv, InMap
<1> HIDE DEF q
<1>8. o \in {"error", "aborted"} => q.told \in {<<>>, <<"error">>, <<"aborted">>}
  BY <1>6
<1>9. Sound(q, sock[r])
  BY <1>1, <1>3, <1>4, <1>6, <1>8 DEF Sound, Outcome
<1>10. Local(r, q, sock[r])
  BY <1>1, <1>2, <1>3, <1>6, <1>7, <1>9 DEF Local, Move, Waiting
<1> QED
  BY <1>3, <1>4, <1>6, <1>10

-----------------------------------------------------------------------------
(* What TCP does for a request. *)

\* An operation ends with an outcome; a read that ends well has a reply.
LEMMA EndedQuiet ==
    ASSUME IInv, NEW r \in Requests, NEW how \in Outcome, req[r].res = "none",
           req[r].op # "none", Ended(r, how),
           req[r].op = "read" /\ how = "ok" => sock[r].reply, how # "aborted",
           NEW s \in Socket, sock' = [sock EXCEPT ![r] = s],
           s.svc = sock[r].svc, s.reply = sock[r].reply, UNCHANGED <<client, server>>
    PROVE  \E q : Quiet(r, q, s) /\ ~Waiting(q)
<1> DEFINE q == [req[r] EXCEPT !.res = how]
<1>1. req[r] \in Asked /\ sock[r] \in Socket /\ Sound(req[r], sock[r])
  BY Fields DEF IInv, AllSound
<1>2. req' = [req EXCEPT ![r] = q]
  BY DEF Ended
<1>3. req[r].at = "idle"
  BY <1>1 DEF Sound
<1>4. /\ q \in Asked /\ q.at = req[r].at /\ q.op = req[r].op /\ q.ec = req[r].ec
      /\ q.told = req[r].told /\ q.cancelled = req[r].cancelled /\ q.locked = req[r].locked
      /\ q.posted = req[r].posted /\ q.res = how /\ how # "none"
  BY <1>1 DEF Asked, Outcome
<1> HIDE DEF q
<1>5. Sound(q, s) /\ ~Waiting(q)
  BY <1>1, <1>3, <1>4 DEF Sound, Waiting
<1>6. Quiet(r, q, s)
  BY <1>2, <1>3, <1>4, <1>5 DEF Quiet, Local, Move, InMap
<1> QED
  BY <1>5, <1>6

LEMMA ReadDoneQuiet ==
    ASSUME IInv, NEW r \in Requests, ReadDone(r)
    PROVE  \E q, s : Quiet(r, q, s)
<1> DEFINE how == IF sock[r].reply THEN "ok" ELSE "error"
<1>1. how \in Outcome /\ (how = "ok" => sock[r].reply) /\ how # "aborted"
  BY DEF Outcome
<1>2. sock[r] \in Socket /\ sock' = [sock EXCEPT ![r] = sock[r]]
  BY DEF ReadDone, IInv, TypeOK
<1>3. Ended(r, how) /\ req[r].op = "read" /\ req[r].res = "none"
      /\ UNCHANGED <<client, server>>
  BY DEF ReadDone, Outstanding
<1> HIDE DEF how
<1> QED
  BY <1>1, <1>2, <1>3, EndedQuiet

LEMMA WriteDoneQuiet ==
    ASSUME IInv, NEW r \in Requests, WriteDone(r)
    PROVE  \E q, s : Quiet(r, q, s)
<1>1. req[r].op = "write" /\ req[r].res = "none" /\ UNCHANGED <<client, server>>
  BY DEF WriteDone, Outstanding
<1>2. sock[r] \in Socket /\ sock \in [Requests -> Socket]
  BY DEF IInv, TypeOK
<1>3. CASE Ended(r, "ok")
        /\ sock' = [sock EXCEPT ![r].sent = IF client = "RequestOp" THEN "word" ELSE "line"]
  <2> DEFINE w == IF client = "RequestOp" THEN "word" ELSE "line"
             s == [sock[r] EXCEPT !.sent = w]
  <2>1. w \in {"word", "line"} /\ sock' = [sock EXCEPT ![r] = s]
    BY <1>3
  <2> HIDE DEF w
  <2>2. s \in Socket /\ s.svc = sock[r].svc /\ s.reply = sock[r].reply
    BY <1>2, <2>1 DEF Socket
  <2> HIDE DEF s
  <2>3. "ok" \in Outcome
    BY DEF Outcome
  <2> QED
    BY <1>1, <1>3, <2>1, <2>2, <2>3, EndedQuiet
<1>4. CASE Ended(r, "error") /\ UNCHANGED sock
  <2>1. sock' = [sock EXCEPT ![r] = sock[r]] /\ "error" \in Outcome
    BY <1>2, <1>4 DEF Outcome
  <2> QED
    BY <1>1, <1>2, <1>4, <2>1, EndedQuiet
<1> QED
  BY <1>3, <1>4 DEF WriteDone

LEMMA ConnectDoneQuiet ==
    ASSUME IInv, NEW r \in Requests, ConnectDone(r)
    PROVE  \E q : Quiet(r, q, sock[r]) /\ ~Waiting(q) /\ Waiting(req[r])
<1>1. sock[r] \in Socket /\ sock' = [sock EXCEPT ![r] = sock[r]]
  BY DEF ConnectDone, IInv, TypeOK
<1>2. /\ req[r].op = "connect" /\ req[r].res = "none" /\ UNCHANGED <<client, server>>
      /\ Ended(r, "ok") \/ Ended(r, "error")
  BY DEF ConnectDone, Outstanding
<1>3. "ok" \in Outcome /\ "error" \in Outcome
  BY DEF Outcome
<1>4. Waiting(req[r])
  BY <1>2 DEF Waiting
<1> QED
  BY <1>1, <1>2, <1>3, <1>4, EndedQuiet

-----------------------------------------------------------------------------
(* Those steps and the parts of the invariant. *)

LEMMA LocalQueue ==
    ASSUME IInv, NEW r \in Requests, NEW q, NEW s, Local(r, q, s), UNCHANGED <<backlog, host>>
    PROVE  QueueInv'
<1> USE DEF Local
<1>1. /\ req'[r] = q /\ sock'[r] = s
      /\ \A o \in Requests \ {r} : req'[o] = req[o] /\ sock'[o] = sock[o]
  BY MoveType DEF IInv
<1>2. \A o \in Requests : /\ sock'[o].svc = sock[o].svc
                          /\ Waiting(req'[o]) => Waiting(req[o])
                          /\ req'[o].at = "new" => req[o].at = "new"
  BY <1>1
<1>3. \A i \in 1..Len(backlog) : backlog[i] \in Requests
  BY DEF IInv, TypeOK
<1> QED
  BY <1>2, <1>3 DEF IInv, QueueInv, Waiting

LEMMA LocalCancel ==
    ASSUME IInv, NEW r \in Requests, NEW q, NEW s, Local(r, q, s), UNCHANGED user,
           q.cancelled = req[r].cancelled
    PROVE  CancelInv'
<1>1. /\ req'[r] = q /\ UNCHANGED <<client, server>>
      /\ \A o \in Requests \ {r} : req'[o] = req[o]
  BY MoveType DEF IInv, Local, Move
<1>2. user.cancelling = r => q.at \in InMap
  BY DEF Local
<1> QED
  BY <1>1, <1>2 DEF IInv, CancelInv

LEMMA LocalKeeps ==
    ASSUME IInv, NEW r \in Requests, NEW q, NEW s, Local(r, q, s), UNCHANGED user,
           UNCHANGED <<backlog, host>>, q.cancelled = req[r].cancelled
    PROVE  IInv'
<1>1. TypeOK'
  BY MoveType, TypesSplit DEF IInv, Local, HostType, UserType, TypeOK
<1>2. AllSound'
  BY MoveSound DEF IInv, Local
<1> QED
  BY <1>1, <1>2, LocalQueue, LocalCancel DEF IInv

LEMMA IoKeeps ==
    ASSUME IInv, NEW r \in Requests,
           Insert(r) \/ Connect(r) \/ Io(r) \/ DoCancel(r) \/ ReadDone(r) \/ WriteDone(r)
    PROVE  IInv'
<1>1. UNCHANGED <<backlog, host, user>>
  BY DEF Insert, Connect, Io, Handle, HandleOp, Erase, Tell, DoCancel, ReadDone, WriteDone, Rest
<1>2. ASSUME NEW q, NEW s, Quiet(r, q, s) PROVE IInv'
  BY <1>1, <1>2, LocalKeeps DEF Quiet
<1>3. CASE Insert(r)
  BY <1>1, <1>3, InsertLocal, LocalKeeps
<1>4. CASE Tell(r)
  BY <1>1, <1>4, TellLocal, LocalKeeps
<1> QED
  BY <1>2, <1>3, <1>4, ConnectQuiet, HandleQuiet, HandleOpQuiet, EraseQuiet, DoCancelQuiet,
     ReadDoneQuiet, WriteDoneQuiet DEF Io

LEMMA ConnectDoneKeeps ==
    ASSUME IInv, NEW r \in Requests, ConnectDone(r)
    PROVE  IInv'
<1>1. PICK q : Quiet(r, q, sock[r]) /\ ~Waiting(q) /\ Waiting(req[r])
  BY ConnectDoneQuiet
<1>2. UNCHANGED <<host, user>> /\ Local(r, q, sock[r]) /\ q.cancelled = req[r].cancelled
  BY <1>1 DEF Quiet, ConnectDone
<1>3. CASE UNCHANGED backlog
  BY <1>2, <1>3, LocalKeeps
<1>4. CASE host.listening /\ backlog' = Append(backlog, r)
  <2>1. backlog \in Seq(Requests) /\ backlog' \in Seq(Requests)
    BY <1>4 DEF IInv, TypeOK
  <2>2. /\ Len(backlog') = Len(backlog) + 1 /\ Len(backlog) \in Nat
        /\ \A i \in 1..Len(backlog) : backlog'[i] = backlog[i] /\ backlog[i] \in Requests
        /\ backlog'[Len(backlog) + 1] = r
    BY <1>4, <2>1
  <2>3. /\ sock[r].svc = "none" /\ \A i \in 1..Len(backlog) : backlog[i] # r
    BY <1>1, <1>4 DEF IInv, QueueInv
  <2>4. /\ req'[r] = q /\ UNCHANGED sock /\ q.at # "new"
        /\ \A o \in Requests \ {r} : req'[o] = req[o]
    BY <1>1, MoveType DEF IInv, Quiet, Local, Waiting, Move, ConnectDone
  <2>5. \A o \in Requests : Waiting(req'[o]) => o # r /\ Waiting(req[o])
    BY <1>1, <2>4
  <2>6. \A i \in 1..Len(backlog') : i = Len(backlog) + 1 \/ i \in 1..Len(backlog)
    BY <2>2
  <2>7. ASSUME NEW o \in Requests, host.listening, Waiting(req'[o])
        PROVE  sock[o].svc = "none" /\ \A i \in 1..Len(backlog') : backlog'[i] # o
    <3>1. o # r /\ Waiting(req[o])
      BY <2>5, <2>7
    <3>2. sock[o].svc = "none" /\ \A i \in 1..Len(backlog) : backlog[i] # o
      BY <2>7, <3>1 DEF IInv, QueueInv
    <3>3. ASSUME NEW i \in 1..Len(backlog') PROVE backlog'[i] # o
      <4>1. CASE i = Len(backlog) + 1
        BY <2>2, <3>1, <4>1
      <4>2. CASE i \in 1..Len(backlog)
        BY <2>2, <3>2, <4>2
      <4> QED
        BY <2>6, <4>1, <4>2
    <3> QED
      BY <3>2, <3>3
  <2>8. ASSUME NEW i \in 1..Len(backlog')
        PROVE  sock[backlog'[i]].svc = "none" /\ req'[backlog'[i]].at # "new"
    <3>1. CASE i = Len(backlog) + 1
      <4>1. backlog'[i] = r
        BY <2>2, <3>1
      <4> QED
        BY <2>3, <2>4, <4>1
    <3>2. CASE i \in 1..Len(backlog)
      <4>1. backlog'[i] = backlog[i] /\ backlog[i] \in Requests \ {r}
        BY <2>2, <2>3, <3>2
      <4> QED
        BY <2>4, <3>2, <4>1 DEF IInv, QueueInv
    <3> QED
      BY <2>6, <3>1, <3>2
  <2>9. \A i, j \in 1..Len(backlog') : backlog'[i] = backlog'[j] => i = j
    BY <2>2, <2>3, <2>6 DEF IInv, QueueInv
  <2>10. QueueInv'
    BY <1>2, <2>4, <2>7, <2>8, <2>9 DEF IInv, QueueInv, Waiting
  <2>11. TypeOK'
    BY <1>2, <2>1, MoveType, TypesSplit DEF IInv, Local, HostType, UserType, TypeOK
  <2>12. AllSound'
    BY <1>2, MoveSound DEF IInv, Local
  <2>13. CancelInv'
    BY <1>2, LocalCancel
  <2> QED
    BY <2>10, <2>11, <2>12, <2>13 DEF IInv
<1> QED
  BY <1>3, <1>4 DEF ConnectDone

\* The steps of cancelRequest.
LEMMA CancelKeeps ==
    ASSUME IInv, NEW r \in Requests, CancelRequest(r) \/ CancelOp(r) \/ CancelLocked(r)
    PROVE  IInv'
<1>1. UNCHANGED <<backlog, host, sock, client, server>>
  BY DEF CancelRequest, CancelOp, CancelLocked, Rest
<1>2. user \in UserType /\ req \in [Requests -> Asked]
  BY TypesSplit DEF IInv
<1>3. user' \in UserType
  <2>1. CASE CancelRequest(r)
    <3> DEFINE n == IF Known(r) THEN r ELSE 0
               k == [user.cancels EXCEPT ![r] = @ + 1]
    <3>1. user' = [user EXCEPT !.cancels = k, !.cancelling = n]
      BY <2>1 DEF CancelRequest
    <3>2. k \in [Requests -> Nat] /\ n \in Requests \cup {0}
      BY <1>2 DEF UserType
    <3> HIDE DEF n, k
    <3> QED
      BY <1>2, <3>1, <3>2 DEF UserType
  <2>2. CASE CancelOp(r) \/ CancelLocked(r)
    BY <1>2, <2>2 DEF CancelOp, CancelLocked, UserType
  <2> QED
    BY <2>1, <2>2
<1>4. CASE UNCHANGED req
  <2>1. /\ \A o \in Requests : user'.cancels[o] >= user.cancels[o]
        /\ \A o \in Requests : user'.cancelling = o /\ user.cancelling # o =>
              user'.cancels[o] = user.cancels[o] + 1 /\ client = "AsyncTCPClient"
              /\ req[o].at \in InMap
    <3>1. CASE CancelRequest(r)
      BY <1>2, <3>1, RequestsAssumption DEF CancelRequest, UserType, Known, InMap
    <3>2. CASE CancelOp(r)
      BY <1>2, <3>2 DEF CancelOp, UserType
    <3>3. CASE CancelLocked(r)
      BY <1>2, <3>3, RequestsAssumption DEF CancelLocked, UserType
    <3> QED
      BY <3>1, <3>2, <3>3
  <2>2. \A o \in Requests : user.cancels[o] \in Nat /\ user'.cancels[o] \in Nat
    BY <1>2, <1>3 DEF UserType
  <2>3. CancelInv'
    BY <1>1, <1>4, <2>1, <2>2 DEF IInv, CancelInv
  <2>4. TypeOK'
    BY <1>1, <1>3, <1>4, TypesSplit DEF IInv, TypeOK, UserType
  <2>5. AllSound' /\ QueueInv'
    BY <1>1, <1>4 DEF IInv, AllSound, Sound, QueueInv, Waiting
  <2> QED
    BY <2>3, <2>4, <2>5 DEF IInv
<1>5. ASSUME NEW q, Local(r, q, sock[r]), q.cancelled, user.cancelling = r \/ CancelOp(r)
      PROVE  IInv'
  <2>1. /\ req'[r] = q /\ \A o \in Requests \ {r} : req'[o] = req[o]
    BY <1>5, MoveType DEF IInv, Local
  <2>2. /\ user'.cancelling # r
        /\ user'.cancels[r] > 0
        /\ \A o \in Requests \ {r} : user'.cancels[o] = user.cancels[o]
              /\ (user'.cancelling = o => user.cancelling = o)
    <3>1. CASE CancelOp(r)
      BY <1>2, <3>1 DEF CancelOp, UserType, IInv, CancelInv
    <3>2. CASE CancelLocked(r)
      BY <1>2, <3>2, RequestsAssumption DEF CancelLocked, UserType, IInv, CancelInv
    <3>3. CASE CancelRequest(r)
      BY <1>5, <3>3, RequestsAssumption DEF CancelRequest, CancelOp, SessionsFree
    <3> QED
      BY <3>1, <3>2, <3>3
  <2>3. CancelInv'
    BY <1>1, <2>1, <2>2 DEF IInv, CancelInv
  <2>4. TypeOK'
    BY <1>1, <1>3, <1>5, MoveType, TypesSplit DEF IInv, Local, TypeOK, UserType
  <2>5. AllSound' /\ QueueInv'
    BY <1>1, <1>5, MoveSound, LocalQueue DEF IInv, Local
  <2> QED
    BY <2>3, <2>4, <2>5 DEF IInv
<1>6. CASE CancelRequest(r)
  BY <1>4, <1>6 DEF CancelRequest
<1>7. CASE CancelOp(r)
  BY <1>4, <1>5, <1>7, CancelOpLocal DEF CancelOp
<1>8. CASE CancelLocked(r)
  BY <1>5, <1>8, CancelLockedLocal DEF CancelLocked
<1> QED
  BY <1>6, <1>7, <1>8

LEMMA CloseKeeps ==
    ASSUME IInv, Close \/ Join
    PROVE  IInv'
<1>1. UNCHANGED <<backlog, host, sock, client, server, req>>
  BY DEF Close, Join, Rest
<1>2. user \in UserType
  BY TypesSplit DEF IInv
<1>3. user' \in UserType /\ user'.cancels = user.cancels /\ user'.cancelling = user.cancelling
  BY <1>2 DEF Close, Join, UserType
<1> QED
  BY <1>1, <1>3, TypesSplit DEF IInv, TypeOK, UserType, AllSound, Sound, CancelInv, QueueInv, Waiting

-----------------------------------------------------------------------------
(* The server. *)

\* A step of the server writes at most one reply, to a request that was made.
Serves ==
    /\ UNCHANGED <<req, user, client, server>>
    /\ \/ \A o \in Requests : sock'[o].reply = sock[o].reply
       \/ \E r \in Requests : /\ req[r].at # "new" /\ sock'[r].reply
                              /\ \A o \in Requests \ {r} : sock'[o].reply = sock[o].reply

\* Of a connection only the service and the reply concern the request.
LEMMA SoundSame ==
    ASSUME NEW q, NEW s, NEW t, Sound(q, s), t.reply = s.reply, t.svc \in {s.svc, "done"}
    PROVE  Sound(q, t)
  BY DEF Sound

\* A service goes on or ends.
LEMMA ServiceKeeps ==
    ASSUME IInv, NEW r \in Requests, NEW s \in Socket,
           sock' = [sock EXCEPT ![r] = s], UNCHANGED backlog, Keep,
           sock[r].svc \in {"read", "work", "write"},
           s.svc \in {"work", "write", "done"}, s.svc = "work" => ~s.reply,
           sock[r].reply => s.reply,
           s.svc = "work" => server # "daytime" /\ sock[r].svc = "read",
           \/ UNCHANGED host
           \/ host' = [host EXCEPT !.loop = IF @ = "serve" THEN "check" ELSE @]
    PROVE  IInv' /\ Serves
<1>1. sock \in [Requests -> Socket] /\ host \in HostType
  BY TypesSplit DEF IInv
<1>2. /\ sock' \in [Requests -> Socket] /\ sock'[r] = s
      /\ \A o \in Requests \ {r} : sock'[o] = sock[o]
  BY <1>1
<1>3. /\ host' \in HostType /\ host'.listening = host.listening
      /\ host'.loop # "end" => host.loop # "end"
  BY <1>1 DEF HostType
<1>4. UNCHANGED <<client, server, req, user, backlog>>
  BY DEF Keep
<1>5. Sound(req[r], sock[r]) /\ s.reply \in BOOLEAN
  BY DEF IInv, AllSound, Socket
<1>6. req[r].at # "new" /\ Sound(req[r], s)
  BY <1>5 DEF Sound
<1>7. AllSound'
  <2> SUFFICES ASSUME NEW o \in Requests PROVE Sound(req[o], sock[o])'
    BY DEF AllSound
  <2>1. Sound(req[o], sock'[o])
    BY <1>2, <1>6 DEF IInv, AllSound
  <2> QED
    BY <1>4, <2>1 DEF Sound
<1>8. TypeOK'
  BY <1>2, <1>3, <1>4, TypesSplit DEF IInv, TypeOK, HostType
<1>9. QueueInv'
  BY <1>2, <1>3, <1>4 DEF IInv, QueueInv, Waiting
<1>10. CancelInv'
  BY <1>4 DEF IInv, CancelInv
<1>11. Serves
  <2>1. CASE s.reply = sock[r].reply
    BY <1>2, <1>4, <2>1 DEF Serves
  <2>2. CASE s.reply # sock[r].reply
    <3>1. s.reply
      BY <1>1, <1>5, <2>2 DEF Socket
    <3> QED
      BY <1>2, <1>4, <1>6, <3>1 DEF Serves
  <2> QED
    BY <2>1, <2>2
<1> QED
  BY <1>7, <1>8, <1>9, <1>10, <1>11 DEF IInv

LEMMA ServiceStep ==
    ASSUME IInv, NEW r \in Requests, Service(r)
    PROVE  IInv' /\ Serves
<1>1. sock[r] \in Socket /\ Sound(req[r], sock[r])
  BY Fields DEF IInv, AllSound
<1>2. ASSUME NEW replied \in BOOLEAN, sock[r].svc \in {"read", "work", "write"},
             sock[r].reply => replied, Finish(r, replied)
      PROVE  IInv' /\ Serves
  <2> DEFINE s == [sock[r] EXCEPT !.svc = "done", !.closed = TRUE, !.reply = replied]
  <2>1. sock' = [sock EXCEPT ![r] = s] /\ UNCHANGED backlog /\ Keep
        /\ host' = [host EXCEPT !.loop = IF @ = "serve" THEN "check" ELSE @]
    BY <1>2 DEF Finish
  <2>2. s \in Socket /\ s.svc = "done" /\ s.reply = replied
    BY <1>1 DEF Socket
  <2> HIDE DEF s
  <2> QED
    BY <1>2, <2>1, <2>2, ServiceKeeps
<1>3. CASE ReadFails(r) \/ OnResponseSent(r)
  BY <1>1, <1>2, <1>3 DEF ReadFails, OnResponseSent, Socket
<1>4. CASE sock[r].svc = "work" /\ \E replied \in Replies(r) : Finish(r, replied)
  <2>1. ~sock[r].reply /\ Replies(r) \subseteq BOOLEAN
    BY <1>1, <1>4 DEF Sound, Replies
  <2> QED
    BY <1>2, <1>4, <2>1
<1>5. CASE GetLine(r) /\ server # "daytime"
  <2> DEFINE s == [sock[r] EXCEPT !.svc = "work"]
  <2>1. sock' = [sock EXCEPT ![r] = s] /\ sock[r].svc = "read"
        /\ UNCHANGED <<host, backlog>> /\ Keep
    BY <1>5 DEF GetLine
  <2>2. s \in Socket /\ s.svc = "work" /\ s.reply = sock[r].reply
    BY <1>1 DEF Socket
  <2>3. ~sock[r].reply
    BY <1>1, <1>5, <2>1 DEF Sound
  <2> HIDE DEF s
  <2> QED
    BY <1>5, <2>1, <2>2, <2>3, ServiceKeeps
<1>6. CASE StartWrite(r)
  <2>1. PICK replied \in BOOLEAN : sock' = [sock EXCEPT ![r].svc = "write", ![r].reply = replied]
    BY <1>6 DEF StartWrite, Replies
  <2> DEFINE s == [sock[r] EXCEPT !.svc = "write", !.reply = replied]
  <2>2. sock' = [sock EXCEPT ![r] = s] /\ sock[r].svc = "work"
        /\ UNCHANGED <<host, backlog>> /\ Keep
    BY <1>6, <2>1 DEF StartWrite
  <2>3. s \in Socket /\ s.svc = "write" /\ s.reply = replied
    BY <1>1 DEF Socket
  <2>4. ~sock[r].reply
    BY <1>1, <2>2 DEF Sound
  <2> HIDE DEF s
  <2> QED
    BY <2>2, <2>3, <2>4, ServiceKeeps
<1> QED
  BY <1>3, <1>4, <1>5, <1>6 DEF Service, IterativeService, ParallelService, AsyncService,
     TMsgService, DaytimeService, HandleClient

\* The loop goes on or ends, with the connections and the backlog given.
LEMMA LoopKeeps ==
    ASSUME IInv, NEW s \in [Requests -> Socket], NEW q \in Seq(Requests),
           NEW next \in {"check", "accept", "serve", "end"}, LoopOn(s, q, next),
           host.loop # "end",
           \A o \in Requests : Sound(req[o], s[o]),
           \A o \in Requests : host.listening /\ Waiting(req[o]) =>
              s[o].svc = "none" /\ \A i \in 1..Len(q) : q[i] # o,
           \A i \in 1..Len(q) : s[q[i]].svc = "none" /\ req[q[i]].at # "new",
           \A i, j \in 1..Len(q) : q[i] = q[j] => i = j
    PROVE  IInv' /\ \A o \in Requests : sock'[o].reply = s[o].reply
<1>1. UNCHANGED <<client, server, req, user>> /\ host.listening
  BY DEF LoopOn, Keep, IInv, QueueInv
<1>2. /\ Reset(s, q) \in [Requests -> Socket]
      /\ \A o \in Requests : Reset(s, q)[o].svc = s[o].svc /\ Reset(s, q)[o].reply = s[o].reply
  <2> DEFINE f(o) == IF \E i \in 1..Len(q) : q[i] = o THEN [s[o] EXCEPT !.closed = TRUE] ELSE s[o]
  <2>1. ASSUME NEW o \in Requests
        PROVE  f(o) \in Socket /\ f(o).svc = s[o].svc /\ f(o).reply = s[o].reply
    <3>1. s[o] \in Socket
      OBVIOUS
    <3>2. [s[o] EXCEPT !.closed = TRUE] \in Socket
          /\ [s[o] EXCEPT !.closed = TRUE].svc = s[o].svc
          /\ [s[o] EXCEPT !.closed = TRUE].reply = s[o].reply
      BY <3>1 DEF Socket
    <3>3. f(o) \in {s[o], [s[o] EXCEPT !.closed = TRUE]}
      BY Zenon
    <3> QED
      BY <3>1, <3>2, <3>3
  <2>2. Reset(s, q) = [o \in Requests |-> f(o)]
    BY DEF Reset
  <2> HIDE DEF f
  <2> QED
    BY <2>1, <2>2
<1>3. /\ sock' \in [Requests -> Socket] /\ backlog' \in Seq(Requests)
      /\ \A o \in Requests : sock'[o].svc = s[o].svc /\ sock'[o].reply = s[o].reply
  BY <1>2 DEF LoopOn
<1>4. host' \in HostType /\ host'.loop = next /\ host'.listening = (next # "end")
  <2> DEFINE l == IF q = backlog \/ host.stop = "no" THEN host.late ELSE host.late + 1
             up == next # "end"
  <2>1. host \in HostType /\ host' = [host EXCEPT !.loop = next, !.listening = up, !.late = l]
    BY TypesSplit DEF IInv, LoopOn
  <2>2. l \in Nat /\ up \in BOOLEAN
    BY <2>1 DEF HostType
  <2> HIDE DEF l, up
  <2>3. host' \in HostType /\ host'.loop = next /\ host'.listening = up
    BY <2>1, <2>2 DEF HostType
  <2> QED
    BY <2>3 DEF up
<1>5. TypeOK'
  BY <1>1, <1>3, <1>4, TypesSplit DEF IInv, TypeOK, HostType
<1>6. AllSound'
  <2> SUFFICES ASSUME NEW o \in Requests PROVE Sound(req[o], sock[o])'
    BY DEF AllSound
  <2>1. Sound(req[o], sock'[o])
    BY <1>3, SoundSame
  <2> QED
    BY <1>1, <2>1 DEF Sound
<1>7. QueueInv'
  <2>1. CASE next = "end"
    <3>1. backlog' = <<>> /\ ~host'.listening /\ host'.loop = "end"
      BY <1>4, <2>1 DEF LoopOn
    <3> QED
      BY <3>1 DEF QueueInv
  <2>2. CASE next # "end"
    <3>1. sock' = s /\ backlog' = q /\ host'.listening
      BY <1>4, <2>2 DEF LoopOn
    <3> QED
      BY <1>1, <3>1 DEF QueueInv, Waiting
  <2> QED
    BY <2>1, <2>2
<1>8. CancelInv'
  BY <1>1 DEF IInv, CancelInv
<1> QED
  BY <1>3, <1>5, <1>6, <1>7, <1>8 DEF IInv

\* Going on without a connection.
LEMMA LoopOnlyStep ==
    ASSUME IInv, NEW next \in {"check", "accept", "serve", "end"},
           LoopOn(sock, backlog, next), host.loop # "end"
    PROVE  IInv' /\ Serves
<1>1. sock \in [Requests -> Socket] /\ backlog \in Seq(Requests)
  BY DEF IInv, TypeOK
<1>2. IInv' /\ \A o \in Requests : sock'[o].reply = sock[o].reply
  BY <1>1, LoopKeeps DEF IInv, AllSound, QueueInv
<1> QED
  BY <1>2 DEF Serves, LoopOn, Keep

\* Taking the oldest connection.
LEMMA TakeStep ==
    ASSUME IInv, NEW next \in {"check", "accept", "serve", "end"}, Take(next)
    PROVE  IInv' /\ Serves
<1> DEFINE h == Head(backlog)
           q == Tail(backlog)
           e == [sock[h] EXCEPT !.svc = "read", !.reply = server = "daytime"]
           s == [sock EXCEPT ![h] = e]
<1>1. backlog \in Seq(Requests) /\ backlog # <<>> /\ sock \in [Requests -> Socket]
  BY DEF IInv, TypeOK, Take
<1>2. /\ h \in Requests /\ q \in Seq(Requests) /\ h = backlog[1]
      /\ Len(backlog) \in Nat /\ Len(backlog) > 0 /\ Len(q) = Len(backlog) - 1
      /\ \A i \in 1..Len(q) : q[i] = backlog[i + 1]
  BY <1>1
<1>3. LoopOn(s, q, next) /\ host.loop # "end"
  BY DEF Take
<1> HIDE DEF h, q
<1>4. sock[h] \in Socket /\ Sound(req[h], sock[h]) /\ sock[h].svc = "none" /\ req[h].at # "new"
  BY <1>1, <1>2 DEF IInv, AllSound, QueueInv
<1>5. e \in Socket /\ e.svc = "read" /\ e.reply = (server = "daytime") /\ ~sock[h].reply
  BY <1>4 DEF Socket, Sound
<1> HIDE DEF e
<1>6. /\ s \in [Requests -> Socket] /\ s[h] = e
      /\ \A o \in Requests \ {h} : s[o] = sock[o]
  BY <1>1, <1>2, <1>5
<1> HIDE DEF s
<1>7. Sound(req[h], e)
  BY <1>4, <1>5 DEF Sound
<1>8. ASSUME NEW o \in Requests PROVE Sound(req[o], s[o])
  BY <1>6, <1>7 DEF IInv, AllSound
<1>9. ASSUME NEW i \in 1..Len(q)
      PROVE  i + 1 \in 1..Len(backlog) /\ q[i] = backlog[i + 1] /\ q[i] \in Requests \ {h}
  <2>1. i + 1 \in 1..Len(backlog) /\ 1 \in 1..Len(backlog) /\ i + 1 # 1
    BY <1>2
  <2>2. backlog[i + 1] # backlog[1]
    BY <2>1 DEF IInv, QueueInv
  <2> QED
    BY <1>2, <2>1, <2>2
<1>10. ASSUME NEW o \in Requests, host.listening, Waiting(req[o])
       PROVE  s[o].svc = "none" /\ \A i \in 1..Len(q) : q[i] # o
  <2>1. sock[o].svc = "none" /\ \A i \in 1..Len(backlog) : backlog[i] # o
    BY <1>10 DEF IInv, QueueInv
  <2>2. o # h
    BY <1>2, <2>1
  <2> QED
    BY <1>6, <1>9, <2>1, <2>2
<1>11. ASSUME NEW i \in 1..Len(q)
       PROVE  s[q[i]].svc = "none" /\ req[q[i]].at # "new"
  <2>1. sock[q[i]].svc = "none" /\ req[q[i]].at # "new"
    BY <1>9 DEF IInv, QueueInv
  <2> QED
    BY <1>6, <1>9, <2>1
<1>12. ASSUME NEW i \in 1..Len(q), NEW j \in 1..Len(q), q[i] = q[j]
       PROVE  i = j
  <2>1. i + 1 = j + 1
    BY <1>9, <1>12 DEF IInv, QueueInv
  <2> QED
    BY <1>2, <2>1
<1>13. IInv' /\ \A o \in Requests : sock'[o].reply = s[o].reply
  BY <1>2, <1>3, <1>6, <1>8, <1>10, <1>11, <1>12, LoopKeeps
<1>14. Serves
  <2>1. \A o \in Requests \ {h} : sock'[o].reply = sock[o].reply
    BY <1>6, <1>13
  <2>2. sock'[h].reply = (server = "daytime") /\ ~sock[h].reply
    BY <1>2, <1>5, <1>6, <1>13
  <2>3. sock[h].reply \in BOOLEAN
    BY <1>4 DEF Socket
  <2>4. UNCHANGED <<req, user, client, server>>
    BY <1>3 DEF LoopOn, Keep
  <2>5. CASE server = "daytime"
    BY <1>2, <1>4, <2>1, <2>2, <2>4, <2>5 DEF Serves
  <2>6. CASE server # "daytime"
    <3>1. sock'[h].reply = sock[h].reply
      BY <2>2, <2>3, <2>6
    <3> QED
      BY <2>1, <2>4, <3>1 DEF Serves
  <2> QED
    BY <2>5, <2>6
<1> QED
  BY <1>13, <1>14

LEMMA EndStep ==
    ASSUME IInv, NEW stop \in {"no", "flag", "ios", "joined"}, ProcessEnds(stop)
    PROVE  IInv' /\ Serves
<1>1. sock \in [Requests -> Socket] /\ host \in HostType
  BY TypesSplit DEF IInv
<1>2. /\ sock' \in [Requests -> Socket]
      /\ \A o \in Requests : sock'[o].svc = "done" /\ sock'[o].reply = sock[o].reply
  BY <1>1 DEF ProcessEnds, Socket
<1>3. host' \in HostType /\ ~host'.listening /\ host'.loop = "end" /\ backlog' = <<>>
      /\ UNCHANGED <<client, server, req, user>>
  BY <1>1 DEF ProcessEnds, HostType, Keep
<1>4. TypeOK'
  BY <1>2, <1>3, TypesSplit DEF IInv, TypeOK, HostType
<1>5. AllSound'
  <2> SUFFICES ASSUME NEW o \in Requests PROVE Sound(req[o], sock[o])'
    BY DEF AllSound
  <2>1. Sound(req[o], sock'[o])
    BY <1>2, SoundSame DEF IInv, AllSound
  <2> QED
    BY <1>3, <2>1 DEF Sound
<1>6. QueueInv'
  BY <1>3 DEF QueueInv
<1>7. CancelInv'
  BY <1>3 DEF IInv, CancelInv
<1> QED
  BY <1>2, <1>3, <1>4, <1>5, <1>6, <1>7 DEF IInv, Serves

\* Only the host's own state changes, and the acceptor does not come back.
LEMMA HostStep ==
    ASSUME IInv, host' \in HostType, host'.listening = host.listening,
           host'.loop # "end" => host.loop # "end", UNCHANGED <<sock, backlog>>, Keep
    PROVE  IInv' /\ Serves
<1>1. UNCHANGED <<client, server, req, user, sock, backlog>>
  BY DEF Keep
<1>2. TypeOK'
  BY <1>1, TypesSplit DEF IInv, TypeOK, HostType
<1> QED
  BY <1>1, <1>2 DEF IInv, AllSound, Sound, QueueInv, Waiting, CancelInv, Serves

LEMMA ServerStep ==
    ASSUME IInv, ServerSide
    PROVE  IInv' /\ Serves
<1>1. host \in HostType
  BY TypesSplit DEF IInv
<1>2. CASE RunLoop
  BY <1>2, LoopOnlyStep DEF RunLoop
<1>3. AfterAccept \in {"accept", "end"}
  BY DEF AfterAccept
<1>4. ASSUME NEW next \in {"accept", "end"}, FailedAccept(next)
      PROVE  IInv' /\ Serves
  BY <1>4, LoopOnlyStep DEF FailedAccept
<1>5. CASE AcceptLoop
  <2>1. CASE Take("accept")
    BY <2>1, TakeStep
  <2>2. CASE host' = [host EXCEPT !.loop = "end"] /\ UNCHANGED <<sock, backlog>> /\ Keep
    BY <1>1, <2>2, HostStep DEF HostType
  <2> QED
    BY <1>5, <2>1, <2>2 DEF AcceptLoop
<1>6. CASE Acceptor
  BY <1>3, <1>4, <1>5, <1>6, TakeStep DEF Acceptor, IterativeAccept, ParallelAccept, OnAccept,
     HandleAccept
<1>7. CASE AcceptThrows
  BY <1>1, <1>7, EndStep DEF AcceptThrows, HostType
<1>8. ASSUME NEW from, NEW to \in {"flag", "ios"}, SetStop(from, to)
      PROVE  IInv' /\ Serves
  BY <1>1, <1>8, HostStep DEF SetStop, HostType
<1>9. CASE SyncStop \/ AsyncStop
  BY <1>8, <1>9, EndStep DEF SyncStop, AsyncStop
<1>10. CASE TMsgEnds
  BY <1>1, <1>10, EndStep DEF TMsgEnds, HostType
<1> QED
  BY <1>2, <1>6, <1>7, <1>9, <1>10 DEF ServerSide

-----------------------------------------------------------------------------
(* Every step. *)

LEMMA IInvInit == Init => IInv
<1> SUFFICES ASSUME Init PROVE IInv
  OBVIOUS
<1>1. Fresh \in Asked /\ NoSock \in Socket
  BY DEF Fresh, NoSock, Asked, Socket, Outcome
<1>2. TypeOK
  BY <1>1 DEF Init, TypeOK, Sync
<1>3. \A r \in Requests : req[r] = Fresh /\ sock[r] = NoSock
  BY DEF Init
<1>4. AllSound
  <2>1. /\ Fresh.at = "new" /\ Fresh.op = "none" /\ Fresh.res = "none" /\ ~Fresh.posted
        /\ Fresh.told = <<>> /\ ~Fresh.cancelled
    BY DEF Fresh
  <2>2. NoSock.svc = "none" /\ ~NoSock.reply
    BY DEF NoSock
  <2>3. Sound(Fresh, NoSock)
    BY <2>1, <2>2 DEF Sound
  <2> QED
    BY <1>3, <2>3 DEF AllSound
<1>5. CancelInv
  BY <1>3, RequestsAssumption DEF CancelInv, Fresh, Init
<1>6. QueueInv
  BY <1>3 DEF QueueInv, NoSock, Init
<1> QED
  BY <1>2, <1>4, <1>5, <1>6 DEF IInv

LEMMA IInvNext == IInv /\ [Next]_vars => IInv'
<1> SUFFICES ASSUME IInv, [Next]_vars PROVE IInv'
  OBVIOUS
<1>1. CASE UNCHANGED vars
  BY <1>1 DEF vars, IInv, TypeOK, AllSound, Sound, CancelInv, QueueInv, Waiting
<1>2. CASE ServerSide
  BY <1>2, ServerStep
<1>3. ASSUME NEW r \in Requests, ClientSide(r) PROVE IInv'
  BY <1>3, IoKeeps, CancelKeeps, CloseKeeps
     DEF ClientSide, User, EmulateLongComputationOp, SendMessage
<1>4. ASSUME NEW r \in Requests, Link(r) \/ Service(r) PROVE IInv'
  BY <1>4, IoKeeps, ConnectDoneKeeps, ServiceStep DEF Link
<1> QED
  BY <1>1, <1>2, <1>3, <1>4 DEF Next

\* Every variable keeps its type, and requests, connections, cancels and the
\* backlog agree, in every reachable state.
THEOREM RpcInvariant == Spec => []IInv
<1> QED
  BY IInvInit, IInvNext, PTL DEF Spec

\* Every variable of the clients, the servers and the connections keeps its
\* type, whichever programs meet.
THEOREM TypeCorrect == Spec => []TypeOK
<1>1. IInv => TypeOK
  BY DEF IInv
<1> QED
  BY <1>1, RpcInvariant, PTL

\* A request of AsyncTCPClient that cancelRequest found is never reported as a
\* success, although the read handler looks at the flag without a lock.
THEOREM CancelledIsNoSuccess == Spec => []CancelledNeverSucceeds
<1>1. IInv => CancelledNeverSucceeds
  BY DEF IInv, AllSound, Sound, CancelledNeverSucceeds
<1> QED
  BY <1>1, RpcInvariant, PTL

\* cancelRequest and a handler wait for each other's lock only if the request
\* was cancelled twice.
THEOREM EmbraceNeedsTwo == Spec => []EmbraceTakesTwo
<1>1. IInv => EmbraceTakesTwo
  BY DEF IInv, AllSound, Sound, CancelInv, EmbraceTakesTwo
<1> QED
  BY <1>1, RpcInvariant, PTL

-----------------------------------------------------------------------------
(* Stopping the server. *)

LEMMA StopInit == Init => StopInv
  BY DEF Init, StopInv, Sync

\* What the loop does with a connection that came late: it does not wait for
\* another.
LEMMA StopLoop ==
    ASSUME TypeOK, StopInv, NEW s, NEW q, NEW next, LoopOn(s, q, next), host.loop = "accept",
           host.stop # "no" => next # "accept"
    PROVE  StopInv'
<1>1. host \in HostType /\ host.late = 0
  BY TypesSplit DEF StopInv, HostType
<1> DEFINE l == IF q = backlog \/ host.stop = "no" THEN host.late ELSE host.late + 1
           up == next # "end"
<1>2. host' = [host EXCEPT !.loop = next, !.listening = up, !.late = l] /\ server' = server
  BY DEF LoopOn, Keep
<1>3. l \in {0, 1} /\ (host.stop = "no" => l = 0)
  BY <1>1
<1> HIDE DEF l, up
<1>4. host'.stop = host.stop /\ host'.late = l /\ host'.loop = next
  BY <1>1, <1>2 DEF HostType
<1> QED
  BY <1>2, <1>3, <1>4 DEF StopInv

LEMMA StopNext == TypeOK /\ StopInv /\ [Next]_vars => StopInv'
<1> SUFFICES ASSUME TypeOK, StopInv, [Next]_vars PROVE StopInv'
  OBVIOUS
<1>1. host \in HostType
  BY TypesSplit
<1>2. ASSUME UNCHANGED <<host, server>> PROVE StopInv'
  BY <1>2 DEF StopInv
<1>3. ASSUME server' = server, host'.stop = host.stop, host'.late = host.late,
             host'.loop \in {host.loop, "check", "end"}
      PROVE  StopInv'
  BY <1>3 DEF StopInv
<1>4. ASSUME NEW r \in Requests, Link(r) PROVE StopInv'
  BY <1>2, <1>4 DEF Link, ConnectDone, WriteDone, ReadDone
<1>5. ASSUME NEW r \in Requests, ClientSide(r) PROVE StopInv'
  BY <1>2, <1>5 DEF ClientSide, User, Io, EmulateLongComputationOp, SendMessage, Insert, Connect,
     Close, CancelRequest, CancelOp, Handle, HandleOp, Erase, Tell, CancelLocked, DoCancel, Join,
     Rest
<1>6. ASSUME NEW r \in Requests, Service(r) PROVE StopInv'
  <2>1. ASSUME NEW replied, Finish(r, replied) PROVE StopInv'
    BY <1>1, <1>3, <2>1 DEF Finish, Keep, HostType
  <2> QED
    BY <1>2, <1>6, <2>1 DEF Service, IterativeService, ParallelService, AsyncService,
       TMsgService, DaytimeService, HandleClient, GetLine, ReadFails, StartWrite,
       OnResponseSent, Keep
<1>7. CASE RunLoop
  <2> DEFINE next == IF host.stop = "no" THEN "accept" ELSE "end"
             l == IF backlog = backlog \/ host.stop = "no" THEN host.late ELSE host.late + 1
             up == next # "end"
  <2>1. host' = [host EXCEPT !.loop = next, !.listening = up, !.late = l] /\ server' = server
    BY <1>7 DEF RunLoop, LoopOn, Keep
  <2>2. l = host.late
    OBVIOUS
  <2> HIDE DEF l, up, next
  <2>3. host'.stop = host.stop /\ host'.late = host.late /\ host'.loop = next
    BY <1>1, <2>1, <2>2 DEF HostType
  <2> QED
    BY <2>1, <2>3 DEF StopInv, next
<1>8. ASSUME NEW next, Take(next) \/ FailedAccept(next),
             host.stop # "no" => next # "accept"
      PROVE  StopInv'
  BY <1>8, StopLoop DEF Take, FailedAccept
<1>9. CASE Acceptor
  <2>1. CASE IterativeAccept \/ ParallelAccept
    BY <1>8, <2>1 DEF IterativeAccept, ParallelAccept
  <2>2. CASE OnAccept
    BY <1>8, <2>2 DEF OnAccept, AfterAccept
  <2>3. CASE HandleAccept
    BY <1>8, <2>3 DEF HandleAccept, StopInv
  <2>4. CASE AcceptLoop
    <3>1. CASE Take("accept")
      BY <1>8, <2>4, <3>1 DEF AcceptLoop, StopInv
    <3>2. CASE host' = [host EXCEPT !.loop = "end"] /\ Keep
      BY <1>1, <1>3, <3>2 DEF Keep, HostType
    <3> QED
      BY <2>4, <3>1, <3>2 DEF AcceptLoop
  <2> QED
    BY <1>9, <2>1, <2>2, <2>3, <2>4 DEF Acceptor
<1>10. CASE AcceptThrows \/ TMsgEnds
  <2>1. host'.stop = host.stop /\ host'.late = host.late /\ host'.loop = "end" /\ server' = server
    BY <1>1, <1>10 DEF AcceptThrows, TMsgEnds, ProcessEnds, HostType, Keep
  <2> QED
    BY <1>3, <2>1
<1>11. ASSUME NEW stop, stop # "no", server \notin {"daytime", "t_msg"},
              SetStop(host.stop, stop) \/ ProcessEnds(stop)
       PROVE  StopInv'
  <2>1. /\ host'.stop = stop /\ host'.late = host.late /\ host'.loop \in {host.loop, "end"}
        /\ server' = server
    BY <1>1, <1>11 DEF SetStop, ProcessEnds, HostType, Keep
  <2> QED
    BY <1>11, <2>1 DEF StopInv
<1>12. CASE SyncStop \/ AsyncStop
  <2>1. server \notin {"daytime", "t_msg"}
    BY <1>12 DEF SyncStop, AsyncStop, Sync
  <2>2. ASSUME NEW from, NEW to, SetStop(from, to) PROVE SetStop(host.stop, to)
    BY <2>2 DEF SetStop
  <2> QED
    BY <1>11, <1>12, <2>1, <2>2 DEF SyncStop, AsyncStop
<1>13. CASE UNCHANGED vars
  BY <1>2, <1>13 DEF vars
<1> QED
  BY <1>4, <1>5, <1>6, <1>7, <1>9, <1>10, <1>12, <1>13 DEF Next, ServerSide

\* Server::Stop lets at most one more connection in.
THEOREM AtMostOneLate == Spec => []OneLateAccept
<1>1. StopInv => OneLateAccept
  BY DEF StopInv, OneLateAccept
<1> QED
  BY <1>1, TypeCorrect, StopInit, StopNext, PTL DEF Spec

-----------------------------------------------------------------------------
(* The promise to the user. *)

LEMMA PromiseInit == Init => Promise!Init
<1> SUFFICES ASSUME Init PROVE Promise!Init
  OBVIOUS
<1>1. \A r \in Requests : req[r] = Fresh /\ sock[r] = NoSock
  BY DEF Init
<1> QED
  BY <1>1 DEF Promise!Init, Fresh, NoSock

\* Where the user can see no difference the step is a stutter of the promise.
LEMMA SameForUser ==
    ASSUME \A o \in Requests : /\ (req'[o].at # "new") = (req[o].at # "new")
                               /\ req'[o].cancelled = req[o].cancelled
                               /\ sock'[o].reply = sock[o].reply
                               /\ req'[o].told = req[o].told
    PROVE  UNCHANGED Promise!vars
  BY DEF Promise!vars

LEMMA QuietSame ==
    ASSUME IInv, NEW r \in Requests, NEW q, NEW s, Quiet(r, q, s)
    PROVE  UNCHANGED Promise!vars
<1>1. /\ req'[r] = q /\ sock'[r] = s
      /\ \A o \in Requests \ {r} : req'[o] = req[o] /\ sock'[o] = sock[o]
  BY MoveType DEF IInv, Quiet, Local
<1>2. q.at # "new" /\ req[r].at # "new" /\ q.cancelled = req[r].cancelled
      /\ s.reply = sock[r].reply /\ q.told = req[r].told
  BY DEF Quiet, Local
<1> QED
  BY <1>1, <1>2, SameForUser

LEMMA InsertAsks ==
    ASSUME IInv, NEW r \in Requests, Insert(r)
    PROVE  Promise!Ask(r)
<1>1. PICK q : /\ Local(r, q, sock[r]) /\ req[r].at = "new" /\ q.at = "start"
               /\ q.told = req[r].told /\ q.cancelled = req[r].cancelled
  BY InsertLocal
<1>2. /\ req'[r] = q /\ \A o \in Requests \ {r} : req'[o] = req[o]
      /\ UNCHANGED sock
  BY <1>1, MoveType DEF IInv, Local, Insert
<1>3. {o \in Requests : req'[o].at # "new"} = {o \in Requests : req[o].at # "new"} \cup {r}
  BY <1>1, <1>2
<1>4. \A o \in Requests : req'[o].cancelled = req[o].cancelled /\ req'[o].told = req[o].told
  BY <1>1, <1>2
<1> QED
  BY <1>2, <1>3, <1>4 DEF Promise!Ask

LEMMA CancelCancels ==
    ASSUME IInv, NEW r \in Requests, CancelLocked(r) \/ (CancelOp(r) /\ Known(r))
    PROVE  Promise!Cancel(r)
<1>1. PICK q : /\ Local(r, q, sock[r]) /\ req[r].at # "new"
               /\ q.told = req[r].told /\ q.cancelled
  BY CancelLockedLocal, CancelOpLocal
<1>2. /\ req'[r] = q /\ \A o \in Requests \ {r} : req'[o] = req[o]
      /\ UNCHANGED sock /\ q.at # "new"
  BY <1>1, MoveType DEF IInv, Local, CancelLocked, CancelOp
<1>3. {o \in Requests : req'[o].cancelled} = {o \in Requests : req[o].cancelled} \cup {r}
  BY <1>1, <1>2
<1>4. \A o \in Requests : req'[o].told = req[o].told /\ (req'[o].at # "new") = (req[o].at # "new")
  BY <1>1, <1>2
<1> QED
  BY <1>1, <1>2, <1>3, <1>4 DEF Promise!Cancel

LEMMA TellTells ==
    ASSUME IInv, NEW r \in Requests, Tell(r)
    PROVE  \E o \in Outcome : Promise!Tell(r, o)
<1>1. PICK q, o : /\ Local(r, q, sock[r]) /\ req[r].at # "new"
                  /\ q.cancelled = req[r].cancelled
                  /\ req[r].told = <<>> /\ q.told = <<o>> /\ o \in Outcome
                  /\ o = "ok" => sock[r].reply
                  /\ o = "aborted" => req[r].cancelled
  BY TellLocal
<1>2. /\ req'[r] = q /\ \A x \in Requests \ {r} : req'[x] = req[x]
      /\ UNCHANGED sock /\ q.at # "new"
  BY <1>1, MoveType DEF IInv, Local, Tell
<1>3. [x \in Requests |-> req'[x].told] = [[x \in Requests |-> req[x].told] EXCEPT ![r] = <<o>>]
  BY <1>1, <1>2
<1>4. \A x \in Requests : /\ req'[x].cancelled = req[x].cancelled
                          /\ (req'[x].at # "new") = (req[x].at # "new")
  BY <1>1, <1>2
<1>5. Promise!Tell(r, o)
  BY <1>1, <1>2, <1>3, <1>4 DEF Promise!Tell
<1> QED
  BY <1>1, <1>5

LEMMA ServesPromise ==
    ASSUME IInv, Serves
    PROVE  [Promise!Next]_(Promise!vars)
<1>1. UNCHANGED req
  BY DEF Serves
<1>2. CASE \A o \in Requests : sock'[o].reply = sock[o].reply
  BY <1>1, <1>2, SameForUser
<1>3. ASSUME NEW r \in Requests, req[r].at # "new", sock'[r].reply,
             \A o \in Requests \ {r} : sock'[o].reply = sock[o].reply
      PROVE  Promise!Next
  <2>1. {o \in Requests : sock'[o].reply} = {o \in Requests : sock[o].reply} \cup {r}
    BY <1>3
  <2>2. Promise!Serve(r)
    BY <1>1, <1>3, <2>1 DEF Promise!Serve
  <2> QED
    BY <2>2 DEF Promise!Next
<1> QED
  BY <1>2, <1>3 DEF Serves

LEMMA PromiseNext == IInv /\ [Next]_vars => [Promise!Next]_(Promise!vars)
<1> SUFFICES ASSUME IInv, [Next]_vars PROVE [Promise!Next]_(Promise!vars)
  OBVIOUS
<1>1. ASSUME UNCHANGED <<req, sock>> PROVE UNCHANGED Promise!vars
  BY <1>1, SameForUser
<1>2. ASSUME NEW r \in Requests, \E q, s : Quiet(r, q, s) PROVE UNCHANGED Promise!vars
  BY <1>2, QuietSame
<1>3. ASSUME NEW r \in Requests, Link(r) PROVE UNCHANGED Promise!vars
  BY <1>2, <1>3, ConnectDoneQuiet, WriteDoneQuiet, ReadDoneQuiet DEF Link
<1>4. ASSUME NEW r \in Requests, Insert(r) PROVE Promise!Next
  BY <1>4, InsertAsks DEF Promise!Next
<1>5. ASSUME NEW r \in Requests, CancelLocked(r) \/ (CancelOp(r) /\ Known(r)) PROVE Promise!Next
  BY <1>5, CancelCancels DEF Promise!Next
<1>6. ASSUME NEW r \in Requests, Tell(r) PROVE Promise!Next
  <2>1. PICK o \in Outcome : Promise!Tell(r, o)
    BY <1>6, TellTells
  <2> QED
    BY <2>1 DEF Promise!Next, Outcome
<1>7. ASSUME NEW r \in Requests, CancelRequest(r) \/ (CancelOp(r) /\ ~Known(r)) \/ Close \/ Join
      PROVE  UNCHANGED Promise!vars
  BY <1>1, <1>7 DEF CancelRequest, CancelOp, Close, Join
<1>8. ASSUME NEW r \in Requests, Connect(r) \/ Handle(r) \/ HandleOp(r) \/ Erase(r) \/ DoCancel(r)
      PROVE  UNCHANGED Promise!vars
  BY <1>2, <1>8, ConnectQuiet, HandleQuiet, HandleOpQuiet, EraseQuiet, DoCancelQuiet
<1>9. ASSUME NEW r \in Requests, ClientSide(r) PROVE [Promise!Next]_(Promise!vars)
  BY <1>4, <1>5, <1>6, <1>7, <1>8, <1>9
     DEF ClientSide, User, Io, EmulateLongComputationOp, SendMessage
<1>10. CASE UNCHANGED vars
  BY <1>1, <1>10 DEF vars
<1> QED
  BY <1>3, <1>9, <1>10, ServiceStep, ServerStep, ServesPromise DEF Next

\* Either client with any of the servers keeps RequestReply's promise to its
\* user, however connections fail and whenever the server stops.
THEOREM PromiseKept == Spec => ImplementsPromise
<1> QED
  BY RpcInvariant, PromiseInit, PromiseNext, PTL DEF Spec, ImplementsPromise, Promise!Spec
=============================================================================
