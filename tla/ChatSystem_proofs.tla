-------------------------- MODULE ChatSystem_proofs -------------------------
(***************************************************************************)
(* Proofs about a chat_client in a chat room, for any sessions, endpoints, *)
(* messages and sizes: the client uses its session as ChatRoom allows any  *)
(* client to, so what is proved of the room holds for the two together,    *)
(* and its write pump stands still only after an early write.              *)
(***************************************************************************)
EXTENDS ChatSystem, ChatRoom_proofs, Data_proofs

\* Messages are numbered in the order of typing; they are said, queued or
\* posted, in that order.
NumberedFrom(n, queue, posted, typed) ==
    /\ typed = n + Len(queue) + Len(posted)
    /\ \A i \in 1..Len(queue) : queue[i] = n + i
    /\ \A i \in 1..Len(posted) : posted[i] = n + Len(queue) + i

Numbered == NumberedFrom(Len(said[Own]), c.queue, c.posted, c.typed)

\* A write that is outstanding has a message.  With messages and no write the
\* client had an early write, or its connection is closed for good.
PumpInv ==
    /\ c.writing # "no" => c.queue # <<>>
    /\ c.writing = "no" /\ c.queue # <<>> => c.early \/ (c.conn = "up" /\ ~c.open)

\* The iterator is at the end only when no attempt is being made.
EndpointInv == c.conn # "over" => c.ep <= Endpoints

ClientInv == ClientTypeOK /\ Numbered /\ PumpInv /\ EndpointInv

SInv == IInv /\ ClientInv

LEMMA MaxSayNat == MaxSay[Own] \in Nat
  BY OwnAssumption, SayAssumption

(***************************************************************************)
(* Every step of the client is a step of the room, or none.                *)
(***************************************************************************)
LEMMA CloseIsStep ==
    ASSUME NEW k, Close(k)
    PROVE  [Next]_vars
<1>1. CASE gone' = gone
  BY <1>1 DEF Close, Room, vars
<1>2. CASE gone' # gone
  <2>1. Own \notin gone /\ gone' = gone \cup {Own}
    BY <1>2 DEF Close
  <2>2. Hangup(Own)
    BY <2>1 DEF Close, Room, Hangup
  <2> QED
    BY <2>2, OwnAssumption DEF Next, Client
<1> QED
  BY <1>1, <1>2

LEMMA OnlyIsStep ==
    ASSUME NEW k, Only(k)
    PROVE  UNCHANGED vars
  BY DEF Only, Room, vars

LEMMA OkIsBoolean == \A n : DecodeHeader(n).ok \in BOOLEAN
  BY DEF DecodeHeader

LEMMA WriteDoneIsStep ==
    ASSUME SInv, WriteDone_
    PROVE  Say(Own)
<1>1. c.queue # <<>> /\ c.queue \in Seq(1..MaxSay[Own])
  BY DEF SInv, ClientInv, PumpInv, ClientTypeOK, WriteDone_
<1>2. Len(c.queue) \in Nat /\ Len(c.queue) > 0 /\ Head(c.queue) = c.queue[1]
  BY <1>1
<1>3. said \in [Sessions -> Seq(Msg)] /\ Len(said[Own]) \in Nat
  BY OwnAssumption DEF SInv, IInv, TypeOK
<1>4. Head(c.queue) = Len(said[Own]) + 1
  BY <1>2, <1>3 DEF SInv, ClientInv, Numbered, NumberedFrom
<1>5. Head(c.queue) \in 1..MaxSay[Own]
  BY <1>1, <1>2, MaxSayNat
<1>6. Len(said[Own]) < MaxSay[Own]
  BY <1>3, <1>4, <1>5, MaxSayNat
<1>7. Own \notin gone
  BY DEF WriteDone_, Broken
<1> DEFINE m == <<Own, Len(said[Own]) + 1>>
           okay == DecodeHeader(Atoi(EncodeHeader(BodyLength(Size[Head(c.queue)])))).ok
<1>8. /\ said' = [said EXCEPT ![Own] = Append(@, m)]
      /\ wire' = [wire EXCEPT ![Own] = Append(@, [msg |-> m, ok |-> okay])]
      /\ UNCHANGED <<accepted, gone, reading, participants, recent, writeQ, writing,
                     log, joinedAt, out>>
  BY <1>4 DEF WriteDone_
<1>9. okay \in BOOLEAN
  BY OkIsBoolean
<1> HIDE DEF okay
<1> QED
  BY <1>6, <1>7, <1>8, <1>9 DEF Say

LEMMA ClientIsStep ==
    ASSUME SInv, ClientStep
    PROVE  [Next]_vars
<1>1. CASE Type \/ Hangup_ \/ Answer \/ ReadDone_
  BY <1>1, OnlyIsStep DEF Type, Hangup_, Answer, ReadDone_
<1>2. CASE CheckDeadline \/ ReadFailed_ \/ WriteFailed_
  BY <1>2, CloseIsStep DEF CheckDeadline, ReadFailed_, WriteFailed_
<1>3. CASE HandleConnect
  BY <1>3, OnlyIsStep DEF HandleConnect
<1>4. CASE RunPosted
  BY <1>4, OnlyIsStep, CloseIsStep DEF RunPosted
<1>5. CASE Break
  <2>1. Hangup(Own)
    BY <1>5 DEF Break, Broken, Room, Hangup
  <2> QED
    BY <2>1, OwnAssumption DEF Next, Client
<1>6. CASE WriteDone_
  BY <1>6, WriteDoneIsStep, OwnAssumption DEF Next, Client
<1> QED
  BY <1>1, <1>2, <1>3, <1>4, <1>5, <1>6 DEF ClientStep, ClientHandler

LEMMA SystemIsStep ==
    ASSUME SInv, [SystemNext]_systemVars
    PROVE  [Next]_vars
<1>1. CASE ClientStep
  BY <1>1, ClientIsStep
<1>2. CASE UNCHANGED systemVars
  BY <1>2 DEF systemVars, vars
<1>3. ASSUME NEW s \in Sessions, Others(s) \/ Accept(s) \/ Read(s) \/ Write(s)
      PROVE  Next
  BY <1>3 DEF Next, Others, Client
<1> QED
  BY <1>1, <1>2, <1>3, OwnAssumption DEF SystemNext

(***************************************************************************)
(* The client's invariant.                                                 *)
(***************************************************************************)
LEMMA ClientInvInit == SystemInit => ClientInv
<1> SUFFICES ASSUME SystemInit PROVE ClientInv
  OBVIOUS
<1>1. c = [ep |-> 1, conn |-> "trying", open |-> TRUE, met |-> FALSE,
           deadline |-> "armed", queue |-> <<>>, writing |-> "no", reading |-> FALSE,
           posted |-> <<>>, closing |-> FALSE, typed |-> 0, heard |-> 0, running |-> TRUE,
           early |-> FALSE]
  BY DEF SystemInit, ClientInit
<1>2. said[Own] = <<>>
  BY OwnAssumption DEF SystemInit, Init
<1>3. ClientTypeOK
  BY <1>1, MaxSayNat, EndpointsAssumption DEF ClientTypeOK
<1>4. Numbered
  BY <1>1, <1>2 DEF Numbered, NumberedFrom
<1>5. PumpInv /\ EndpointInv
  BY <1>1, EndpointsAssumption DEF PumpInv, EndpointInv
<1> QED
  BY <1>3, <1>4, <1>5 DEF ClientInv

\* Closing the socket disturbs nothing: an outstanding write is to fail.
LEMMA CloseKeeps ==
    ASSUME ClientTypeOK, PumpInv, EndpointInv, Close(c)
    PROVE  ClientTypeOK' /\ PumpInv' /\ EndpointInv'
  BY DEF ClientTypeOK, PumpInv, EndpointInv, Close, Closed

(***************************************************************************)
(* The numbering: a message is typed, its lambda runs, it is said.         *)
(***************************************************************************)
LEMMA NumberTyped ==
    ASSUME NEW S, NEW n \in Nat, NEW q \in Seq(S), NEW p \in Seq(S), NEW t \in Nat,
           t + 1 \in S, NumberedFrom(n, q, p, t)
    PROVE  NumberedFrom(n, q, Append(p, t + 1), t + 1)
<1> DEFINE u == Append(p, t + 1)
<1>1. Len(u) = Len(p) + 1 /\ Len(p) \in Nat /\ Len(q) \in Nat
  OBVIOUS
<1>2. \A i \in 1..Len(p) : u[i] = p[i]
  OBVIOUS
<1>3. u[Len(p) + 1] = t + 1
  OBVIOUS
<1> HIDE DEF u
<1>4. t = n + Len(q) + Len(p)
  BY DEF NumberedFrom
<1>5. ASSUME NEW i \in 1..Len(u) PROVE u[i] = n + Len(q) + i
  <2>1. CASE i = Len(p) + 1
    BY <1>1, <1>3, <1>4, <2>1
  <2>2. CASE i # Len(p) + 1
    <3>1. i \in 1..Len(p)
      BY <1>1, <2>2
    <3> QED
      BY <1>2, <3>1 DEF NumberedFrom
  <2> QED
    BY <2>1, <2>2
<1>6. t + 1 = n + Len(q) + Len(u)
  BY <1>1, <1>4
<1> QED
  BY <1>5, <1>6 DEF NumberedFrom, u

LEMMA NumberQueued ==
    ASSUME NEW S, NEW n \in Nat, NEW q \in Seq(S), NEW p \in Seq(S), p # <<>>, NEW t \in Nat,
           NumberedFrom(n, q, p, t)
    PROVE  NumberedFrom(n, Append(q, Head(p)), Tail(p), t)
<1> DEFINE u == Append(q, Head(p))
           v == Tail(p)
<1>1. Len(p) \in Nat /\ Len(p) > 0 /\ Len(q) \in Nat /\ Head(p) = p[1]
  OBVIOUS
<1>2. Len(u) = Len(q) + 1 /\ Len(v) = Len(p) - 1
  BY <1>1
<1>3. \A i \in 1..Len(q) : u[i] = q[i]
  OBVIOUS
<1>4. u[Len(q) + 1] = p[1]
  BY <1>1
<1>5. \A i \in 1..Len(v) : v[i] = p[i + 1]
  BY <1>1, <1>2
<1> HIDE DEF u, v
<1>6. p[1] = n + Len(q) + 1
  BY <1>1 DEF NumberedFrom
<1>7. ASSUME NEW i \in 1..Len(u) PROVE u[i] = n + i
  <2>1. CASE i = Len(q) + 1
    BY <1>1, <1>2, <1>4, <1>6, <2>1
  <2>2. CASE i # Len(q) + 1
    <3>1. i \in 1..Len(q)
      BY <1>1, <1>2, <2>2
    <3> QED
      BY <1>3, <3>1 DEF NumberedFrom
  <2> QED
    BY <2>1, <2>2
<1>8. ASSUME NEW i \in 1..Len(v) PROVE v[i] = n + Len(u) + i
  <2>1. i + 1 \in 1..Len(p)
    BY <1>1, <1>2
  <2>2. p[i + 1] = n + Len(q) + (i + 1)
    BY <2>1 DEF NumberedFrom
  <2> QED
    BY <1>1, <1>2, <1>5, <2>2
<1>9. t = n + Len(u) + Len(v)
  BY <1>1, <1>2 DEF NumberedFrom
<1> QED
  BY <1>7, <1>8, <1>9 DEF NumberedFrom, u, v

LEMMA NumberSaid ==
    ASSUME NEW S, NEW n \in Nat, NEW q \in Seq(S), q # <<>>, NEW p \in Seq(S), NEW t \in Nat,
           NumberedFrom(n, q, p, t)
    PROVE  NumberedFrom(n + 1, Tail(q), p, t)
<1>1. Len(Tail(q)) = Len(q) - 1 /\ Len(q) \in Nat /\ Len(q) > 0 /\ Len(p) \in Nat
  OBVIOUS
<1>2. \A i \in 1..(Len(q) - 1) : Tail(q)[i] = q[i + 1]
  OBVIOUS
<1> QED
  BY <1>1, <1>2 DEF NumberedFrom

(***************************************************************************)
(* What the fields of a client's record are.                               *)
(***************************************************************************)
LEMMA Fields ==
    ASSUME ClientTypeOK
    PROVE  /\ c.queue \in Seq(1..MaxSay[Own]) /\ c.posted \in Seq(1..MaxSay[Own])
           /\ c.typed \in 0..MaxSay[Own] /\ c.typed \in Nat
  BY MaxSayNat DEF ClientTypeOK

LEMMA QueuedTypes ==
    ASSUME NEW S, NEW q \in Seq(S), NEW p \in Seq(S), p # <<>>
    PROVE  Append(q, Head(p)) \in Seq(S) /\ Tail(p) \in Seq(S) /\ Append(q, Head(p)) # <<>>
<1>1. Head(p) \in S /\ Tail(p) \in Seq(S)
  OBVIOUS
<1>2. Append(q, Head(p)) \in Seq(S) /\ Append(q, Head(p)) # <<>>
  BY <1>1
<1> QED
  BY <1>1, <1>2

LEMMA TailType ==
    ASSUME NEW S, NEW q \in Seq(S), q # <<>>
    PROVE  Tail(q) \in Seq(S)
  OBVIOUS

LEMMA TypeStep ==
    ASSUME ClientInv, Type, Len(said[Own]) \in Nat
    PROVE  ClientInv'
<1> DEFINE t == c.typed + 1
           p == Append(c.posted, t)
<1>1. c' = [c EXCEPT !.typed = t, !.posted = p] /\ said' = said /\ c.typed < MaxSay[Own]
  BY DEF Type, Only, Room
<1>2. t \in 1..MaxSay[Own] /\ t \in 0..MaxSay[Own] /\ p \in Seq(1..MaxSay[Own])
  BY <1>1, Fields, MaxSayNat DEF ClientInv
<1>3. NumberedFrom(Len(said[Own]), c.queue, p, t)
  BY <1>2, Fields, NumberTyped DEF ClientInv, Numbered
<1> HIDE DEF t, p
<1>4. ClientTypeOK'
  BY <1>1, <1>2 DEF ClientInv, ClientTypeOK
<1>5. c'.typed = t /\ c'.posted = p /\ c'.queue = c.queue
  BY <1>1 DEF ClientInv, ClientTypeOK
<1>6. Numbered'
  BY <1>1, <1>3, <1>5 DEF Numbered
<1>7. PumpInv' /\ EndpointInv'
  BY <1>1 DEF ClientInv, ClientTypeOK, PumpInv, EndpointInv
<1> QED
  BY <1>4, <1>6, <1>7 DEF ClientInv

\* The two kinds of lambda that posted them.
LEMMA RunPostedStep ==
    ASSUME ClientInv, RunPosted, Len(said[Own]) \in Nat
    PROVE  ClientInv'
<1>1. CASE c.posted # <<>>
  <2> DEFINE q == Append(c.queue, Head(c.posted))
             p == Tail(c.posted)
             w == IF c.queue # <<>> THEN c.writing ELSE IF c.open THEN "yes" ELSE "failed"
  <2>1. c' = [c EXCEPT !.posted = p, !.queue = q, !.writing = w] /\ said' = said
    BY <1>1 DEF RunPosted, Only, Room, Queue, ClientInv, ClientTypeOK
  <2>2. q \in Seq(1..MaxSay[Own]) /\ p \in Seq(1..MaxSay[Own]) /\ q # <<>>
    BY <1>1, Fields, QueuedTypes DEF ClientInv
  <2>3. w \in {"no", "yes", "failed"} /\ (w = "no" => c.writing = "no" /\ c.queue # <<>>)
    BY DEF ClientInv, ClientTypeOK
  <2>4. NumberedFrom(Len(said[Own]), q, p, c.typed)
    BY <1>1, Fields, NumberQueued DEF ClientInv, Numbered
  <2> HIDE DEF q, p, w
  <2>5. ClientTypeOK'
    BY <2>1, <2>2, <2>3 DEF ClientInv, ClientTypeOK
  <2>6. c'.queue = q /\ c'.posted = p /\ c'.typed = c.typed
    BY <2>1 DEF ClientInv, ClientTypeOK
  <2>7. Numbered'
    BY <2>1, <2>4, <2>6 DEF Numbered
  <2>8. PumpInv' /\ EndpointInv'
    BY <2>1, <2>2, <2>3 DEF ClientInv, ClientTypeOK, PumpInv, EndpointInv
  <2> QED
    BY <2>5, <2>7, <2>8 DEF ClientInv
<1>2. CASE c.posted = <<>>
  <2>1. Close([c EXCEPT !.closing = FALSE])
    BY <1>2 DEF RunPosted
  <2>2. ClientTypeOK' /\ PumpInv' /\ EndpointInv'
    BY <2>1 DEF ClientInv, ClientTypeOK, PumpInv, EndpointInv, Close, Closed
  <2>3. UNCHANGED <<c.queue, c.posted, c.typed, said>>
    BY <2>1 DEF ClientInv, ClientTypeOK, Close, Closed, Room
  <2> QED
    BY <2>2, <2>3 DEF ClientInv, Numbered
<1> QED
  BY <1>1, <1>2

LEMMA WriteDoneClient ==
    ASSUME SInv, WriteDone_
    PROVE  ClientInv'
<1>1. said \in [Sessions -> Seq(Msg)] /\ Len(said[Own]) \in Nat
  BY OwnAssumption DEF SInv, IInv, TypeOK
<1>2. said'[Own] = Append(said[Own], <<Own, Len(said[Own]) + 1>>)
  BY <1>1, WriteDoneIsStep, OwnAssumption DEF Say
<1>3. Len(said'[Own]) = Len(said[Own]) + 1
  <2>1. said[Own] \in Seq(Msg)
    BY <1>1, OwnAssumption
  <2> QED
    BY <1>2, <2>1
<1> DEFINE q == Tail(c.queue)
           w == AfterWrite(q)
<1>4. c' = [c EXCEPT !.queue = q, !.writing = w] /\ c.queue # <<>>
  BY DEF WriteDone_, SInv, ClientInv, PumpInv
<1>5. q \in Seq(1..MaxSay[Own])
  BY <1>4, Fields, TailType DEF SInv, ClientInv
<1>5a. w \in {"no", "yes"} /\ (w = "no" <=> q = <<>>)
  BY DEF AfterWrite
<1>6. NumberedFrom(Len(said[Own]) + 1, q, c.posted, c.typed)
  BY <1>1, <1>4, Fields, NumberSaid DEF SInv, ClientInv, Numbered
<1> HIDE DEF q, w
<1>7. ClientTypeOK'
  BY <1>4, <1>5, <1>5a DEF SInv, ClientInv, ClientTypeOK
<1>8. c'.queue = q /\ c'.posted = c.posted /\ c'.typed = c.typed
  BY <1>4 DEF SInv, ClientInv, ClientTypeOK
<1>9. Numbered'
  BY <1>3, <1>6, <1>8 DEF Numbered
<1>10. PumpInv' /\ EndpointInv'
  BY <1>4, <1>5, <1>5a DEF SInv, ClientInv, ClientTypeOK, PumpInv, EndpointInv
<1> QED
  BY <1>7, <1>9, <1>10 DEF ClientInv

\* The steps that leave the messages alone.
LEMMA OtherClientSteps ==
    ASSUME ClientInv, \/ Hangup_ \/ Answer \/ HandleConnect \/ CheckDeadline \/ Break
                      \/ WriteFailed_ \/ ReadDone_ \/ ReadFailed_
    PROVE  ClientInv'
<1>1. CASE Hangup_
  <2>1. ClientTypeOK' /\ PumpInv' /\ EndpointInv' /\ UNCHANGED <<c.queue, c.posted, c.typed, said>>
    BY <1>1 DEF Hangup_, Only, Room, ClientInv, ClientTypeOK, PumpInv, EndpointInv
  <2> QED
    BY <2>1 DEF ClientInv, Numbered
<1>2. CASE Answer
  <2>1. ClientTypeOK' /\ PumpInv' /\ EndpointInv' /\ UNCHANGED <<c.queue, c.posted, c.typed, said>>
    BY <1>2 DEF Answer, Only, Room, ClientInv, ClientTypeOK, PumpInv, EndpointInv
  <2> QED
    BY <2>1 DEF ClientInv, Numbered
<1>3. CASE HandleConnect
  <2> DEFINE next == c.ep + 1
  <2>1. c.conn # "over" => next \in 1..(Endpoints + 1)
    BY EndpointsAssumption DEF ClientInv, ClientTypeOK, EndpointInv
  <2>2. c.ep < Endpoints => next <= Endpoints
    BY EndpointsAssumption DEF ClientInv, ClientTypeOK
  <2>3. said' = said
    BY <1>3 DEF HandleConnect, Only, Room
  <2> HIDE DEF next
  <2>4. CASE c' = [c EXCEPT !.ep = next, !.conn = "trying", !.open = TRUE, !.deadline = "armed"]
             /\ c.ep < Endpoints /\ c.conn \notin {"up", "over"}
    <3>1. ClientTypeOK'
      BY <2>1, <2>4 DEF ClientInv, ClientTypeOK
    <3>2. PumpInv' /\ EndpointInv' /\ UNCHANGED <<c.queue, c.posted, c.typed>>
      BY <2>2, <2>4 DEF ClientInv, ClientTypeOK, PumpInv, EndpointInv
    <3> QED
      BY <2>3, <3>1, <3>2 DEF ClientInv, Numbered
  <2>5. CASE c' = [c EXCEPT !.ep = next, !.conn = "over"] /\ c.conn \notin {"up", "over"}
    <3>1. ClientTypeOK'
      BY <2>1, <2>5 DEF ClientInv, ClientTypeOK
    <3>2. PumpInv' /\ EndpointInv' /\ UNCHANGED <<c.queue, c.posted, c.typed>>
      BY <2>5 DEF ClientInv, ClientTypeOK, PumpInv, EndpointInv
    <3> QED
      BY <2>3, <3>1, <3>2 DEF ClientInv, Numbered
  <2>6. CASE c' = [c EXCEPT !.conn = "over", !.running = FALSE] /\ c.conn = "refused"
    <3>1. ClientTypeOK' /\ PumpInv' /\ EndpointInv' /\ UNCHANGED <<c.queue, c.posted, c.typed>>
      BY <2>6 DEF ClientInv, ClientTypeOK, PumpInv, EndpointInv
    <3> QED
      BY <2>3, <3>1 DEF ClientInv, Numbered
  <2>7. CASE c' = [c EXCEPT !.conn = "up", !.reading = TRUE] /\ c.conn = "answered"
    <3>1. ClientTypeOK' /\ PumpInv' /\ EndpointInv' /\ UNCHANGED <<c.queue, c.posted, c.typed>>
      BY <2>7 DEF ClientInv, ClientTypeOK, PumpInv, EndpointInv
    <3> QED
      BY <2>3, <3>1 DEF ClientInv, Numbered
  <2>8. CASE ~c.open /\ c.conn \in {"trying", "answered", "refused"} /\ c' = DoConnect(c)
    BY <2>4, <2>5, <2>8 DEF DoConnect, next
  <2> QED
    BY <1>3, <2>6, <2>7, <2>8 DEF HandleConnect, Only
<1>4. CASE CheckDeadline
  <2>1. ClientTypeOK' /\ PumpInv' /\ EndpointInv' /\ UNCHANGED <<c.queue, c.posted, c.typed, said>>
    BY <1>4 DEF CheckDeadline, Close, Closed, Room, ClientInv, ClientTypeOK, PumpInv, EndpointInv
  <2> QED
    BY <2>1 DEF ClientInv, Numbered
<1>5. CASE Break
  BY <1>5 DEF Break, Room, ClientInv, ClientTypeOK, PumpInv, EndpointInv, Numbered
<1>6. CASE WriteFailed_
  <2>1. ClientTypeOK' /\ PumpInv' /\ EndpointInv' /\ UNCHANGED <<c.queue, c.posted, c.typed, said>>
    BY <1>6 DEF WriteFailed_, Close, Closed, Room, ClientInv, ClientTypeOK, PumpInv, EndpointInv
  <2> QED
    BY <2>1 DEF ClientInv, Numbered
<1>7. CASE ReadDone_
  <2> DEFINE more == c.heard + 1
  <2>1. more \in Nat /\ c' = [c EXCEPT !.heard = more] /\ said' = said
    BY <1>7 DEF ReadDone_, Only, Room, ClientInv, ClientTypeOK
  <2> HIDE DEF more
  <2>2. ClientTypeOK' /\ PumpInv' /\ EndpointInv' /\ UNCHANGED <<c.queue, c.posted, c.typed>>
    BY <2>1 DEF ClientInv, ClientTypeOK, PumpInv, EndpointInv
  <2> QED
    BY <2>1, <2>2 DEF ClientInv, Numbered
<1>8. CASE ReadFailed_
  <2>1. ClientTypeOK' /\ PumpInv' /\ EndpointInv' /\ UNCHANGED <<c.queue, c.posted, c.typed, said>>
    BY <1>8 DEF ReadFailed_, Close, Closed, Room, ClientInv, ClientTypeOK, PumpInv, EndpointInv
  <2> QED
    BY <2>1 DEF ClientInv, Numbered
<1> QED
  BY <1>1, <1>2, <1>3, <1>4, <1>5, <1>6, <1>7, <1>8

\* What the room and the other clients do leaves what this client said.
LEMMA RoomKeepsSaid ==
    ASSUME TypeOK, NEW s \in Sessions,
           (s # Own /\ Say(s)) \/ Accept(s) \/ Read(s) \/ Write(s)
    PROVE  said'[Own] = said[Own]
  BY OwnAssumption DEF Say, Accept, Read, ReadHeader, ReadBody, ReadFailed, Write, WriteDone,
     WriteFailed, TypeOK

LEMMA SInvNext == SInv /\ [SystemNext]_systemVars => SInv'
<1> SUFFICES ASSUME SInv, [SystemNext]_systemVars PROVE SInv'
  OBVIOUS
<1>1. IInv'
  BY SystemIsStep, IInvNext DEF SInv
<1>2. Len(said[Own]) \in Nat
  BY OwnAssumption DEF SInv, IInv, TypeOK
<1>3. CASE ClientStep
  <2> SUFFICES ClientInv'
    BY <1>1 DEF SInv
  <2>1. ClientInv
    BY DEF SInv
  <2>2. CASE Type
    BY <1>2, <2>1, <2>2, TypeStep
  <2>3. CASE RunPosted
    BY <1>2, <2>1, <2>3, RunPostedStep
  <2>4. CASE WriteDone_
    BY <2>4, WriteDoneClient
  <2>5. CASE \/ Hangup_ \/ Answer \/ HandleConnect \/ CheckDeadline \/ Break
             \/ WriteFailed_ \/ ReadDone_ \/ ReadFailed_
    BY <2>1, <2>5, OtherClientSteps
  <2> QED
    BY <1>3, <2>2, <2>3, <2>4, <2>5 DEF ClientStep, ClientHandler
<1>4. ASSUME NEW s \in Sessions, UNCHANGED c,
             (s # Own /\ Say(s)) \/ Accept(s) \/ Read(s) \/ Write(s)
      PROVE  ClientInv'
  <2>1. said'[Own] = said[Own]
    BY <1>4, RoomKeepsSaid DEF SInv, IInv
  <2> QED
    BY <1>4, <2>1 DEF SInv, ClientInv, ClientTypeOK, Numbered, PumpInv, EndpointInv
<1>5. CASE UNCHANGED systemVars
  <2>1. ClientInv'
    BY <1>5 DEF systemVars, vars, SInv, ClientInv, ClientTypeOK, Numbered, PumpInv, EndpointInv
  <2> QED
    BY <1>1, <2>1 DEF SInv
<1>6. CASE SystemNext /\ ~ClientStep
  <2>1. \E s \in Sessions :
           UNCHANGED c /\ ((s # Own /\ Say(s)) \/ Accept(s) \/ Read(s) \/ Write(s))
    BY <1>6, OwnAssumption DEF SystemNext, Others
  <2>2. ClientInv'
    BY <1>4, <2>1
  <2> QED
    BY <1>1, <2>2 DEF SInv
<1> QED
  BY <1>3, <1>5, <1>6

\* The strengthened invariant holds in every reachable state.
THEOREM SystemInvariant == SystemSpec => []SInv
<1>1. SystemInit => SInv
  BY ClientInvInit, IInvInit DEF SystemInit, SInv
<1> QED
  BY <1>1, SInvNext, PTL DEF SystemSpec

-----------------------------------------------------------------------------
(***************************************************************************)
(* What a client says: the room has published the first of its messages    *)
(* and the others are on the wire, both in the order of saying.  Nothing   *)
(* takes a message off the wire but the body read that publishes it, so    *)
(* this holds for a session that has stopped reading as well.              *)
(***************************************************************************)
Split(s, n, p, w) ==
    /\ n = Len(p) + Len(w)
    /\ \A i \in 1..Len(p) : p[i] = <<s, i>>
    /\ \A i \in 1..Len(w) : w[i].msg = <<s, Len(p) + i>>

SaidInOrder == \A s \in Sessions : Split(s, Len(said[s]), Published(s), wire[s])

\* A message is said.
LEMMA SplitSaid ==
    ASSUME NEW s, NEW n \in Nat, NEW p \in Seq(Msg), NEW w \in Seq(Frame), Split(s, n, p, w),
           NEW f \in Frame, f.msg = <<s, n + 1>>
    PROVE  Split(s, n + 1, p, Append(w, f))
<1> DEFINE v == Append(w, f)
<1>1. /\ Len(v) = Len(w) + 1 /\ v[Len(w) + 1] = f /\ \A i \in 1..Len(w) : v[i] = w[i]
      /\ Len(w) \in Nat /\ Len(p) \in Nat
  BY AppendProperties, LenProperties
<1> HIDE DEF v
<1>2. ASSUME NEW i \in 1..Len(v) PROVE v[i].msg = <<s, Len(p) + i>>
  <2>1. CASE i = Len(w) + 1
    BY <1>1, <2>1 DEF Split
  <2>2. CASE i # Len(w) + 1
    <3>1. i \in 1..Len(w)
      BY <1>1, <2>2
    <3> QED
      BY <1>1, <3>1 DEF Split
  <2> QED
    BY <2>1, <2>2
<1> QED
  BY <1>1, <1>2 DEF Split, v

\* The oldest message on the wire is published.
LEMMA SplitRead ==
    ASSUME NEW s, NEW n \in Nat, NEW p \in Seq(Msg), NEW w \in Seq(Frame), Split(s, n, p, w),
           w # <<>>, Head(w).msg \in Msg
    PROVE  /\ Head(w).msg = <<s, Len(p) + 1>>
           /\ Split(s, n, Append(p, Head(w).msg), Tail(w))
<1> DEFINE m == Head(w).msg
           u == Append(p, m)
           v == Tail(w)
<1>1. /\ Len(w) \in Nat /\ Len(w) > 0 /\ Len(p) \in Nat /\ Head(w) = w[1]
      /\ Len(v) = Len(w) - 1
  BY LenProperties, EmptySeq, HeadTailProperties
<1>2. \A i \in 1..Len(v) : v[i] = w[i + 1]
  BY <1>1, HeadTailProperties
<1>3. Len(u) = Len(p) + 1 /\ u[Len(p) + 1] = m /\ \A i \in 1..Len(p) : u[i] = p[i]
  BY AppendProperties
<1>4. m = <<s, Len(p) + 1>>
  BY <1>1 DEF Split
<1> HIDE DEF m, u, v
<1>5. ASSUME NEW i \in 1..Len(u) PROVE u[i] = <<s, i>>
  <2>1. CASE i = Len(p) + 1
    BY <1>3, <1>4, <2>1
  <2>2. CASE i # Len(p) + 1
    <3>1. i \in 1..Len(p)
      BY <1>1, <1>3, <2>2
    <3> QED
      BY <1>3, <3>1 DEF Split
  <2> QED
    BY <2>1, <2>2
<1>6. ASSUME NEW i \in 1..Len(v) PROVE v[i].msg = <<s, Len(u) + i>>
  <2>1. i + 1 \in 1..Len(w) /\ Len(u) + i = Len(p) + (i + 1)
    BY <1>1, <1>3
  <2> QED
    BY <1>2, <2>1 DEF Split
<1>7. n = Len(u) + Len(v)
  BY <1>1, <1>3 DEF Split
<1> QED
  BY <1>4, <1>5, <1>6, <1>7 DEF Split, m, u, v

\* What a client has published are messages.
LEMMA PublishedType ==
    ASSUME TypeOK, NEW s
    PROVE  Published(s) \in Seq(Msg)
<1>1. log \in Seq(Msg)
  BY DEF TypeOK
<1>2. Published(s) \in Seq(Msg \cap {m \in Msg : m[1] = s})
  BY <1>1, KeptType DEF Published
<1>3. Msg \cap {m \in Msg : m[1] = s} \subseteq Msg
  OBVIOUS
<1> QED
  BY <1>2, <1>3

\* Publishing a message adds it to what its own client has published.
LEMMA PublishedNext ==
    ASSUME TypeOK, NEW m \in Msg, log' = Append(log, m), NEW s
    PROVE  Published(s)' = IF m[1] = s THEN Append(Published(s), m) ELSE Published(s)
<1>1. log \in Seq(Msg)
  BY DEF TypeOK
<1> DEFINE T == {x \in Msg : x[1] = s}
<1>2. m \in T <=> m[1] = s
  OBVIOUS
<1>3. Published(s) = Kept(log, T) /\ Published(s)' = Kept(log', T)
  BY DEF Published
<1> HIDE DEF T
<1>4. Kept(Append(log, m), T) = IF m \in T THEN Append(Kept(log, T), m) ELSE Kept(log, T)
  BY <1>1, KeptAppend
<1> QED
  BY <1>2, <1>3, <1>4

\* At first nothing is said; ...
LEMMA SaidInOrderInit == Init => SaidInOrder
<1> SUFFICES ASSUME Init, NEW s \in Sessions PROVE Split(s, Len(said[s]), Published(s), wire[s])
  BY DEF SaidInOrder
<1>1. said[s] = <<>> /\ wire[s] = <<>> /\ log = <<>>
  BY DEF Init
<1>2. Published(s) = <<>>
  BY <1>1, KeptEmpty DEF Published
<1> QED
  BY <1>1, <1>2 DEF Split

\* ... saying, ...
LEMMA SayInOrder ==
    ASSUME TypeOK, SaidInOrder, NEW s \in Sessions, Say(s)
    PROVE  SaidInOrder'
<1> SUFFICES ASSUME NEW t \in Sessions
             PROVE  Split(t, Len(said[t]), Published(t), wire[t])'
  BY DEF SaidInOrder
<1>1. said[s] \in Seq(Msg) /\ wire[s] \in Seq(Frame) /\ Len(said[s]) \in Nat
  BY LenProperties DEF TypeOK
<1>2. Published(t)' = Published(t)
  BY DEF Say, Published
<1>3. Split(t, Len(said[t]), Published(t), wire[t])
  BY DEF SaidInOrder
<1>4. CASE t # s
  <2>1. said'[t] = said[t] /\ wire'[t] = wire[t]
    BY <1>4 DEF Say, TypeOK
  <2> QED
    BY <1>2, <1>3, <2>1
<1>5. CASE t = s
  <2> DEFINE m == <<s, Len(said[s]) + 1>>
  <2>1. m \in Msg
    <3>1. MaxSay[s] \in Nat
      BY SayAssumption
    <3>2. Len(said[s]) + 1 \in 1..MaxSay[s]
      BY <1>1, <3>1 DEF Say
    <3> QED
      BY <3>2 DEF Msg
  <2>2. PICK ok \in BOOLEAN : wire'[s] = Append(wire[s], [msg |-> m, ok |-> ok])
    BY DEF Say, TypeOK
  <2>3. said'[s] = Append(said[s], m)
    BY DEF Say, TypeOK
  <2>4. Len(said'[s]) = Len(said[s]) + 1
    BY <1>1, <2>1, <2>3, AppendProperties
  <2>5. [msg |-> m, ok |-> ok] \in Frame /\ [msg |-> m, ok |-> ok].msg = m
    BY <2>1 DEF Frame
  <2> QED
    BY <1>1, <1>2, <1>3, <1>5, <2>2, <2>4, <2>5, PublishedType, SplitSaid
<1> QED
  BY <1>4, <1>5

\* ... publishing, ...
LEMMA ReadBodyInOrder ==
    ASSUME TypeOK, SaidInOrder, NEW s \in Sessions, ReadBody(s)
    PROVE  /\ SaidInOrder'
           /\ Head(wire[s]).msg = <<s, Len(Published(s)) + 1>>
           /\ Published(s)' = Append(Published(s), Head(wire[s]).msg)
           /\ \A t \in Sessions \ {s} : Published(t)' = Published(t)
           /\ Len(Published(s)) < Len(said[s])
<1> DEFINE m == Head(wire[s]).msg
<1>1. /\ wire[s] \in Seq(Frame) /\ wire[s] # <<>> /\ Len(said[s]) \in Nat /\ m \in Msg
      /\ log' = Append(log, m) /\ said' = said /\ wire' = [wire EXCEPT ![s] = Tail(@)]
  BY ReadsMessage, LenProperties DEF ReadBody, Deliver, TypeOK
<1>2. Split(s, Len(said[s]), Published(s), wire[s])
  BY DEF SaidInOrder
<1>3. /\ m = <<s, Len(Published(s)) + 1>>
      /\ Split(s, Len(said[s]), Append(Published(s), m), Tail(wire[s]))
  BY <1>1, <1>2, PublishedType, SplitRead
<1>4. m[1] = s
  BY <1>3
<1>5. Len(wire[s]) \in Nat /\ Len(wire[s]) > 0 /\ Len(Published(s)) \in Nat
  BY <1>1, PublishedType, LenProperties, EmptySeq
<1>6. Len(Published(s)) < Len(said[s])
  BY <1>2, <1>5 DEF Split
<1> HIDE DEF m
<1>7. Published(s)' = Append(Published(s), m)
  BY <1>1, <1>4, PublishedNext
<1>8. \A t \in Sessions \ {s} : Published(t)' = Published(t)
  BY <1>1, <1>4, PublishedNext
<1>9. ASSUME NEW t \in Sessions PROVE Split(t, Len(said[t]), Published(t), wire[t])'
  <2>1. CASE t = s
    <3>1. wire'[s] = Tail(wire[s])
      BY <1>1 DEF TypeOK
    <3> QED
      BY <1>1, <1>3, <1>7, <2>1, <3>1
  <2>2. CASE t # s
    <3>1. wire'[t] = wire[t]
      BY <1>1, <2>2 DEF TypeOK
    <3>2. Published(t)' = Published(t)
      BY <1>8, <2>2
    <3>3. Split(t, Len(said[t]), Published(t), wire[t])
      BY DEF SaidInOrder
    <3> QED
      BY <1>1, <3>1, <3>2, <3>3
  <2> QED
    BY <2>1, <2>2
<1>10. SaidInOrder'
  BY <1>9 DEF SaidInOrder
<1> QED
  BY <1>3, <1>6, <1>7, <1>8, <1>10 DEF m

\* The other steps of the room leave log, wire and said alone.
LEMMA QuietInOrder ==
    ASSUME SaidInOrder, UNCHANGED <<said, wire, log>>
    PROVE  SaidInOrder' /\ \A t \in Sessions : Published(t)' = Published(t)
  BY DEF SaidInOrder, Published

\* Only saying and publishing touch what was said.
LEMMA RoomActions ==
    ASSUME [Next]_vars
    PROVE  \/ \E s \in Sessions : Say(s) \/ ReadBody(s)
           \/ UNCHANGED <<said, wire, log>>
<1>1. CASE UNCHANGED vars
  BY <1>1 DEF vars
<1>2. ASSUME NEW s \in Sessions, Hangup(s) \/ Accept(s) \/ ReadHeader(s) \/ ReadFailed(s)
                                  \/ WriteDone(s) \/ WriteFailed(s)
      PROVE  UNCHANGED <<said, wire, log>>
  BY <1>2 DEF Hangup, Accept, ReadHeader, ReadFailed, WriteDone, WriteFailed
<1> QED
  BY <1>1, <1>2 DEF Next, Client, Read, Write

\* Every step of the room keeps the order.
LEMMA SaidInOrderNext == IInv /\ SaidInOrder /\ [Next]_vars => SaidInOrder'
  BY RoomActions, SayInOrder, ReadBodyInOrder, QuietInOrder DEF IInv

\* What a client has said is what the room has published of it and what is on
\* the wire, in order, whatever any client of any session does.
THEOREM PublishesInOrder == Spec => []SaidInOrder
  BY SaidInOrderInit, SaidInOrderNext, Invariant, PTL DEF Spec

-----------------------------------------------------------------------------
(* The properties. *)

\* Every variable of the room and of the client keeps its type.
THEOREM SystemTypeCorrect == SystemSpec => []SystemTypeOK
<1>1. SInv => SystemTypeOK
  BY DEF SInv, IInv, ClientInv, SystemTypeOK
<1> QED
  BY <1>1, SystemInvariant, PTL

\* A connected client with messages queued has a write outstanding, unless a
\* write failed before it was connected.
THEOREM ClientTalks == SystemSpec => []TalksUnlessEarly
<1>1. SInv => TalksUnlessEarly
  BY DEF SInv, ClientInv, PumpInv, TalksUnlessEarly
<1> QED
  BY <1>1, SystemInvariant, PTL

\* The client, whatever becomes of its connection, is one of the clients that
\* the room was shown to be correct with: the composed system is a room.
THEOREM SystemIsRoom == SystemSpec => Spec
<1>1. SystemInit => Init
  BY DEF SystemInit
<1>2. SInv /\ [SystemNext]_systemVars => [Next]_vars
  BY SystemIsStep
<1> QED
  BY <1>1, <1>2, SystemInvariant, PTL DEF SystemSpec, Spec

\* So the room gives each session one unbroken stretch of its log here too.
THEOREM SystemStretches ==
    SystemSpec => [](HistoryThenLive /\ StretchAfterLeaving /\ NoMuteParticipant)
<1> QED
  BY SystemIsRoom, ReplayMeetsLive, LeavingKeepsStretch, ParticipantsAreServed, PTL

(***************************************************************************)
(* End to end, from typing to the room.                                    *)
(***************************************************************************)
\* Every client step but one types nothing, and no client step publishes.
LEMMA ClientStepTypes ==
    ASSUME ClientInv, ClientStep
    PROVE  /\ log' = log
           /\ \/ c'.typed = c.typed
              \/ c.typed < MaxSay[Own] /\ c'.typed = c.typed + 1
<1>1. CASE Type
  <2>1. c' = [c EXCEPT !.typed = @ + 1, !.posted = Append(@, c.typed + 1)]
        /\ log' = log /\ c.typed < MaxSay[Own]
    BY <1>1 DEF Type, Only, Room
  <2> QED
    BY <2>1 DEF ClientInv, ClientTypeOK
<1>2. CASE Hangup_ \/ Answer \/ ReadDone_
  BY <1>2 DEF Hangup_, Answer, ReadDone_, Only, Room, ClientInv, ClientTypeOK
<1>3. CASE HandleConnect
  BY <1>3 DEF HandleConnect, DoConnect, Only, Room, ClientInv, ClientTypeOK
<1>4. CASE CheckDeadline \/ ReadFailed_ \/ WriteFailed_
  BY <1>4 DEF CheckDeadline, ReadFailed_, WriteFailed_, Close, Closed, Room, ClientInv, ClientTypeOK
<1>5. CASE RunPosted
  BY <1>5 DEF RunPosted, Queue, Only, Close, Closed, Room, ClientInv, ClientTypeOK
<1>6. CASE Break
  BY <1>6 DEF Break, Room
<1>7. CASE WriteDone_
  BY <1>7 DEF WriteDone_, ClientInv, ClientTypeOK
<1> QED
  BY <1>1, <1>2, <1>3, <1>4, <1>5, <1>6, <1>7 DEF ClientStep, ClientHandler

\* One message more is typed.
LEMMA TypedNext ==
    ASSUME NEW n \in Nat
    PROVE  [i \in 1..(n + 1) |-> <<Own, i>>] = Append([i \in 1..n |-> <<Own, i>>], <<Own, n + 1>>)
<1> DEFINE a == [i \in 1..n |-> <<Own, i>>]
           b == [i \in 1..(n + 1) |-> <<Own, i>>]
           d == Append(a, <<Own, n + 1>>)
           S == {<<Own, i>> : i \in 1..(n + 1)}
<1>1. a \in Seq(S) /\ Len(a) = n
  OBVIOUS
<1>2. b \in Seq(S) /\ Len(b) = n + 1
  OBVIOUS
<1>3. <<Own, n + 1>> \in S
  OBVIOUS
<1>4. /\ d \in Seq(S) /\ Len(d) = n + 1 /\ d[n + 1] = <<Own, n + 1>>
      /\ \A i \in 1..n : d[i] = a[i]
  <2> HIDE DEF a, S
  <2> QED
    BY <1>1, <1>3, AppendProperties
<1>5. ASSUME NEW i \in 1..(n + 1) PROVE b[i] = d[i]
  <2>1. CASE i = n + 1
    BY <1>4, <2>1
  <2>2. CASE i # n + 1
    <3>1. i \in 1..n
      BY <2>2
    <3> QED
      BY <1>4, <3>1
  <2> QED
    BY <2>1, <2>2
<1> HIDE DEF b, d, S
<1> QED
  BY <1>2, <1>4, <1>5, SeqEqual DEF b, d

\* What is published of the client's has been typed, and the next to be
\* published is the next that was typed.
LEMMA NextPublished ==
    ASSUME SInv, Len(Published(Own)) < Len(said[Own])
    PROVE  /\ Len(Published(Own)) < Len(Typed)
           /\ Typed[Len(Published(Own)) + 1] = <<Own, Len(Published(Own)) + 1>>
<1>1. c.typed \in Nat /\ Len(Typed) = c.typed
  BY Fields DEF SInv, ClientInv, Typed
<1>2. said[Own] \in Seq(Msg) /\ Published(Own) \in Seq(Msg)
  BY PublishedType, OwnAssumption DEF SInv, IInv, TypeOK
<1>3. Len(said[Own]) \in Nat /\ Len(Published(Own)) \in Nat
  BY <1>2, LenProperties
<1>4. Len(c.queue) \in Nat /\ Len(c.posted) \in Nat
  BY Fields, LenProperties DEF SInv, ClientInv
<1>5. c.typed = Len(said[Own]) + Len(c.queue) + Len(c.posted)
  BY DEF SInv, ClientInv, Numbered, NumberedFrom
<1>6. \A p, n, q, r, t \in Nat : p < n /\ t = n + q + r => p + 1 \in 1..t
  OBVIOUS
<1>7. Len(Published(Own)) + 1 \in 1..c.typed
  BY <1>1, <1>3, <1>4, <1>5, <1>6
<1> QED
  BY <1>1, <1>3, <1>7 DEF Typed

\* A step of the system accepts, hands over, or neither.
LEMMA EndToEndStep ==
    ASSUME SInv, SaidInOrder, [SystemNext]_systemVars
    PROVE  [EndToEnd!Next]_(EndToEnd!vars)
<1>1. CASE ClientStep
  <2>1. Published(Own)' = Published(Own)
    BY <1>1, ClientStepTypes DEF SInv, Published
  <2>2. CASE c'.typed = c.typed
    BY <2>1, <2>2 DEF EndToEnd!vars, Typed
  <2>3. CASE c.typed < MaxSay[Own] /\ c'.typed = c.typed + 1
    <3>1. c.typed \in Nat /\ MaxSay[Own] \in Nat
      BY Fields, MaxSayNat DEF SInv, ClientInv
    <3>2. Typed' = Append(Typed, <<Own, c.typed + 1>>)
      BY <2>3, <3>1, TypedNext DEF Typed
    <3>3. c.typed + 1 \in 1..MaxSay[Own]
      BY <2>3, <3>1
    <3>4. <<Own, c.typed + 1>> \in Msg
      BY <3>3, OwnAssumption DEF Msg
    <3> QED
      BY <2>1, <3>2, <3>4 DEF EndToEnd!Next, EndToEnd!Accept
  <2> QED
    BY <1>1, <2>2, <2>3, ClientStepTypes DEF SInv
<1>2. CASE ~ClientStep
  <2>1. c' = c
    BY <1>2 DEF SystemNext, systemVars
  <2>2. Typed' = Typed
    BY <2>1 DEF Typed
  <2>3. [Next]_vars
    BY SystemIsStep
  <2>4. ASSUME NEW s \in Sessions, Say(s)
        PROVE  Published(Own)' = Published(Own)
    BY <2>4 DEF Say, Published
  <2>5. ASSUME NEW s \in Sessions \ {Own}, ReadBody(s)
        PROVE  Published(Own)' = Published(Own)
    BY <2>5, ReadBodyInOrder, OwnAssumption DEF SInv, IInv
  <2>6. CASE ReadBody(Own)
    <3>1. /\ Published(Own)' = Append(Published(Own), <<Own, Len(Published(Own)) + 1>>)
          /\ Len(Published(Own)) < Len(said[Own])
      BY <2>6, ReadBodyInOrder, OwnAssumption DEF SInv, IInv
    <3> QED
      BY <2>2, <3>1, NextPublished DEF EndToEnd!Next, EndToEnd!HandOver
  <2>7. CASE UNCHANGED <<said, wire, log>>
    BY <2>2, <2>7 DEF EndToEnd!vars, Published
  <2> QED
    BY <2>2, <2>3, <2>4, <2>5, <2>6, <2>7, RoomActions DEF EndToEnd!vars
<1> QED
  BY <1>1, <1>2

\* What the user types reaches the room in the order of typing, each message
\* at most once: through the posted lambdas, write_msgs_, the connection and
\* the session, the composed system implements the FIFO channel.
THEOREM TypedReachesRoom == SystemSpec => TypedToRoom
<1>1. SystemInit => EndToEnd!Init
  <2> SUFFICES ASSUME SystemInit PROVE EndToEnd!Init
    OBVIOUS
  <2>1. c.typed = 0 /\ log = <<>>
    BY DEF SystemInit, ClientInit, Init
  <2>2. Published(Own) = <<>>
    BY <2>1, KeptEmpty DEF Published
  <2>3. Typed = <<>>
    BY <2>1 DEF Typed
  <2> QED
    BY <2>2, <2>3 DEF EndToEnd!Init
<1>2. SInv /\ SaidInOrder /\ [SystemNext]_systemVars => [EndToEnd!Next]_(EndToEnd!vars)
  BY EndToEndStep
<1> QED
  BY <1>1, <1>2, SystemInvariant, SystemIsRoom, PublishesInOrder, PTL
     DEF SystemSpec, TypedToRoom, EndToEnd!Spec
=============================================================================
