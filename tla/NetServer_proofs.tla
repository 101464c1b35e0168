-------------------------- MODULE NetServer_proofs -------------------------
(***************************************************************************)
(* Proofs about the server's container of connections, for any connections *)
(* and any number of messages: the io thread appends to it at any moment   *)
(* of a broadcast of the application thread.                               *)
(***************************************************************************)
EXTENDS NetServerProps, Data_proofs

(***************************************************************************)
(* The inductive invariant.  Outside a broadcast nobody looks, and no null *)
(* pointer is left; the loop leaves one behind it for each closed          *)
(* connection, never ahead of it, where the io thread appends.             *)
(***************************************************************************)
NoNullsAtRest == appPc = "update" => deq \in Seq(Conn)

OnlyApproved ==
    /\ \A i \in 1..Len(deq) : deq[i] \in approved \cup {NoConn}
    /\ \A i \in 1..Len(kept) : kept[i] \in approved

Served(i) == deq[i] \in open => deq[i] \in told \cup {ignore}

LoopInv ==
    appPc = "visit" =>
        /\ at \in 1..(end + 1) /\ end <= Len(deq)
        /\ \A i \in 1..Len(deq) : i >= at => deq[i] # NoConn
        /\ \A i \in 1..(at - 1) : Served(i)

IInv == TypeOK /\ NoNullsAtRest /\ OnlyApproved /\ LoopInv

\* A sequence of members of S.
LEMMA AllIn ==
    ASSUME NEW T, NEW S, NEW d \in Seq(T), \A i \in 1..Len(d) : d[i] \in S
    PROVE  d \in Seq(S)
<1>1. d \in [1..Len(d) -> S] /\ Len(d) \in Nat
  OBVIOUS
<1> QED
  BY <1>1

\* The erase takes out every null pointer.
LEMMA RemainingType ==
    ASSUME NEW S, NoConn \notin S, S \subseteq Conn, NEW d \in Seq(Conn \cup {NoConn}),
           \A i \in 1..Len(d) : d[i] \in S \cup {NoConn}
    PROVE  Remaining(d) \in Seq(S)
<1>1. d \in Seq(S \cup {NoConn})
  BY AllIn
<1>2. (S \cup {NoConn}) \cap Conn = S
  BY ConnAssumption
<1> QED
  BY <1>1, <1>2, KeptType DEF Remaining

\* What an element of a sequence is, when one more is appended.
LEMMA AppendedConn ==
    ASSUME NEW S, NEW d \in Seq(S), NEW x \in S
    PROVE  /\ Append(d, x) \in Seq(S) /\ Len(Append(d, x)) = Len(d) + 1 /\ Len(d) \in Nat
           /\ \A i \in 1..Len(d) : Append(d, x)[i] = d[i]
           /\ Append(d, x)[Len(d) + 1] = x
  BY AppendProperties, LenProperties

-----------------------------------------------------------------------------
(* The io thread. *)

\* The accept handler appends: what the loop has passed stays as it was.
LEMMA ApproveStep ==
    ASSUME IInv, NEW c \in Conn, AcceptApprove(c)
    PROVE  IInv'
<1> USE DEF IInv, TypeOK
<1>1. /\ c \notin accepted /\ accepted' = accepted \cup {c} /\ approved' = approved \cup {c}
      /\ open' = open \cup {c} /\ deq' = Append(deq, c) /\ ioPc' = "pushed"
      /\ UNCHANGED <<challenged, asked, inQ, appPc, ignore, at, end, kept, told, reported>>
  BY DEF AcceptApprove, app
<1>2. /\ deq' \in Seq(Conn \cup {NoConn}) /\ Len(deq') = Len(deq) + 1 /\ Len(deq) \in Nat
      /\ \A i \in 1..Len(deq) : deq'[i] = deq[i]
      /\ deq'[Len(deq) + 1] = c
  BY <1>1, AppendedConn
<1>3. TypeOK'
  BY <1>1, <1>2
<1>4. NoNullsAtRest'
  BY <1>1, AppendedConn DEF NoNullsAtRest
<1>5. OnlyApproved'
  <2>1. ASSUME NEW i \in 1..Len(deq') PROVE deq'[i] \in approved' \cup {NoConn}
    <3>1. CASE i \in 1..Len(deq)
      BY <1>1, <1>2, <3>1 DEF OnlyApproved
    <3>2. CASE i \notin 1..Len(deq)
      <4>1. i = Len(deq) + 1
        BY <1>2, <3>2
      <4> QED
        BY <1>1, <1>2, <4>1
    <3> QED
      BY <3>1, <3>2
  <2>2. \A i \in 1..Len(kept') : kept'[i] \in approved'
    BY <1>1 DEF OnlyApproved
  <2> QED
    BY <2>1, <2>2 DEF OnlyApproved
<1>6. LoopInv'
  <2> SUFFICES ASSUME appPc = "visit" PROVE LoopInv'
    BY <1>1 DEF LoopInv
  <2>1. at \in 1..(end + 1) /\ end <= Len(deq')
    BY <1>2 DEF LoopInv
  <2>2. \A i \in 1..Len(deq') : i >= at => deq'[i] # NoConn
    <3> SUFFICES ASSUME NEW i \in 1..Len(deq'), i >= at PROVE deq'[i] # NoConn
      OBVIOUS
    <3>1. CASE i = Len(deq) + 1
      BY <1>2, <3>1, ConnAssumption
    <3>2. CASE i \in 1..Len(deq)
      BY <1>2, <3>2 DEF LoopInv
    <3> QED
      BY <1>2, <3>1, <3>2
  <2>3. ASSUME NEW i \in 1..(at - 1) PROVE Served(i)'
    <3>1. i \in 1..Len(deq) /\ deq'[i] = deq[i] /\ Served(i)
      BY <1>2 DEF LoopInv
    <3>2. deq[i] # c
      BY <1>1, <3>1, ConnAssumption DEF OnlyApproved
    <3> QED
      BY <1>1, <3>1, <3>2 DEF Served
  <2> QED
    BY <1>1, <2>1, <2>2, <2>3 DEF LoopInv
<1> QED
  BY <1>3, <1>4, <1>5, <1>6

\* The steps of the io thread that leave the container alone.
LEMMA IoStep ==
    ASSUME IInv,
           AcceptConnect \/ \E c \in Conn : AcceptDeny(c) \/ Receive(c) \/ Fail(c)
    PROVE  IInv'
<1> USE DEF IInv, TypeOK
<1>1. /\ UNCHANGED <<approved, deq, appPc, ignore, at, end, kept, told, reported>>
      /\ open' \subseteq open
  BY DEF AcceptDeny, AcceptConnect, Receive, Fail, app, io
<1>2. TypeOK'
  <2>1. ASSUME NEW c \in Conn, AcceptDeny(c) PROVE TypeOK'
    BY <1>1, <2>1 DEF AcceptDeny
  <2>2. CASE AcceptConnect
    BY <1>1, <2>2 DEF AcceptConnect
  <2>3. ASSUME NEW c \in Conn, Receive(c) PROVE TypeOK'
    <3>1. PICK k \in Kind : inQ' = Append(inQ, [remote |-> c, kind |-> k])
      BY <2>3 DEF Receive
    <3>2. inQ' \in Seq(Inbound)
      BY <3>1, AppendProperties DEF Inbound
    <3> QED
      BY <1>1, <2>3, <3>2, SendAssumption DEF Receive
  <2>4. ASSUME NEW c \in Conn, Fail(c) PROVE TypeOK'
    BY <1>1, <2>4 DEF Fail, io
  <2> QED
    BY <2>1, <2>2, <2>3, <2>4
<1>3. NoNullsAtRest' /\ OnlyApproved' /\ LoopInv'
  BY <1>1 DEF NoNullsAtRest, OnlyApproved, LoopInv, Served
<1> QED
  BY <1>2, <1>3

-----------------------------------------------------------------------------
(* The application thread. *)

\* Update takes a message off the queue.
LEMMA TakeType ==
    ASSUME TypeOK, NEW k, Take(k)
    PROVE  inQ' \in Seq(Inbound) /\ Head(inQ).remote \in Conn /\ appPc = "update"
<1>1. inQ \in Seq(Inbound) /\ inQ # <<>> /\ inQ' = Tail(inQ) /\ appPc = "update"
  BY DEF Take, TypeOK
<1>2. Head(inQ) \in Inbound /\ Tail(inQ) \in Seq(Inbound)
  BY <1>1, HeadTailProperties
<1> QED
  BY <1>1, <1>2 DEF Inbound

\* OnMessage for one client leaves the container alone.
LEMMA UpdateStep ==
    ASSUME IInv, OnPing \/ MessageClient
    PROVE  IInv'
<1> USE DEF IInv, TypeOK
<1>1. /\ inQ' \in Seq(Inbound) /\ Head(inQ).remote \in Conn /\ appPc = "update"
      /\ UNCHANGED <<accepted, approved, challenged, asked, ioPc, appPc, ignore, at, end, kept,
                     told, open>>
  BY TakeType DEF OnPing, MessageClient, app, io
<1>2. reported' \in [Conn -> Nat]
  <2>1. CASE OnPing
    BY <2>1 DEF OnPing, app
  <2>2. CASE MessageClient
    <3>1. PICK c \in Conn : reported' = reported \/ reported' = [reported EXCEPT ![c] = @ + 1]
      BY <1>1, <2>2 DEF MessageClient
    <3>2. reported[c] + 1 \in Nat
      OBVIOUS
    <3> QED
      BY <3>1, <3>2
  <2> QED
    BY <2>1, <2>2
<1>3. deq \in Seq(approved)
  <2>1. deq \in Seq(Conn) /\ \A i \in 1..Len(deq) : deq[i] \in approved
    BY <1>1, ConnAssumption DEF NoNullsAtRest, OnlyApproved
  <2> QED
    BY <2>1, AllIn
<1>4. deq' \in Seq(approved)
  <2>1. deq' = deq \/ deq' = Remaining(deq)
    BY DEF OnPing, MessageClient
  <2>2. Remaining(deq) \in Seq(approved)
    BY <1>3, ConnAssumption, RemainingType DEF OnlyApproved
  <2> QED
    BY <1>3, <2>1, <2>2
<1>5. deq' \in Seq(Conn) /\ deq' \in Seq(Conn \cup {NoConn}) /\ \A i \in 1..Len(deq') : deq'[i] \in approved
  BY <1>4
<1> QED
  BY <1>1, <1>2, <1>5 DEF NoNullsAtRest, OnlyApproved, LoopInv

\* A broadcast starts with nothing passed.
LEMMA BroadcastBeginStep ==
    ASSUME IInv, BroadcastBegin
    PROVE  IInv'
<1> USE DEF IInv, TypeOK
<1>1. inQ' \in Seq(Inbound) /\ Head(inQ).remote \in Conn /\ appPc = "update"
  BY TakeType DEF BroadcastBegin
<1>2. /\ appPc' = "visit" /\ ignore' \in Conn /\ at' = 1 /\ end' = Len(deq) /\ told' = {}
      /\ UNCHANGED <<accepted, approved, challenged, asked, ioPc, kept, reported, open, deq>>
  BY <1>1 DEF BroadcastBegin, io
<1>3. deq \in Seq(Conn) /\ Len(deq) \in Nat
  BY <1>1 DEF NoNullsAtRest
<1>4. \A i \in 1..Len(deq) : deq[i] # NoConn
  BY <1>3, ConnAssumption
<1> QED
  BY <1>1, <1>2, <1>3, <1>4 DEF NoNullsAtRest, OnlyApproved, LoopInv

\* The loop passes an open connection, or resets a closed one.
LEMMA VisitStep ==
    ASSUME IInv, VisitOpen \/ VisitClosed
    PROVE  IInv'
<1> USE DEF IInv, TypeOK
<1>1. /\ appPc = "visit" /\ at \in 1..end /\ at' = at + 1 /\ end <= Len(deq) /\ Len(deq) \in Nat
      /\ UNCHANGED <<accepted, approved, challenged, asked, ioPc, appPc, ignore, end, kept, open,
                     inQ>>
  BY DEF VisitOpen, VisitClosed, io, LoopInv
<1>2. at \in 1..Len(deq) /\ deq[at] # NoConn /\ deq[at] \in approved /\ deq[at] \in Conn
  BY <1>1 DEF LoopInv, OnlyApproved
<1>3. CASE VisitOpen
  <2>1. told' = told \cup ({deq[at]} \ {ignore}) /\ deq' = deq /\ reported' = reported
    BY <1>3 DEF VisitOpen
  <2>2. ASSUME NEW i \in 1..(at' - 1) PROVE Served(i)'
    <3>1. CASE i = at
      BY <1>1, <2>1, <3>1 DEF Served
    <3>2. CASE i # at
      BY <1>1, <2>1, <3>2 DEF LoopInv, Served
    <3> QED
      BY <3>1, <3>2
  <2>3. LoopInv'
    BY <1>1, <2>1, <2>2 DEF LoopInv
  <2>4. told' \subseteq Conn
    BY <1>2, <2>1
  <2>5. TypeOK'
    BY <1>1, <2>1, <2>4
  <2> QED
    BY <1>1, <2>1, <2>3, <2>5 DEF NoNullsAtRest, OnlyApproved
<1>4. CASE VisitClosed
  <2>1. /\ deq' = [deq EXCEPT ![at] = NoConn] /\ told' = told /\ deq[at] \notin open
        /\ reported' = [reported EXCEPT ![deq[at]] = @ + 1]
    BY <1>4 DEF VisitClosed
  <2>2. /\ deq' \in Seq(Conn \cup {NoConn}) /\ Len(deq') = Len(deq)
        /\ \A i \in 1..Len(deq) : deq'[i] = IF i = at THEN NoConn ELSE deq[i]
    BY <1>2, <2>1, ExceptSeq
  <2>3. ASSUME NEW i \in 1..(at' - 1) PROVE Served(i)'
    <3>1. CASE i = at
      BY <1>1, <1>2, <2>2, <3>1, ConnAssumption DEF Served
    <3>2. CASE i # at
      BY <1>1, <2>1, <2>2, <3>2 DEF LoopInv, Served
    <3> QED
      BY <3>1, <3>2
  <2>4. LoopInv'
    <3>1. ASSUME NEW i \in 1..Len(deq'), i >= at' PROVE deq'[i] # NoConn
      <4>1. i \in 1..Len(deq) /\ i # at /\ i >= at
        BY <1>1, <2>2, <3>1
      <4>2. deq'[i] = deq[i]
        BY <2>2, <4>1
      <4> QED
        BY <1>1, <4>1, <4>2 DEF LoopInv
    <3>2. at' \in 1..(end' + 1) /\ end' <= Len(deq')
      BY <1>1, <2>2
    <3> QED
      BY <2>3, <3>1, <3>2 DEF LoopInv
  <2>5. reported' \in [Conn -> Nat]
    BY <1>2, <2>1
  <2>6. OnlyApproved'
    BY <1>1, <2>2 DEF OnlyApproved
  <2> QED
    BY <1>1, <2>1, <2>2, <2>4, <2>5, <2>6 DEF NoNullsAtRest
<1> QED
  BY <1>3, <1>4

\* What the erase is to keep is computed.
LEMMA VisitEndStep ==
    ASSUME IInv, VisitEnd
    PROVE  IInv'
<1> USE DEF IInv, TypeOK
<1>1. /\ appPc = "visit" /\ at = end + 1 /\ end <= Len(deq) /\ Len(deq) \in Nat
      /\ UNCHANGED <<accepted, approved, challenged, asked, ioPc, ignore, at, end, told, reported,
                     open, deq, inQ>>
  BY DEF VisitEnd, io, LoopInv
<1>2. CASE \E i \in 1..end : deq[i] = NoConn
  <2>1. appPc' = "erase" /\ kept' = Remaining(deq)
    BY <1>2 DEF VisitEnd
  <2>2. Remaining(deq) \in Seq(approved)
    BY ConnAssumption, RemainingType DEF OnlyApproved
  <2>3. kept' \in Seq(Conn) /\ \A i \in 1..Len(kept') : kept'[i] \in approved
    BY <2>1, <2>2
  <2> QED
    BY <1>1, <2>1, <2>3 DEF NoNullsAtRest, OnlyApproved, LoopInv
<1>3. CASE ~\E i \in 1..end : deq[i] = NoConn
  <2>1. appPc' = "update" /\ kept' = kept
    BY <1>3 DEF VisitEnd
  <2>2. \A i \in 1..Len(deq) : deq[i] \in Conn
    BY <1>1, <1>3 DEF LoopInv
  <2>3. deq \in Seq(Conn)
    BY <2>2, AllIn
  <2> QED
    BY <1>1, <2>1, <2>3 DEF NoNullsAtRest, OnlyApproved, LoopInv
<1> QED
  BY <1>2, <1>3

\* The container holds what was computed before.
LEMMA EraseEndStep ==
    ASSUME IInv, EraseEnd
    PROVE  IInv'
<1> USE DEF IInv, TypeOK
<1>1. /\ deq' = kept /\ appPc' = "update"
      /\ UNCHANGED <<accepted, approved, challenged, asked, ioPc, ignore, at, end, kept, told,
                     reported, open, inQ>>
  BY DEF EraseEnd, io
<1>2. deq' \in Seq(Conn) /\ deq' \in Seq(Conn \cup {NoConn})
  BY <1>1
<1> QED
  BY <1>1, <1>2 DEF NoNullsAtRest, OnlyApproved, LoopInv

-----------------------------------------------------------------------------
(* The invariant and the properties. *)

\* The invariant holds at first, ...
LEMMA IInvInit == Init => IInv
<1> SUFFICES ASSUME Init PROVE IInv
  OBVIOUS
<1>1. /\ <<>> \in Seq(Conn \cup {NoConn}) /\ <<>> \in Seq(Conn) /\ <<>> \in Seq(Inbound)
      /\ Len(<<>>) = 0
  BY EmptySeq
<1>2. TypeOK
  BY <1>1, SendAssumption DEF Init, TypeOK
<1> QED
  BY <1>1, <1>2 DEF Init, IInv, NoNullsAtRest, OnlyApproved, LoopInv

\* ... and every step keeps it.
LEMMA IInvNext == IInv /\ [Next]_vars => IInv'
<1> SUFFICES ASSUME IInv, [Next]_vars PROVE IInv'
  OBVIOUS
<1>1. CASE IoThread
  <2>1. \/ \E c \in Conn : AcceptApprove(c)
        \/ AcceptConnect
        \/ \E c \in Conn : AcceptDeny(c) \/ Receive(c) \/ Fail(c)
    BY <1>1 DEF IoThread
  <2> QED
    BY <2>1, ApproveStep, IoStep
<1>2. CASE Application
  BY <1>2, UpdateStep, BroadcastBeginStep, VisitStep, VisitEndStep, EraseEndStep
     DEF Application, Broadcast
<1>3. CASE UNCHANGED vars
  BY <1>3 DEF vars, io, app, IInv, TypeOK, NoNullsAtRest, OnlyApproved, LoopInv, Served
<1> QED
  BY <1>1, <1>2, <1>3 DEF Next

\* The strengthened invariant holds in every reachable state.
THEOREM Invariant == Spec => []IInv
<1> QED
  BY IInvInit, IInvNext, PTL DEF Spec

\* Every variable of the server keeps its type, whatever the two threads
\* interleave: only connections that were let in are challenged.
THEOREM TypeCorrect == Spec => []TypeOK
<1>1. IInv => TypeOK
  BY DEF IInv
<1> QED
  BY <1>1, Invariant, PTL

\* A broadcast meets no pointer that it, or an earlier one, has reset.
THEOREM NoNullVisited == Spec => []NeverVisitsNull
<1>1. IInv => NeverVisitsNull
  BY DEF IInv, TypeOK, LoopInv, NeverVisitsNull
<1> QED
  BY <1>1, Invariant, PTL

\* A broadcast that is over has reached every open connection it began with.
THEOREM BroadcastReachesAll == Spec => []BroadcastReaches
<1>1. IInv => BroadcastReaches
  BY DEF IInv, TypeOK, LoopInv, Served, BroadcastReaches
<1> QED
  BY <1>1, Invariant, PTL
=============================================================================
