--------------------------- MODULE ChatRoom_proofs -------------------------
(***************************************************************************)
(* Proofs about the chat room for any sessions, any number of messages and *)
(* any size of the history.                                                *)
(***************************************************************************)
EXTENDS ChatRoomProps, SequenceTheorems, TLAPS

(***************************************************************************)
(* The inductive invariant: what sessions were given is a stretch of the   *)
(* log because recent_msgs_ always is its end.                             *)
(***************************************************************************)
RecentIsEnd == recent = SubSeq(log, Missed(Len(log)) + 1, Len(log))

Untouched == \A s \in Sessions \ accepted :
                out[s] = <<>> /\ writeQ[s] = <<>> /\ ~writing[s]

JoinedBefore == \A s \in Sessions : joinedAt[s] <= Len(log)

Running == /\ RecentIsEnd
           /\ Untouched
           /\ JoinedBefore

IInv == /\ TypeOK
        /\ Running
        /\ HistoryThenLive
        /\ StretchAfterLeaving
        /\ NoMuteParticipant
        /\ WriteHasBuffer

(***************************************************************************)
(* What is given to a session is split between out and write_msgs_.        *)
(***************************************************************************)
LEMMA AppendToSecond ==
    ASSUME NEW S, NEW a \in Seq(S), NEW c \in Seq(S), NEW x \in S
    PROVE  a \o Append(c, x) = Append(a \o c, x)
  BY AppendIsConcat, ConcatProperties, ConcatAssociative

LEMMA HeadToFirst ==
    ASSUME NEW S, NEW a \in Seq(S), NEW c \in Seq(S), c # <<>>
    PROVE  Append(a, Head(c)) \o Tail(c) = a \o c
  OBVIOUS

(***************************************************************************)
(* Stretches of a sequence.                                                *)
(***************************************************************************)
LEMMA MissedType == \A n \in Nat : Missed(n) \in Nat /\ Missed(n) <= n
  BY RecentAssumption DEF Missed

LEMMA MissedNext ==
    \A n \in Nat :
        \/ n < MaxRecent /\ Missed(n) = 0 /\ Missed(n + 1) = 0
        \/ n >= MaxRecent /\ Missed(n) = n - MaxRecent /\ Missed(n + 1) = Missed(n) + 1
  BY RecentAssumption DEF Missed

\* The elements of a stretch.
LEMMA Stretch ==
    ASSUME NEW S, NEW q \in Seq(S), NEW a \in Nat, NEW b \in Nat, a <= b, b <= Len(q)
    PROVE  /\ SubSeq(q, a + 1, b) \in Seq(S)
           /\ Len(SubSeq(q, a + 1, b)) = b - a
           /\ \A i \in 1..(b - a) : SubSeq(q, a + 1, b)[i] = q[a + i]
<1>1. \A i \in (a + 1)..b : q[i] \in S
  BY ElementOfSeq, LenProperties
<1>2. QED
  BY <1>1, SubSeqProperties, LenProperties

\* Appending to the log leaves earlier stretches as they are.
LEMMA StretchKept ==
    ASSUME NEW S, NEW q \in Seq(S), NEW m \in S, NEW a \in Nat, NEW b \in Nat,
           a <= b, b <= Len(q)
    PROVE  SubSeq(Append(q, m), a + 1, b) = SubSeq(q, a + 1, b)
<1>1. /\ Append(q, m) \in Seq(S) /\ Len(Append(q, m)) = Len(q) + 1
      /\ \A i \in 1..Len(q) : Append(q, m)[i] = q[i]
      /\ Len(q) \in Nat
  BY AppendProperties, LenProperties
<1>2. /\ SubSeq(Append(q, m), a + 1, b) \in Seq(S)
      /\ Len(SubSeq(Append(q, m), a + 1, b)) = b - a
      /\ \A i \in 1..(b - a) : SubSeq(Append(q, m), a + 1, b)[i] = Append(q, m)[a + i]
  BY <1>1, Stretch
<1>3. /\ SubSeq(q, a + 1, b) \in Seq(S)
      /\ Len(SubSeq(q, a + 1, b)) = b - a
      /\ \A i \in 1..(b - a) : SubSeq(q, a + 1, b)[i] = q[a + i]
  BY Stretch
<1>4. \A i \in 1..(b - a) : a + i \in 1..Len(q)
  BY <1>1
<1>5. QED
  BY <1>1, <1>2, <1>3, <1>4, SeqEqual

\* A stretch that reaches the end of the log grows with it.
LEMMA StretchGrows ==
    ASSUME NEW S, NEW q \in Seq(S), NEW m \in S, NEW a \in Nat, a <= Len(q)
    PROVE  Append(SubSeq(q, a + 1, Len(q)), m)
             = SubSeq(Append(q, m), a + 1, Len(q) + 1)
<1> DEFINE old == SubSeq(q, a + 1, Len(q))
           new == SubSeq(Append(q, m), a + 1, Len(q) + 1)
<1>1. /\ Append(q, m) \in Seq(S) /\ Len(Append(q, m)) = Len(q) + 1
      /\ \A i \in 1..Len(q) : Append(q, m)[i] = q[i]
      /\ Append(q, m)[Len(q) + 1] = m
      /\ Len(q) \in Nat
  BY AppendProperties, LenProperties
<1>2. /\ old \in Seq(S) /\ Len(old) = Len(q) - a
      /\ \A i \in 1..(Len(q) - a) : old[i] = q[a + i]
  BY <1>1, Stretch
<1>3. /\ new \in Seq(S) /\ Len(new) = Len(q) + 1 - a
      /\ \A i \in 1..(Len(q) + 1 - a) : new[i] = Append(q, m)[a + i]
  BY <1>1, Stretch
<1>4. /\ Append(old, m) \in Seq(S) /\ Len(Append(old, m)) = Len(q) - a + 1
      /\ \A i \in 1..(Len(q) - a) : Append(old, m)[i] = q[a + i]
      /\ Append(old, m)[Len(q) - a + 1] = m
  BY <1>2, AppendProperties
<1>5. ASSUME NEW i \in 1..Len(new) PROVE Append(old, m)[i] = new[i]
  <2>1. CASE i = Len(q) - a + 1
    BY <1>1, <1>3, <1>4, <2>1
  <2>2. CASE i # Len(q) - a + 1
    <3>1. i \in 1..(Len(q) - a) /\ a + i \in 1..Len(q)
      BY <1>1, <1>3, <2>2
    <3>2. QED
      BY <1>1, <1>3, <1>4, <3>1
  <2>3. QED
    BY <2>1, <2>2
<1>6. QED
  BY <1>1, <1>3, <1>4, <1>5, SeqEqual

\* Dropping the head of a stretch gives the stretch one further on.
LEMMA StretchDrop ==
    ASSUME NEW S, NEW q \in Seq(S), NEW a \in Nat, NEW b \in Nat, a < b, b <= Len(q)
    PROVE  SubSeq(SubSeq(q, a + 1, b), 2, b - a) = SubSeq(q, a + 2, b)
<1> DEFINE s == SubSeq(q, a + 1, b)
<1>1. s \in Seq(S) /\ Len(s) = b - a /\ \A i \in 1..(b - a) : s[i] = q[a + i]
  BY Stretch
<1>2. /\ SubSeq(s, 1 + 1, b - a) \in Seq(S)
      /\ Len(SubSeq(s, 1 + 1, b - a)) = (b - a) - 1
      /\ \A i \in 1..((b - a) - 1) : SubSeq(s, 1 + 1, b - a)[i] = s[1 + i]
  BY <1>1, Stretch
<1>3. /\ SubSeq(q, (a + 1) + 1, b) \in Seq(S)
      /\ Len(SubSeq(q, (a + 1) + 1, b)) = b - (a + 1)
      /\ \A i \in 1..(b - (a + 1)) : SubSeq(q, (a + 1) + 1, b)[i] = q[(a + 1) + i]
  BY Stretch
<1>4. \A i \in 1..((b - a) - 1) : s[1 + i] = q[(a + 1) + i]
  BY <1>1
<1>5. SubSeq(s, 1 + 1, b - a) = SubSeq(q, (a + 1) + 1, b)
  BY <1>2, <1>3, <1>4, SeqEqual
<1>6. 1 + 1 = 2 /\ (a + 1) + 1 = a + 2
  OBVIOUS
<1>7. QED
  BY <1>5, <1>6

\* A stretch up to the end of the log is a stretch of its own length.
LEMMA EndStretch ==
    ASSUME NEW S, NEW q \in Seq(S), NEW a \in Nat, a <= Len(q), NEW g,
           g = SubSeq(q, a + 1, Len(q))
    PROVE  a + Len(g) <= Len(q) /\ g = SubSeq(q, a + 1, a + Len(g))
<1>1. Len(q) \in Nat
  BY LenProperties
<1>2. Len(g) = Len(q) - a
  BY <1>1, Stretch
<1>3. a + Len(g) = Len(q)
  BY <1>1, <1>2
<1>4. QED
  BY <1>1, <1>3

\* deliver() keeps recent_msgs_ the end of the log.
LEMMA TrimKeepsEnd ==
    ASSUME NEW S, NEW q \in Seq(S), NEW m \in S
    PROVE  Trim(Append(SubSeq(q, Missed(Len(q)) + 1, Len(q)), m))
             = SubSeq(Append(q, m), Missed(Len(q) + 1) + 1, Len(q) + 1)
<1> DEFINE t == SubSeq(Append(q, m), Missed(Len(q)) + 1, Len(q) + 1)
<1>1. PICK k \in Nat : k = Len(q)
  BY LenProperties
<1>2. PICK a \in Nat : a = Missed(k) /\ a <= k
  BY MissedType
<1>3. Append(q, m) \in Seq(S) /\ Len(Append(q, m)) = k + 1
  BY <1>1, AppendProperties
<1>4. Append(SubSeq(q, a + 1, k), m) = t
  BY <1>1, <1>2, StretchGrows
<1>5. t \in Seq(S) /\ Len(t) = k + 1 - a
  BY <1>1, <1>2, <1>3, Stretch
<1>6. CASE k < MaxRecent
  <2>1. a = 0 /\ Missed(k + 1) = 0
    BY <1>2, <1>6, MissedNext, RecentAssumption
  <2>2. ~(Len(t) > MaxRecent)
    BY <1>5, <1>6, <2>1, RecentAssumption
  <2>3. Trim(t) = t
    BY <2>2 DEF Trim
  <2>4. t = SubSeq(Append(q, m), Missed(k + 1) + 1, k + 1)
    BY <1>1, <1>2, <2>1
  <2>5. QED
    BY <1>1, <1>2, <1>4, <2>3, <2>4
<1>7. CASE k >= MaxRecent
  <2>1. a = k - MaxRecent /\ Missed(k + 1) = a + 1
    BY <1>2, <1>7, MissedNext, RecentAssumption
  <2>2. /\ Len(t) = MaxRecent + 1 /\ k + 1 - a = MaxRecent + 1
        /\ Len(t) - MaxRecent + 1 = 2 /\ Len(t) > MaxRecent
    BY <1>5, <2>1, RecentAssumption, SMTT(30)
  <2>3. Trim(t) = SubSeq(t, 2, k + 1 - a)
    BY <2>2 DEF Trim
  <2>4. SubSeq(t, 2, k + 1 - a) = SubSeq(Append(q, m), a + 2, k + 1)
    <3>1. a < k + 1 /\ k + 1 \in Nat
      BY <1>2
    <3>2. SubSeq(SubSeq(Append(q, m), a + 1, k + 1), 2, k + 1 - a)
            = SubSeq(Append(q, m), a + 2, k + 1)
      BY <1>3, <3>1, StretchDrop
    <3>3. QED
      BY <1>1, <1>2, <3>2
  <2>5. Missed(k + 1) + 1 = a + 2
    BY <2>1
  <2>6. QED
    BY <1>1, <1>2, <1>4, <2>3, <2>4, <2>5
<1>8. k < MaxRecent \/ k >= MaxRecent
  BY RecentAssumption
<1>9. QED
  BY <1>6, <1>7, <1>8

-----------------------------------------------------------------------------
(* Types. *)

LEMMA TypeInit == Init => TypeOK
<1> SUFFICES ASSUME Init PROVE TypeOK
  OBVIOUS
<1>1. \A S : <<>> \in Seq(S)
  BY EmptySeq
<1>2. Len(<<>>) <= MaxRecent
  BY RecentAssumption
<1>3. QED
  BY <1>1, <1>2 DEF Init, TypeOK

LEMMA TypeDeliver ==
    ASSUME TypeOK, NEW m \in Msg, Deliver(m)
    PROVE  /\ log' \in Seq(Msg) /\ recent' \in Seq(Msg)
           /\ Len(recent') <= MaxRecent
           /\ writeQ' \in [Sessions -> Seq(Msg)]
           /\ writing' \in [Sessions -> BOOLEAN]
<1>1. log' \in Seq(Msg)
  BY AppendProperties DEF Deliver, TypeOK
<1>2. recent' \in Seq(Msg) /\ Len(recent') <= MaxRecent
  <2> DEFINE r == Append(recent, m)
  <2>1. r \in Seq(Msg)
    BY AppendProperties DEF TypeOK
  <2>2. ASSUME Len(r) > MaxRecent
        PROVE  /\ SubSeq(r, Len(r) - MaxRecent + 1, Len(r)) \in Seq(Msg)
               /\ Len(SubSeq(r, Len(r) - MaxRecent + 1, Len(r))) = MaxRecent
    <3>1. /\ Len(r) - MaxRecent \in Nat /\ Len(r) - MaxRecent <= Len(r)
          /\ Len(r) \in Nat
      BY <2>1, <2>2, LenProperties, RecentAssumption
    <3>2. Len(r) - (Len(r) - MaxRecent) = MaxRecent
      BY <3>1, RecentAssumption
    <3>3. QED
      BY <2>1, <3>1, <3>2, Stretch
  <2>3. Trim(r) \in Seq(Msg) /\ Len(Trim(r)) <= MaxRecent
    BY <2>1, <2>2, LenProperties, RecentAssumption DEF Trim
  <2>4. QED
    BY <2>3 DEF Deliver
<1>3. \A s \in Sessions : Append(writeQ[s], m) \in Seq(Msg)
  BY AppendProperties DEF TypeOK
<1>4. writeQ' \in [Sessions -> Seq(Msg)]
  BY <1>3 DEF Deliver, TypeOK
<1>5. QED
  BY <1>1, <1>2, <1>4 DEF Deliver, TypeOK

\* What is read from a client is one of its messages.
LEMMA ReadsMessage ==
    ASSUME TypeOK, NEW s \in Sessions, ReadBody(s)
    PROVE  /\ Head(wire[s]).msg \in Msg /\ Tail(wire[s]) \in Seq(Frame)
           /\ Deliver(Head(wire[s]).msg)
<1>1. Head(wire[s]) \in Frame /\ Tail(wire[s]) \in Seq(Frame)
  BY HeadTailProperties DEF ReadBody, TypeOK
<1>2. Head(wire[s]).msg \in Msg
  BY <1>1 DEF Frame
<1>3. QED
  BY <1>1, <1>2 DEF ReadBody

LEMMA TypeNext ==
    ASSUME TypeOK, WriteHasBuffer, NEW s \in Sessions,
           Client(s) \/ Accept(s) \/ Read(s) \/ Write(s)
    PROVE  TypeOK'
<1>1. CASE Say(s)
  <2> DEFINE m == <<s, Len(said[s]) + 1>>
  <2>1. m \in Msg
    <3>1. Len(said[s]) \in Nat /\ MaxSay[s] \in Nat
      BY SayAssumption, LenProperties DEF TypeOK
    <3>2. Len(said[s]) + 1 \in 1..MaxSay[s]
      BY <1>1, <3>1 DEF Say
    <3>3. QED
      BY <3>2 DEF Msg
  <2>2. said' \in [Sessions -> Seq(Msg)]
    BY <1>1, <2>1, AppendProperties DEF Say, TypeOK
  <2>3. PICK ok \in BOOLEAN :
          wire' = [wire EXCEPT ![s] = Append(@, [msg |-> m, ok |-> ok])]
    BY <1>1 DEF Say
  <2>4. wire' \in [Sessions -> Seq(Frame)]
    <3>1. [msg |-> m, ok |-> ok] \in Frame
      BY <2>1 DEF Frame
    <3>2. QED
      BY <2>3, <3>1, AppendProperties DEF TypeOK
  <2>5. QED
    BY <1>1, <2>2, <2>4 DEF Say, TypeOK
<1>2. CASE Hangup(s)
  BY <1>2 DEF Hangup, TypeOK
<1>3. CASE Accept(s)
  <2>1. writeQ' \in [Sessions -> Seq(Msg)]
    BY <1>3, ConcatProperties DEF Accept, Join, TypeOK
  <2>2. joinedAt' \in [Sessions -> Nat]
    BY <1>3, LenProperties DEF Accept, Join, TypeOK
  <2>3. QED
    BY <1>3, <2>1, <2>2 DEF Accept, Join, TypeOK
<1>4. CASE ReadHeader(s)
  BY <1>4 DEF ReadHeader, Leave, TypeOK
<1>5. CASE ReadBody(s)
  <2>1. wire' \in [Sessions -> Seq(Frame)]
    BY <1>5, ReadsMessage DEF ReadBody, TypeOK
  <2>2. QED
    BY <1>5, <2>1, ReadsMessage, TypeDeliver DEF ReadBody, TypeOK
<1>6. CASE ReadFailed(s)
  BY <1>6 DEF ReadFailed, Leave, TypeOK
<1>7. CASE WriteDone(s)
  <2>1. Head(writeQ[s]) \in Msg /\ Tail(writeQ[s]) \in Seq(Msg)
    BY <1>7, HeadTailProperties DEF WriteDone, WriteHasBuffer, TypeOK
  <2>2. out' \in [Sessions -> Seq(Msg)]
    BY <1>7, <2>1, AppendProperties DEF WriteDone, TypeOK
  <2>3. QED
    BY <1>7, <2>1, <2>2 DEF WriteDone, TypeOK
<1>8. CASE WriteFailed(s)
  BY <1>8 DEF WriteFailed, Leave, TypeOK
<1>9. QED
  BY <1>1, <1>2, <1>3, <1>4, <1>5, <1>6, <1>7, <1>8 DEF Client, Read, Write

-----------------------------------------------------------------------------
(* What one session was given. *)

Live(s) == Given(s) = SubSeq(log, Missed(joinedAt[s]) + 1, Len(log))

Stretched(s) == /\ Missed(joinedAt[s]) + Len(Given(s)) <= Len(log)
                /\ Given(s) = SubSeq(log, Missed(joinedAt[s]) + 1,
                                     Missed(joinedAt[s]) + Len(Given(s)))

Pumped(s) == /\ s \in participants /\ writeQ[s] # <<>> => writing[s]
             /\ writing[s] => writeQ[s] # <<>>

LEMMA GivenType ==
    ASSUME TypeOK, JoinedBefore, NEW s \in Sessions
    PROVE  /\ Given(s) \in Seq(Msg) /\ Len(Given(s)) \in Nat
           /\ Missed(joinedAt[s]) \in Nat /\ Len(log) \in Nat
           /\ Missed(joinedAt[s]) <= Len(log)
<1>1. Given(s) \in Seq(Msg)
  BY ConcatProperties DEF Given, TypeOK
<1>2. joinedAt[s] \in Nat /\ joinedAt[s] <= Len(log) /\ Len(log) \in Nat
  BY LenProperties DEF TypeOK, JoinedBefore
<1>3. Missed(joinedAt[s]) \in Nat /\ Missed(joinedAt[s]) <= joinedAt[s]
  BY <1>2, MissedType
<1>4. QED
  BY <1>1, <1>2, <1>3, LenProperties

\* join(): the session is given what recent_msgs_ holds.
LEMMA JoinLive ==
    ASSUME TypeOK, Running, NEW s \in Sessions, Accept(s)
    PROVE  Live(s)'
<1>1. out'[s] = <<>> /\ writeQ[s] = <<>> /\ recent \in Seq(Msg)
  BY DEF Accept, Running, Untouched, TypeOK
<1>2. writeQ'[s] = <<>> \o recent
  BY <1>1 DEF Accept, Join, TypeOK
<1>3. Given(s)' = recent
  BY <1>1, <1>2, ConcatEmptySeq DEF Given
<1>4. joinedAt'[s] = Len(log) /\ log' = log
  BY DEF Accept, Join, TypeOK
<1>5. QED
  BY <1>3, <1>4 DEF Live, Running, RecentIsEnd

\* deliver(): a participant is given the message, others are given nothing.
LEMMA DeliverLive ==
    ASSUME TypeOK, Running, NEW m \in Msg, Deliver(m), out' = out, joinedAt' = joinedAt,
           NEW s \in participants, s \in Sessions, Live(s)
    PROVE  Live(s)'
<1> DEFINE a == Missed(joinedAt[s])
<1>1. /\ out[s] \in Seq(Msg) /\ writeQ[s] \in Seq(Msg) /\ log \in Seq(Msg)
      /\ m \in Msg
  BY DEF TypeOK
<1>2. Given(s)' = out[s] \o Append(writeQ[s], m)
  BY DEF Deliver, Given
<1>3. out[s] \o Append(writeQ[s], m) = Append(Given(s), m)
  <2>1. \A p, q \in Seq(Msg) : p \o Append(q, m) = Append(p \o q, m)
    BY AppendToSecond
  <2>2. QED
    BY <1>1, <2>1 DEF Given
<1>4. a \in Nat /\ a <= Len(log)
  BY GivenType DEF Running
<1>5. Append(Given(s), m) = SubSeq(Append(log, m), a + 1, Len(log) + 1)
  BY <1>1, <1>4, StretchGrows DEF Live
<1>6. log' = Append(log, m) /\ Len(log') = Len(log) + 1
  BY <1>1, AppendProperties DEF Deliver
<1>7. QED
  BY <1>2, <1>3, <1>5, <1>6 DEF Live

LEMMA DeliverKept ==
    ASSUME TypeOK, Running, NEW m \in Msg, Deliver(m), out' = out, joinedAt' = joinedAt,
           NEW s \in Sessions, s \notin participants, Stretched(s)
    PROVE  Stretched(s)'
<1> DEFINE a == Missed(joinedAt[s])
           b == a + Len(Given(s))
<1>1. Given(s)' = Given(s)
  BY DEF Deliver, Given, TypeOK
<1>2. /\ a \in Nat /\ b \in Nat /\ a <= b /\ b <= Len(log)
      /\ Len(log) \in Nat /\ log \in Seq(Msg)
  BY GivenType DEF Stretched, Running, TypeOK
<1>3. SubSeq(Append(log, m), a + 1, b) = SubSeq(log, a + 1, b)
  BY <1>2, StretchKept
<1>4. log' = Append(log, m) /\ Len(log') = Len(log) + 1
  BY <1>2, AppendProperties DEF Deliver
<1>5. b <= Len(log')
  BY <1>2, <1>4
<1>6. QED
  BY <1>1, <1>3, <1>4, <1>5 DEF Stretched

\* The write handler moves a message from the queue to what is written.
LEMMA WriteDoneKeepsGiven ==
    ASSUME TypeOK, WriteHasBuffer, NEW s \in Sessions, WriteDone(s), NEW r \in Sessions
    PROVE  Given(r)' = Given(r)
<1>1. CASE r = s
  <2>1. out[s] \in Seq(Msg) /\ writeQ[s] \in Seq(Msg) /\ writeQ[s] # <<>>
    BY DEF WriteDone, WriteHasBuffer, TypeOK
  <2>2. out'[s] = Append(out[s], Head(writeQ[s])) /\ writeQ'[s] = Tail(writeQ[s])
    BY DEF WriteDone, TypeOK
  <2>3. Append(out[s], Head(writeQ[s])) \o Tail(writeQ[s]) = out[s] \o writeQ[s]
    BY <2>1, HeadToFirst
  <2>4. QED
    BY <1>1, <2>2, <2>3 DEF Given
<1>2. CASE r # s
  BY <1>2 DEF WriteDone, Given, TypeOK
<1>3. QED
  BY <1>1, <1>2

-----------------------------------------------------------------------------
(* IInv is inductive. *)

LEMMA IInvParts ==
    IInv <=> /\ TypeOK
             /\ Running
             /\ \A s \in participants : Live(s)
             /\ \A s \in accepted : Stretched(s)
             /\ \A s \in Sessions : Pumped(s)
  BY DEF IInv, HistoryThenLive, StretchAfterLeaving, NoMuteParticipant,
         WriteHasBuffer, Live, Stretched, Pumped, TypeOK

\* The state kept about the room changes with join() and deliver() only.
LEMMA RunningStep ==
    ASSUME TypeOK, Running, NEW s \in Sessions,
           Client(s) \/ Accept(s) \/ Read(s) \/ Write(s)
    PROVE  Running'
<1> USE DEF Running, RecentIsEnd, Untouched, JoinedBefore
<1>1. Len(log) \in Nat
  BY LenProperties DEF TypeOK
<1>2. CASE Accept(s)
  BY <1>1, <1>2 DEF Accept, Join, TypeOK
<1>3. CASE ReadBody(s)
  <2> DEFINE m == Head(wire[s]).msg
  <2>1. m \in Msg
    BY <1>3, ReadsMessage
  <2>2. log' = Append(log, m) /\ Len(log') = Len(log) + 1
    BY <1>3, <2>1, AppendProperties DEF ReadBody, Deliver, TypeOK
  <2>3. RecentIsEnd'
    <3>1. log \in Seq(Msg)
      BY DEF TypeOK
    <3>2. Trim(Append(SubSeq(log, Missed(Len(log)) + 1, Len(log)), m))
            = SubSeq(Append(log, m), Missed(Len(log) + 1) + 1, Len(log) + 1)
      BY <2>1, <3>1, TrimKeepsEnd
    <3>3. QED
      BY <1>3, <2>2, <3>2 DEF ReadBody, Deliver
  <2>4. Untouched'
    BY <1>3 DEF ReadBody, Deliver, TypeOK
  <2>5. JoinedBefore'
    BY <1>1, <1>3, <2>2 DEF ReadBody, TypeOK
  <2>6. QED
    BY <2>3, <2>4, <2>5
<1>4. CASE Client(s) \/ ReadHeader(s) \/ ReadFailed(s) \/ Write(s)
  BY <1>4 DEF Client, Say, Hangup, ReadHeader, ReadFailed, Write, WriteDone,
              WriteFailed, TypeOK
<1>5. QED
  BY <1>2, <1>3, <1>4 DEF Read

\* Steps that give no session anything and let at most one leave.
Quiet(s) == \/ Client(s) \/ ReadHeader(s) \/ ReadFailed(s) \/ WriteFailed(s)

LEMMA QuietStep ==
    ASSUME IInv, NEW s \in Sessions, Quiet(s)
    PROVE  /\ \A r \in participants' : Live(r)'
           /\ \A r \in accepted' : Stretched(r)'
           /\ \A r \in Sessions : Pumped(r)'
<1>1. /\ accepted' = accepted /\ participants' \subseteq participants
      /\ out' = out /\ writeQ' = writeQ /\ log' = log /\ joinedAt' = joinedAt
  BY DEF Quiet, Client, Say, Hangup, ReadHeader, ReadFailed, WriteFailed, Leave
<1>2. \A r \in Sessions : Given(r)' = Given(r)
  BY <1>1 DEF Given
<1>3. \A r \in participants' : Live(r)'
  BY <1>1, <1>2, IInvParts DEF Live, TypeOK
<1>4. \A r \in accepted' : Stretched(r)'
  BY <1>1, <1>2, IInvParts DEF Stretched, TypeOK
<1>5. ASSUME NEW r \in Sessions PROVE Pumped(r)'
  <2>1. Pumped(r)
    BY IInvParts
  <2>2. CASE WriteFailed(s)
    BY <1>1, <2>1, <2>2, IInvParts DEF WriteFailed, Leave, Pumped, TypeOK
  <2>3. CASE Client(s) \/ ReadHeader(s) \/ ReadFailed(s)
    <3>1. writing' = writing
      BY <2>3 DEF Client, Say, Hangup, ReadHeader, ReadFailed
    <3>2. QED
      BY <1>1, <2>1, <3>1 DEF Pumped
  <2>4. QED
    BY <2>2, <2>3 DEF Quiet
<1>6. QED
  BY <1>3, <1>4, <1>5

LEMMA AcceptStep ==
    ASSUME IInv, NEW s \in Sessions, Accept(s)
    PROVE  /\ \A r \in participants' : Live(r)'
           /\ \A r \in accepted' : Stretched(r)'
           /\ \A r \in Sessions : Pumped(r)'
<1>1. /\ accepted' = accepted \cup {s} /\ participants' = participants \cup {s}
      /\ out' = out /\ log' = log
      /\ \A r \in Sessions \ {s} : /\ writeQ'[r] = writeQ[r]
                                   /\ writing'[r] = writing[r]
                                   /\ joinedAt'[r] = joinedAt[r]
  BY IInvParts DEF Accept, Join, TypeOK
<1>2. \A r \in Sessions \ {s} : Given(r)' = Given(r)
  BY <1>1 DEF Given
<1>3. TypeOK' /\ Running'
  BY TypeNext, RunningStep DEF IInv
<1>4. Live(s)'
  BY IInvParts, JoinLive
<1>5. /\ log' \in Seq(Msg) /\ Missed(joinedAt'[s]) \in Nat
      /\ Missed(joinedAt'[s]) <= Len(log')
  <2>1. joinedAt'[s] \in Nat /\ joinedAt'[s] <= Len(log') /\ Len(log') \in Nat
    BY <1>3, LenProperties DEF TypeOK, Running, JoinedBefore
  <2>2. QED
    BY <1>3, <2>1, MissedType DEF TypeOK
<1>6. Stretched(s)'
  <2>1. Given(s)' = SubSeq(log', Missed(joinedAt'[s]) + 1, Len(log'))
    BY <1>4 DEF Live
  <2>2. /\ Missed(joinedAt'[s]) + Len(Given(s)') <= Len(log')
        /\ Given(s)' = SubSeq(log', Missed(joinedAt'[s]) + 1,
                              Missed(joinedAt'[s]) + Len(Given(s)'))
    BY <1>5, <2>1, EndStretch
  <2>3. QED
    BY <2>2 DEF Stretched
<1>7. \A r \in participants' : Live(r)'
  BY <1>1, <1>2, <1>4, IInvParts DEF Live, TypeOK
<1>8. \A r \in accepted' : Stretched(r)'
  BY <1>1, <1>2, <1>6, IInvParts DEF Stretched, TypeOK
<1>9. ASSUME NEW r \in Sessions PROVE Pumped(r)'
  <2>1. CASE r = s
    <3>1. writeQ[s] = <<>> /\ ~writing[s] /\ recent \in Seq(Msg)
      BY IInvParts DEF Accept, Running, Untouched, TypeOK
    <3>2. writeQ'[s] = <<>> \o recent /\ writing'[s] = (recent # <<>>)
      BY <3>1, IInvParts DEF Accept, Join, TypeOK
    <3>3. writeQ'[s] = recent
      BY <3>1, <3>2, ConcatEmptySeq
    <3>4. QED
      BY <2>1, <3>2, <3>3 DEF Pumped
  <2>2. CASE r # s
    BY <1>1, <2>2, IInvParts DEF Pumped
  <2>3. QED
    BY <2>1, <2>2
<1>10. QED
  BY <1>7, <1>8, <1>9

LEMMA DeliverStep ==
    ASSUME IInv, NEW s \in Sessions, ReadBody(s)
    PROVE  /\ \A r \in participants' : Live(r)'
           /\ \A r \in accepted' : Stretched(r)'
           /\ \A r \in Sessions : Pumped(r)'
<1> DEFINE m == Head(wire[s]).msg
<1>1. m \in Msg /\ Deliver(m)
  BY ReadsMessage, IInvParts
<1>2. /\ out' = out /\ joinedAt' = joinedAt /\ accepted' = accepted
      /\ participants' = participants
  BY DEF ReadBody
<1>3. TypeOK' /\ Running'
  BY TypeNext, RunningStep DEF IInv, Read
<1>4. ASSUME NEW r \in participants, r \in Sessions PROVE Live(r)'
  BY <1>1, <1>2, <1>4, IInvParts, DeliverLive
<1>5. \A r \in participants' : Live(r)' /\ r \in Sessions
  BY <1>2, <1>4, IInvParts DEF TypeOK
<1>6. ASSUME NEW r \in accepted PROVE Stretched(r)'
  <2>1. r \in Sessions
    BY IInvParts DEF TypeOK
  <2>2. CASE r \notin participants
    BY <1>1, <1>2, <1>6, <2>1, <2>2, IInvParts, DeliverKept
  <2>3. CASE r \in participants
    <3>1. /\ joinedAt'[r] \in Nat /\ joinedAt'[r] <= Len(log')
          /\ Len(log') \in Nat /\ log' \in Seq(Msg)
      BY <1>3, <2>1, LenProperties DEF TypeOK, Running, JoinedBefore
    <3>2. Missed(joinedAt'[r]) \in Nat /\ Missed(joinedAt'[r]) <= Len(log')
      BY <3>1, MissedType
    <3>3. Given(r)' = SubSeq(log', Missed(joinedAt'[r]) + 1, Len(log'))
      BY <1>4, <2>1, <2>3 DEF Live
    <3>4. /\ Missed(joinedAt'[r]) + Len(Given(r)') <= Len(log')
          /\ Given(r)' = SubSeq(log', Missed(joinedAt'[r]) + 1,
                                Missed(joinedAt'[r]) + Len(Given(r)'))
      BY <3>1, <3>2, <3>3, EndStretch
    <3>5. QED
      BY <3>4 DEF Stretched
  <2>4. QED
    BY <2>2, <2>3
<1>7. ASSUME NEW r \in Sessions PROVE Pumped(r)'
  <2>1. /\ writeQ'[r] = IF r \in participants THEN Append(writeQ[r], m) ELSE writeQ[r]
        /\ writing'[r] = (writing[r] \/ (r \in participants /\ writeQ[r] = <<>>))
    BY <1>1 DEF Deliver
  <2>2. Append(writeQ[r], m) # <<>>
    <3>1. writeQ[r] \in Seq(Msg)
      BY IInvParts DEF TypeOK
    <3>2. QED
      BY <1>1, <3>1, AppendProperties
  <2>3. QED
    BY <1>2, <2>1, <2>2, IInvParts DEF Pumped
<1>8. QED
  BY <1>2, <1>5, <1>6, <1>7

LEMMA WriteDoneStep ==
    ASSUME IInv, NEW s \in Sessions, WriteDone(s)
    PROVE  /\ \A r \in participants' : Live(r)'
           /\ \A r \in accepted' : Stretched(r)'
           /\ \A r \in Sessions : Pumped(r)'
<1>1. /\ accepted' = accepted /\ participants' = participants
      /\ log' = log /\ joinedAt' = joinedAt
  BY DEF WriteDone
<1>2. \A r \in Sessions : Given(r)' = Given(r)
  BY WriteDoneKeepsGiven DEF IInv
<1>3. \A r \in participants' : Live(r)'
  BY <1>1, <1>2, IInvParts DEF Live, TypeOK
<1>4. \A r \in accepted' : Stretched(r)'
  BY <1>1, <1>2, IInvParts DEF Stretched, TypeOK
<1>5. \A r \in Sessions : Pumped(r)'
  BY <1>1, IInvParts DEF WriteDone, Pumped, TypeOK
<1>6. QED
  BY <1>3, <1>4, <1>5

LEMMA IInvInit == Init => IInv
<1> SUFFICES ASSUME Init PROVE IInv
  OBVIOUS
<1>1. TypeOK
  BY TypeInit
<1>2. Running
  <2>1. Len(log) = 0 /\ Missed(0) = 0
    BY EmptySeq, RecentAssumption DEF Init, Missed
  <2>2. SubSeq(log, 0 + 1, 0) = <<>>
    BY SubSeqEmpty
  <2>3. QED
    BY <2>1, <2>2 DEF Init, Running, RecentIsEnd, Untouched, JoinedBefore
<1>3. QED
  BY <1>1, <1>2, IInvParts DEF Init, Pumped

LEMMA IInvNext == IInv /\ [Next]_vars => IInv'
<1> SUFFICES ASSUME IInv, [Next]_vars PROVE IInv'
  OBVIOUS
<1>1. ASSUME NEW s \in Sessions, Client(s) \/ Accept(s) \/ Read(s) \/ Write(s)
      PROVE  IInv'
  <2>1. TypeOK' /\ Running'
    BY <1>1, TypeNext, RunningStep DEF IInv
  <2>2. /\ \A r \in participants' : Live(r)'
        /\ \A r \in accepted' : Stretched(r)'
        /\ \A r \in Sessions : Pumped(r)'
    BY <1>1, QuietStep, AcceptStep, DeliverStep, WriteDoneStep
       DEF Quiet, Read, Write
  <2>3. HistoryThenLive' /\ StretchAfterLeaving'
    BY <2>2 DEF HistoryThenLive, StretchAfterLeaving, Live, Stretched
  <2>4. NoMuteParticipant' /\ WriteHasBuffer'
    BY <2>1, <2>2 DEF NoMuteParticipant, WriteHasBuffer, Pumped, TypeOK
  <2>5. QED
    BY <2>1, <2>3, <2>4 DEF IInv
<1>2. CASE UNCHANGED vars
  BY <1>2 DEF vars, IInv, TypeOK, Running, RecentIsEnd, Untouched,
     JoinedBefore, HistoryThenLive, StretchAfterLeaving, NoMuteParticipant,
     WriteHasBuffer, Given
<1>3. QED
  BY <1>1, <1>2 DEF Next

\* The strengthened invariant holds in every reachable state.
THEOREM Invariant == Spec => []IInv
<1>1. QED
  BY IInvInit, IInvNext, PTL DEF Spec

-----------------------------------------------------------------------------
(* The properties. *)

\* Every variable of the room and its sessions keeps its type.
THEOREM TypeCorrect == Spec => []TypeOK
<1>1. IInv => TypeOK
  BY DEF IInv
<1>2. QED
  BY <1>1, Invariant, PTL

\* A participant was given exactly the room's log from the oldest message
\* kept when it joined: replay and live messages meet without gap or overlap.
THEOREM ReplayMeetsLive == Spec => []HistoryThenLive
<1>1. IInv => HistoryThenLive
  BY DEF IInv
<1>2. QED
  BY <1>1, Invariant, PTL

\* So was a session that has left, up to when it left.
THEOREM LeavingKeepsStretch == Spec => []StretchAfterLeaving
<1>1. IInv => StretchAfterLeaving
  BY DEF IInv
<1>2. QED
  BY <1>1, Invariant, PTL

\* The write pump of a participant never stands still with a message queued.
THEOREM ParticipantsAreServed == Spec => []NoMuteParticipant
<1>1. IInv => NoMuteParticipant
  BY DEF IInv
<1>2. QED
  BY <1>1, Invariant, PTL

\* A write that is outstanding is of a message that is still queued.
THEOREM WritesHaveBuffer == Spec => []WriteHasBuffer
<1>1. IInv => WriteHasBuffer
  BY DEF IInv
<1>2. QED
  BY <1>1, Invariant, PTL
=============================================================================
