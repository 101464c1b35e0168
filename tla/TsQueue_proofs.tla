--------------------------- MODULE TsQueue_proofs --------------------------
(***************************************************************************)
(* Proofs about tsqueue for any set of producers, any number of pushes,    *)
(* any nMaxMessages and either value of bWait.                             *)
(***************************************************************************)
EXTENDS TsQueueProps, SequenceTheorems, TLAPS

(***************************************************************************)
(* The inductive invariant: the properties, and what the consumer's        *)
(* program point says of its two locals.                                   *)
(***************************************************************************)
LocalsMatchPoint ==
    /\ IF cpc = "handle" THEN \E x \in Items : inHand = <<x>> ELSE inHand = <<>>
    /\ cpc \in {"pop", "handle"} => nMessageCount < MaxMessages

IInv == /\ TypeOK
        /\ LocksMatchPoints
        /\ LocalsMatchPoint
        /\ PopFindsItem
        /\ NothingLost

(***************************************************************************)
(* Sequences.                                                              *)
(***************************************************************************)

\* What is appended to the last of three pieces is appended to the whole,
\* as push_back does to what is handled, in hand and queued.
LEMMA AppendToLast ==
    ASSUME NEW S, NEW a \in Seq(S), NEW b \in Seq(S), NEW c \in Seq(S), NEW x \in S
    PROVE  a \o b \o Append(c, x) = Append(a \o b \o c, x)
  BY AppendIsConcat, AppendProperties, ConcatProperties, ConcatAssociative

\* pop_front() moves the head of the queue into an empty hand.
LEMMA HeadMovesLeft ==
    ASSUME NEW S, NEW a \in Seq(S), NEW c \in Seq(S), c # <<>>
    PROVE  a \o <<Head(c)>> \o Tail(c) = a \o <<>> \o c
<1>1. Head(c) \in S /\ Tail(c) \in Seq(S) /\ <<Head(c)>> \in Seq(S)
  BY HeadTailProperties
<1>2. <<Head(c)>> \o Tail(c) = c
  OBVIOUS
<1>3. a \o <<Head(c)>> \o Tail(c) = a \o (<<Head(c)>> \o Tail(c))
  BY <1>1, ConcatAssociative
<1>4. a \o <<>> = a
  BY ConcatEmptySeq
<1>5. QED
  BY <1>2, <1>3, <1>4

\* The item in hand is the first one past the handled ones.
LEMMA MiddleItem ==
    ASSUME NEW S, NEW a \in Seq(S), NEW c \in Seq(S), NEW x \in S
    PROVE  /\ Len(a) < Len(a \o <<x>> \o c)
           /\ (a \o <<x>> \o c)[Len(a) + 1] = x
<1>1. a \o <<x>> \in Seq(S) /\ Len(a \o <<x>>) = Len(a) + 1 /\ Len(a) \in Nat
  BY ConcatProperties, LenProperties
<1>2. (a \o <<x>>)[Len(a) + 1] = x
  BY <1>1
<1>3. /\ Len(a \o <<x>> \o c) = Len(a) + 1 + Len(c) /\ Len(c) \in Nat
      /\ (a \o <<x>> \o c)[Len(a) + 1] = (a \o <<x>>)[Len(a) + 1]
  BY <1>1, ConcatProperties, LenProperties
<1>4. QED
  BY <1>1, <1>2, <1>3

-----------------------------------------------------------------------------
(* IInv is inductive. *)

LEMMA IInvInit == Init => IInv
<1> SUFFICES ASSUME Init PROVE IInv
  OBVIOUS
<1>1. TypeOK
  BY BoundAssumption DEF Init, TypeOK, ProducerPoint, ConsumerPoint
<1>2. LocksMatchPoints
  BY ProducersAssumption, ConsumerAssumption
     DEF Init, LocksMatchPoints, HoldsMuxQueue, HoldsMuxBlocking
<1>3. LocalsMatchPoint /\ PopFindsItem /\ NothingLost
  BY DEF Init, LocalsMatchPoint, PopFindsItem, NothingLost
<1>4. QED
  BY <1>1, <1>2, <1>3 DEF IInv

\* push_back: the three steps of a producer.
LEMMA IInvPush ==
    ASSUME IInv, NEW p \in Producers, Push(p)
    PROVE  IInv'
<1> USE ProducersAssumption, ConsumerAssumption, BoundAssumption
<1>1. CASE PushItem(p)
  <2> DEFINE item == <<p, pushes[p] + 1>>
  <2>1. item \in Items
    BY <1>1 DEF PushItem, Enqueue, IInv, TypeOK, Items
  <2>2. /\ deqQueue' = Append(deqQueue, item)
        /\ pushed' = Append(pushed, item)
        /\ handled' = handled /\ inHand' = inHand /\ cpc' = cpc
        /\ nMessageCount' = nMessageCount
    BY <1>1 DEF PushItem, Enqueue
  <2>3. TypeOK'
    <3>1. pushes' \in [Producers -> 0..MaxPush]
      BY <1>1 DEF PushItem, Enqueue, IInv, TypeOK
    <3>2. deqQueue' \in Seq(Items) /\ pushed' \in Seq(Items)
      BY <2>1, <2>2, AppendProperties DEF IInv, TypeOK
    <3>3. QED
      BY <1>1, <3>1, <3>2 DEF PushItem, Enqueue, IInv, TypeOK, ProducerPoint
  <2>4. LocksMatchPoints'
    BY <1>1 DEF PushItem, Enqueue, IInv, TypeOK, LocksMatchPoints, HoldsMuxQueue,
                HoldsMuxBlocking
  <2>5. LocalsMatchPoint'
    BY <2>2 DEF IInv, LocalsMatchPoint
  <2>6. PopFindsItem'
    BY <2>1, <2>2, AppendProperties DEF IInv, TypeOK, PopFindsItem
  <2>7. NothingLost'
    <3>1. /\ handled \in Seq(Items) /\ inHand \in Seq(Items)
          /\ deqQueue \in Seq(Items)
      BY DEF IInv, TypeOK
    <3>2. handled \o inHand \o Append(deqQueue, item)
            = Append(handled \o inHand \o deqQueue, item)
      BY <2>1, <3>1, AppendToLast
    <3>3. QED
      BY <2>2, <3>2 DEF IInv, NothingLost
  <2>8. QED
    BY <2>3, <2>4, <2>5, <2>6, <2>7 DEF IInv
<1>2. CASE PushLock(p)
  <2>1. TypeOK'
    BY <1>2 DEF PushLock, IInv, TypeOK, ProducerPoint
  <2>2. LocksMatchPoints'
    BY <1>2 DEF PushLock, IInv, TypeOK, LocksMatchPoints, HoldsMuxQueue,
                HoldsMuxBlocking
  <2>3. LocalsMatchPoint' /\ PopFindsItem' /\ NothingLost'
    BY <1>2 DEF PushLock, IInv, LocalsMatchPoint, PopFindsItem, NothingLost
  <2>4. QED
    BY <2>1, <2>2, <2>3 DEF IInv
<1>3. CASE PushNotify(p)
  <2>1. TypeOK'
    BY <1>3 DEF PushNotify, NotifyOne, IInv, TypeOK, ProducerPoint, ConsumerPoint
  <2>2. LocksMatchPoints'
    BY <1>3 DEF PushNotify, NotifyOne, IInv, TypeOK, LocksMatchPoints, HoldsMuxQueue,
                HoldsMuxBlocking
  <2>3. LocalsMatchPoint' /\ PopFindsItem' /\ NothingLost'
    BY <1>3 DEF PushNotify, NotifyOne, IInv, LocalsMatchPoint, PopFindsItem, NothingLost
  <2>4. QED
    BY <2>1, <2>2, <2>3 DEF IInv
<1>4. QED
  BY <1>1, <1>2, <1>3 DEF Push

\* wait(): the steps that touch locks and the program point only.
Waiting == \/ UpdateStart \/ WaitCheck \/ WaitLock \/ WaitSleep \/ WaitRelock
           \/ WaitAgain \/ LoopCheck \/ SpuriousWakeup

LEMMA IInvWaiting ==
    ASSUME IInv, Waiting
    PROVE  IInv'
<1> USE ProducersAssumption, ConsumerAssumption, BoundAssumption
<1>1. TypeOK'
  BY DEF Waiting, UpdateStart, WaitCheck, WaitLock, WaitSleep, WaitRelock,
         WaitAgain, LoopCheck, MayTakeMore, SpuriousWakeup, IInv, TypeOK, ConsumerPoint
<1>2. LocksMatchPoints'
  BY DEF Waiting, UpdateStart, WaitCheck, WaitLock, WaitSleep, WaitRelock,
         WaitAgain, LoopCheck, MayTakeMore, SpuriousWakeup, IInv, TypeOK, ConsumerPoint,
         LocksMatchPoints, HoldsMuxQueue, HoldsMuxBlocking
<1>3. LocalsMatchPoint' /\ PopFindsItem' /\ NothingLost'
  BY DEF Waiting, UpdateStart, WaitCheck, WaitLock, WaitSleep, WaitRelock,
         WaitAgain, LoopCheck, MayTakeMore, SpuriousWakeup, IInv, TypeOK, LocalsMatchPoint,
         PopFindsItem, NothingLost
<1>4. QED
  BY <1>1, <1>2, <1>3 DEF IInv

\* pop_front() and OnMessage: the two steps that move an item.
LEMMA IInvPopFront ==
    ASSUME IInv, PopFront
    PROVE  IInv'
<1> USE ProducersAssumption, ConsumerAssumption, BoundAssumption
<1>1. /\ Head(deqQueue) \in Items /\ Tail(deqQueue) \in Seq(Items)
      /\ inHand = <<>> /\ inHand' = <<Head(deqQueue)>>
      /\ deqQueue' = Tail(deqQueue)
      /\ handled' = handled /\ pushed' = pushed
      /\ cpc = "pop" /\ cpc' = "handle" /\ nMessageCount' = nMessageCount
  BY HeadTailProperties DEF PopFront, IInv, TypeOK, LocalsMatchPoint
<1>2. TypeOK'
  <2>1. inHand' \in Seq(Items)
    BY <1>1
  <2>2. QED
    BY <1>1, <2>1 DEF PopFront, IInv, TypeOK, ConsumerPoint
<1>3. LocksMatchPoints'
  BY DEF PopFront, IInv, LocksMatchPoints, HoldsMuxQueue, HoldsMuxBlocking
<1>4. LocalsMatchPoint' /\ PopFindsItem'
  BY <1>1 DEF IInv, LocalsMatchPoint, PopFindsItem
<1>5. NothingLost'
  <2>1. handled \in Seq(Items) /\ deqQueue \in Seq(Items) /\ deqQueue # <<>>
    BY DEF PopFront, IInv, TypeOK
  <2>2. handled \o <<>> \o deqQueue = pushed
    BY <1>1 DEF IInv, NothingLost
  <2>3. handled \o <<Head(deqQueue)>> \o Tail(deqQueue) = pushed
    BY <2>1, <2>2, HeadMovesLeft
  <2>4. QED
    BY <1>1, <2>3 DEF NothingLost
<1>6. QED
  BY <1>2, <1>3, <1>4, <1>5 DEF IInv

LEMMA IInvHandle ==
    ASSUME IInv, Handle
    PROVE  IInv'
<1> USE ProducersAssumption, ConsumerAssumption, BoundAssumption
<1>1. TypeOK'
  <2>1. handled' \in Seq(Items) /\ inHand' \in Seq(Items)
    BY ConcatProperties, EmptySeq DEF Handle, IInv, TypeOK
  <2>2. nMessageCount' \in 0..MaxMessages
    BY DEF Handle, IInv, TypeOK, LocalsMatchPoint
  <2>3. QED
    BY <2>1, <2>2 DEF Handle, IInv, TypeOK, ConsumerPoint
<1>2. LocksMatchPoints'
  BY DEF Handle, IInv, LocksMatchPoints, HoldsMuxQueue, HoldsMuxBlocking
<1>3. LocalsMatchPoint' /\ PopFindsItem'
  BY DEF Handle, LocalsMatchPoint, PopFindsItem
<1>4. NothingLost'
  <2>1. handled' \o <<>> = handled'
    BY <1>1, ConcatEmptySeq DEF TypeOK
  <2>2. QED
    BY <2>1 DEF Handle, IInv, NothingLost
<1>5. QED
  BY <1>1, <1>2, <1>3, <1>4 DEF IInv

LEMMA IInvNext == IInv /\ [Next]_vars => IInv'
<1> SUFFICES ASSUME IInv, [Next]_vars PROVE IInv'
  OBVIOUS
<1>1. ASSUME NEW p \in Producers, Push(p) PROVE IInv'
  BY <1>1, IInvPush
<1>2. CASE Waiting
  BY <1>2, IInvWaiting
<1>3. CASE PopFront
  BY <1>3, IInvPopFront
<1>4. CASE Handle
  BY <1>4, IInvHandle
<1>5. CASE UNCHANGED vars
  BY <1>5 DEF vars, IInv, TypeOK, LocksMatchPoints, HoldsMuxQueue,
             HoldsMuxBlocking, LocalsMatchPoint, PopFindsItem, NothingLost
<1>6. QED
  BY <1>1, <1>2, <1>3, <1>4, <1>5 DEF Next, Update, Waiting

\* The strengthened invariant holds in every reachable state.
THEOREM Invariant == Spec => []IInv
<1>1. QED
  BY IInvInit, IInvNext, PTL DEF Spec

-----------------------------------------------------------------------------
(* The properties. *)

\* Every variable of the queue and of the loop keeps its type.
THEOREM TypeCorrect == Spec => []TypeOK
<1>1. IInv => TypeOK
  BY DEF IInv
<1>2. QED
  BY <1>1, Invariant, PTL

\* No two threads are inside the deque at once: the mutexes are held by
\* whoever is at a program point between lock and unlock.
THEOREM MutualExclusion == Spec => []LocksMatchPoints
<1>1. IInv => LocksMatchPoints
  BY DEF IInv
<1>2. QED
  BY <1>1, Invariant, PTL

\* push_back takes muxQueue then muxBlocking; wait() never takes them in the
\* other order, so the two can not block each other.
THEOREM LockOrder == Spec => []NoDeadlyEmbrace
<1>1. IInv => NoDeadlyEmbrace
  BY DEF IInv, LocksMatchPoints, NoDeadlyEmbrace, ConsumerWantsMuxQueue
<1>2. QED
  BY <1>1, Invariant, PTL

\* pop_front() of Update never meets an empty deque, although the check and
\* the pop are under two separate locks.
THEOREM PopIsDefined == Spec => []PopFindsItem
<1>1. IInv => PopFindsItem
  BY DEF IInv
<1>2. QED
  BY <1>1, Invariant, PTL

\* Handled, in hand and queued items are together the pushed ones, in order.
THEOREM Conservation == Spec => []NothingLost
<1>1. IInv => NothingLost
  BY DEF IInv
<1>2. QED
  BY <1>1, Invariant, PTL

\* tsqueue and Update implement a first-in first-out channel: every step is
\* the acceptance of one item, the handing over of the oldest one that is
\* still due, or invisible.
THEOREM Refinement == Spec => ImplementsChannel
<1>1. Init => Channel!Init
  BY DEF Init, Channel!Init
<1>2. IInv /\ [Next]_vars => [Channel!Next]_Channel!vars
  <2> SUFFICES ASSUME IInv, [Next]_vars
               PROVE  [Channel!Next]_Channel!vars
    OBVIOUS
  <2>1. ASSUME NEW p \in Producers, PushItem(p)
        PROVE  Channel!Next
    <3>1. <<p, pushes[p] + 1>> \in Items
      BY <2>1, BoundAssumption DEF PushItem, Enqueue, IInv, TypeOK, Items
    <3>2. Channel!Accept(<<p, pushes[p] + 1>>)
      BY <2>1 DEF PushItem, Enqueue, Channel!Accept
    <3>3. QED
      BY <3>1, <3>2 DEF Channel!Next
  <2>2. ASSUME Handle
        PROVE  Channel!HandOver
    <3>1. PICK x \in Items : inHand = <<x>>
      BY <2>2 DEF Handle, IInv, LocalsMatchPoint
    <3>2. Len(handled) < Len(pushed) /\ pushed[Len(handled) + 1] = x
      <4>1. handled \in Seq(Items) /\ deqQueue \in Seq(Items)
        BY DEF IInv, TypeOK
      <4>2. pushed = handled \o <<x>> \o deqQueue
        BY <3>1 DEF IInv, NothingLost
      <4>3. QED
        BY <4>1, <4>2, MiddleItem
    <3>3. handled' = Append(handled, x) /\ pushed' = pushed
      BY <2>2, <3>1, AppendIsConcat DEF Handle, IInv, TypeOK
    <3>4. QED
      BY <3>2, <3>3 DEF Channel!HandOver
  <2>3. ASSUME UNCHANGED <<pushed, handled>>
        PROVE  UNCHANGED Channel!vars
    BY <2>3 DEF Channel!vars
  <2>4. QED
    BY <2>1, <2>2, <2>3
       DEF Next, vars, Push, Update, PushLock, PushNotify, NotifyOne, UpdateStart,
           WaitCheck, WaitLock, WaitSleep, SpuriousWakeup, WaitRelock,
           WaitAgain, LoopCheck, MayTakeMore, PopFront, Channel!Next
<1>3. QED
  BY <1>1, <1>2, Invariant, PTL DEF Spec, ImplementsChannel, Channel!Spec
=============================================================================
