---------------------------- MODULE TsQueueProps ---------------------------
(* What tsqueue and the loop of Update must guarantee. *)
EXTENDS TsQueue, FiniteSets

TypeOK ==
    /\ muxQueue \in Producers \cup {NoThread}
    /\ muxBlocking \in Producers \cup {Consumer, NoThread}
    /\ deqQueue \in Seq(Items)
    /\ pushes \in [Producers -> 0..MaxPush]
    /\ ppc \in [Producers -> ProducerPoint]
    /\ cpc \in ConsumerPoint
    /\ nMessageCount \in 0..MaxMessages
    /\ inHand \in Seq(Items)
    /\ pushed \in Seq(Items)
    /\ handled \in Seq(Items)

(***************************************************************************)
(* Locks.  Who holds a mutex and who is about to take one follows from the *)
(* program points.                                                         *)
(***************************************************************************)
HoldsMuxQueue(p) == ppc[p] \in {"placed", "notifying"}
HoldsMuxBlocking(p) == ppc[p] = "notifying"
ConsumerWantsMuxQueue == cpc \in {"check", "loop", "pop"}

\* push_back holds muxQueue while it waits for muxBlocking.  The other way
\* round must never happen: the consumer does not keep muxBlocking while it
\* is about to lock muxQueue in empty() or pop_front(), or both threads
\* would wait for each other for ever.
NoDeadlyEmbrace == muxBlocking = Consumer => ~ConsumerWantsMuxQueue

\* A mutex is held by exactly the thread whose program point says so, so no
\* two threads are inside the deque at once.
LocksMatchPoints ==
    /\ \A p \in Producers : HoldsMuxQueue(p) <=> muxQueue = p
    /\ \A p \in Producers : HoldsMuxBlocking(p) <=> muxBlocking = p
    /\ cpc \in {"sleep", "awakened"} <=> muxBlocking = Consumer

(***************************************************************************)
(* The queue.                                                              *)
(***************************************************************************)

\* Update looks with empty() and pops with pop_front() under two separate
\* locks.  Between them producers may push but nobody else may pop, so
\* pop_front() never meets an empty deque (undefined behaviour).
PopFindsItem == cpc = "pop" => deqQueue # <<>>

\* Every item placed is in exactly one place: handled, in the consumer's
\* hand, or still queued; and the order of the pushes is kept throughout.
NothingLost == handled \o inHand \o deqQueue = pushed

\* tsqueue and Update implement a first-in first-out channel from push_back
\* to OnMessage.
Channel == INSTANCE FifoChannel WITH Item <- Items, sent <- pushed, got <- handled
ImplementsChannel == Channel!Spec

(***************************************************************************)
(* Progress.                                                               *)
(***************************************************************************)

TotalPushes == MaxPush * Cardinality(Producers)

\* A push whose notification finds the consumer asleep gets everything
\* placed so far handled, however many items earlier wake-ups missed.
NotifiedPushDrains ==
    \A n \in 1..TotalPushes :
        (cpc = "asleep" /\ (\E p \in Producers : ppc[p] = "notifying")
            /\ Len(pushed) >= n)
        ~> Len(handled) >= n

\* Every message that arrives is passed to OnMessage ("called when a message
\* arrived", net_server.hpp:164).  True of a consumer that polls; not of one
\* that blocks in wait().
EveryMessageHandled ==
    \A n \in 1..TotalPushes : (Len(pushed) >= n) ~> (Len(handled) >= n)
=============================================================================
