------------------------------ MODULE TsQueue ------------------------------
(***************************************************************************)
(* tsqueue<T> (net_tsqueue.hpp) together with the loop that empties it,    *)
(* server_interface::Update (net_server.hpp), at the granularity of lock   *)
(* acquisitions.                                                           *)
(*                                                                         *)
(* Producers are threads that run an io_context and push what they         *)
(* received; Consumer is the one application thread.  The server calls     *)
(* Update(100, true), so BWait = TRUE; the client polls with empty() and   *)
(* pop_front(), which is the same loop with BWait = FALSE and one message  *)
(* a round.                                                                *)
(*                                                                         *)
(* A step is one acquisition of muxQueue or muxBlocking together with the  *)
(* work done under it up to the next blocking point.  A scope that takes a *)
(* lock, works and drops it is one step that needs the lock free.          *)
(***************************************************************************)
EXTENDS Naturals, Sequences

CONSTANTS Producers,    \* threads that push
          Consumer,     \* the application thread
          NoThread,     \* a mutex nobody holds
          MaxPush,      \* bound of the model: pushes of one producer
          MaxMessages,  \* nMaxMessages of Update
          BWait         \* bWait of Update

ASSUME ProducersAssumption == Consumer \notin Producers /\ NoThread \notin Producers
ASSUME ConsumerAssumption == Consumer # NoThread
ASSUME BoundAssumption == MaxPush \in Nat /\ MaxMessages \in Nat
ASSUME WaitAssumption == BWait \in BOOLEAN

VARIABLES muxQueue,       \* holder of muxQueue
          muxBlocking,    \* holder of muxBlocking
          deqQueue,       \* the items
          pushes,         \* how often each producer has called push_back
          ppc,            \* where each producer is in push_back
          cpc,            \* where the consumer is in Update
          nMessageCount,  \* local of Update
          inHand,         \* local msg of Update: <<>> or one item
          pushed,         \* log of the items placed, in order
          handled         \* log of the items passed to OnMessage, in order

vars == <<muxQueue, muxBlocking, deqQueue, pushes, ppc, cpc, nMessageCount,
          inHand, pushed, handled>>

\* The n-th item producer p pushes.
Items == Producers \X (1..MaxPush)

\* Every program point of the two kinds of thread.
ProducerPoint == {"idle", "placed", "notifying"}
ConsumerPoint == {"update", "check", "block", "sleep", "asleep", "awake",
                  "awakened", "loop", "pop", "handle"}

Init == /\ muxQueue = NoThread
        /\ muxBlocking = NoThread
        /\ deqQueue = <<>>
        /\ pushes = [p \in Producers |-> 0]
        /\ ppc = [p \in Producers |-> "idle"]
        /\ cpc = "update"
        /\ nMessageCount = 0
        /\ inHand = <<>>
        /\ pushed = <<>>
        /\ handled = <<>>

-----------------------------------------------------------------------------
(* push_back *)

\* Mutant: emplace_front, as in push_front().
EnqueueFront(item) == deqQueue' = <<item>> \o deqQueue

\* deqQueue.emplace_back(item)
Enqueue(item) == deqQueue' = Append(deqQueue, item)

\* Mutant: the notification is forgotten.
NotifyNobody == cpc' = cpc

\* cvBlocking.notify_one(): of use only to a consumer that sleeps by now.
NotifyOne == cpc' = IF cpc = "asleep" THEN "awake" ELSE cpc

\* scoped_lock lock(muxQueue); deqQueue.emplace_back(item)
PushItem(p) ==
    /\ ppc[p] = "idle"
    /\ muxQueue = NoThread
    /\ pushes[p] < MaxPush
    /\ pushes' = [pushes EXCEPT ![p] = @ + 1]
    /\ LET item == <<p, pushes[p] + 1>>
       IN  /\ Enqueue(item)
           /\ pushed' = Append(pushed, item)
    /\ muxQueue' = p
    /\ ppc' = [ppc EXCEPT ![p] = "placed"]
    /\ UNCHANGED <<muxBlocking, cpc, nMessageCount, inHand, handled>>

\* unique_lock ul(muxBlocking), with muxQueue still held
PushLock(p) ==
    /\ ppc[p] = "placed"
    /\ muxBlocking = NoThread
    /\ muxBlocking' = p
    /\ ppc' = [ppc EXCEPT ![p] = "notifying"]
    /\ UNCHANGED <<muxQueue, deqQueue, pushes, cpc, nMessageCount, inHand,
                   pushed, handled>>

\* notify_one() under both locks, which are then dropped.
PushNotify(p) ==
    /\ ppc[p] = "notifying"
    /\ NotifyOne
    /\ muxBlocking' = NoThread
    /\ muxQueue' = NoThread
    /\ ppc' = [ppc EXCEPT ![p] = "idle"]
    /\ UNCHANGED <<deqQueue, pushes, nMessageCount, inHand, pushed, handled>>

-----------------------------------------------------------------------------
(* Update and the wait() it starts with *)

UpdateStart ==
    /\ cpc = "update"
    /\ nMessageCount' = 0
    /\ cpc' = IF BWait THEN "check" ELSE "loop"
    /\ UNCHANGED <<muxQueue, muxBlocking, deqQueue, pushes, ppc, inHand,
                   pushed, handled>>

\* while(empty()): one locked look at the deque
WaitCheck ==
    /\ cpc = "check"
    /\ muxQueue = NoThread
    /\ cpc' = IF deqQueue = <<>> THEN "block" ELSE "loop"
    /\ UNCHANGED <<muxQueue, muxBlocking, deqQueue, pushes, ppc, nMessageCount, inHand,
                   pushed, handled>>

\* unique_lock ul(muxBlocking)
WaitLock ==
    /\ cpc = "block"
    /\ muxBlocking = NoThread
    /\ muxBlocking' = Consumer
    /\ cpc' = "sleep"
    /\ UNCHANGED <<muxQueue, deqQueue, pushes, ppc, nMessageCount, inHand,
                   pushed, handled>>

\* cvBlocking.wait(ul): release and sleep, atomically
WaitSleep ==
    /\ cpc = "sleep"
    /\ muxBlocking' = NoThread
    /\ cpc' = "asleep"
    /\ UNCHANGED <<muxQueue, deqQueue, pushes, ppc, nMessageCount, inHand,
                   pushed, handled>>

\* A condition variable may wake its waiter without a notification.
SpuriousWakeup ==
    /\ cpc = "asleep"
    /\ cpc' = "awake"
    /\ UNCHANGED <<muxQueue, muxBlocking, deqQueue, pushes, ppc, nMessageCount, inHand,
                   pushed, handled>>

\* cvBlocking.wait(ul) returns only once it has muxBlocking again
WaitRelock ==
    /\ cpc = "awake"
    /\ muxBlocking = NoThread
    /\ muxBlocking' = Consumer
    /\ cpc' = "awakened"
    /\ UNCHANGED <<muxQueue, deqQueue, pushes, ppc, nMessageCount, inHand,
                   pushed, handled>>

\* Mutant: the lock is taken once, outside the loop.
WaitAgainLocked ==
    /\ cpc = "awakened"
    /\ cpc' = "check"
    /\ UNCHANGED <<muxQueue, muxBlocking, deqQueue, pushes, ppc, nMessageCount, inHand,
                   pushed, handled>>

\* the end of the loop body drops muxBlocking before the next empty()
WaitAgain ==
    /\ cpc = "awakened"
    /\ muxBlocking' = NoThread
    /\ cpc' = "check"
    /\ UNCHANGED <<muxQueue, deqQueue, pushes, ppc, nMessageCount, inHand,
                   pushed, handled>>

\* Mutant: the limit is checked too late.
TakesOneMore == nMessageCount <= MaxMessages

MayTakeMore == nMessageCount < MaxMessages

\* Mutant: the loop does not ask empty().
LoopCheckBlind ==
    /\ cpc = "loop"
    /\ cpc' = IF MayTakeMore THEN "pop" ELSE "update"
    /\ UNCHANGED <<muxQueue, muxBlocking, deqQueue, pushes, ppc, nMessageCount, inHand,
                   pushed, handled>>

\* while(nMessageCount < nMaxMessages && !m_qMessagesIn.empty())
LoopCheck ==
    /\ cpc = "loop"
    /\ \/ /\ MayTakeMore
          /\ muxQueue = NoThread
          /\ cpc' = IF deqQueue = <<>> THEN "update" ELSE "pop"
       \/ /\ ~MayTakeMore
          /\ cpc' = "update"
    /\ UNCHANGED <<muxQueue, muxBlocking, deqQueue, pushes, ppc, nMessageCount, inHand,
                   pushed, handled>>

\* pop_front(): undefined on an empty deque.  PopFindsItem shows that the
\* last conjunct of the guard is never what holds the step back.
PopFront ==
    /\ cpc = "pop"
    /\ muxQueue = NoThread
    /\ deqQueue # <<>>
    /\ inHand' = <<Head(deqQueue)>>
    /\ deqQueue' = Tail(deqQueue)
    /\ cpc' = "handle"
    /\ UNCHANGED <<muxQueue, muxBlocking, pushes, ppc, nMessageCount,
                   pushed, handled>>

\* OnMessage(msg.remote, msg.msg); nMessageCount++
Handle ==
    /\ cpc = "handle"
    /\ handled' = handled \o inHand
    /\ inHand' = <<>>
    /\ nMessageCount' = nMessageCount + 1
    /\ cpc' = "loop"
    /\ UNCHANGED <<muxQueue, muxBlocking, deqQueue, pushes, ppc, pushed>>

-----------------------------------------------------------------------------
Push(p) == PushItem(p) \/ PushLock(p) \/ PushNotify(p)

Update == \/ UpdateStart \/ WaitCheck \/ WaitLock \/ WaitSleep
          \/ WaitRelock \/ WaitAgain \/ LoopCheck \/ PopFront \/ Handle

Next == \/ \E p \in Producers : Push(p)
        \/ Update
        \/ SpuriousWakeup

Spec == Init /\ [][Next]_vars

(***************************************************************************)
(* A started push_back and the application's loop are given the processor  *)
(* again and again, and a mutex that keeps being released is won in the    *)
(* end (strong fairness: another thread may hold it now and then).  Nobody *)
(* has to push, and no spurious wakeup has to come.                        *)
(***************************************************************************)
Fairness == /\ \A p \in Producers : SF_vars(PushLock(p)) /\ WF_vars(PushNotify(p))
            /\ SF_vars(Update)

FairSpec == Spec /\ Fairness
=============================================================================
