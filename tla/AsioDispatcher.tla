--------------------------- MODULE AsioDispatcher --------------------------
(***************************************************************************)
(* QAsioEventDispatcher (qasioeventdispatcher.cpp): Qt's event loop on top *)
(* of an io_service.                                                       *)
(*                                                                         *)
(* One QAsioSockNotifier per descriptor serves its read and its write      *)
(* QSocketNotifier.  An enabled notifier is kept alive by an asynchronous  *)
(* operation whose handler starts the next one; a disabled notifier leaves *)
(* its operation behind, and only the revision the operation was started   *)
(* with tells its handler that it is out of date.                          *)
(*                                                                         *)
(* Application code runs on the same thread between two processEvents, in  *)
(* sendPostedEvents and within the event of a notifier; there it may       *)
(* enable and disable notifiers and timers.  Other threads call wakeUp and *)
(* interrupt.  Left out: a descriptor that fails under an enabled          *)
(* notifier, the processEvents flags that exclude sources, and             *)
(* processEvents called from within an event.                              *)
(***************************************************************************)
EXTENDS Naturals, FiniteSets

CONSTANTS Notifier,   \* QSocketNotifier objects
          NoNotifier, \* the null pointer
          FdOf,       \* the descriptor of each notifier
          TypeOf,     \* its type
          MaxStart    \* bound of the model: revisions and QAsioSockNotifiers

Type == {"read", "write"}
Fd == {FdOf[n] : n \in Notifier}

ASSUME NotifierAssumption == NoNotifier \notin Notifier
ASSUME TypeAssumption == TypeOf \in [Notifier -> Type]
ASSUME StartAssumption == MaxStart \in Nat

VARIABLES pc,         \* where the thread is in processEvents
          events,     \* has poll() run a handler? (events > 0)
          stopped,    \* the io_service is stopped
          interrupt,  \* d->interrupt
          timers,     \* is a timer registered?
          timerWait,  \* is nearest_timer waited for?
          timerDone,  \* how such waits have ended whose handler has not run
          sn,         \* the QAsioSockNotifier of a descriptor: 0 or its number
          made,       \* how many have been made
          notif,      \* sn->notif
          revision,   \* sn->revision
          pending,    \* sn->pending_operations
          ops         \* operations whose handler has not run

loop == <<pc, events>>
service == <<stopped, interrupt>>
timer == <<timers, timerWait, timerDone>>
socks == <<sn, made, notif, revision, pending, ops>>
vars == <<loop, service, timer, socks>>

Init == /\ pc = "app" /\ events = FALSE
        /\ stopped = FALSE /\ interrupt = FALSE
        /\ timers = FALSE /\ timerWait = FALSE /\ timerDone = {}
        /\ sn = [f \in Fd |-> 0] /\ made = 0
        /\ notif = [f \in Fd |-> [t \in Type |-> NoNotifier]]
        /\ revision = [f \in Fd |-> [t \in Type |-> 0]]
        /\ pending = [f \in Fd |-> 0]
        /\ ops = {}

\* Application code is running.
InApp == pc \in {"app", "sent", "eventInRun", "eventInPoll", "resent"}

\* A handler has run within run_one() or within poll(), and its event is sent
\* or there is none.
Event == IF pc = "run" THEN "eventInRun" ELSE "eventInPoll"
Return == IF pc = "run" THEN "loop" ELSE "poll"

-----------------------------------------------------------------------------
(* Socket notifiers. *)

\* An operation: its QAsioSockNotifier, the revision bound to its handler,
\* the notifier it was started for, and how it stands.
Op(f, t, r, n) == [fd |-> f, sn |-> sn'[f], type |-> t, rev |-> r, for |-> n, st |-> "waits"]

\* registerSocketNotifier with socketNotifierForFd and fdReadStart / fdWriteStart.
Register(n) ==
    LET f == FdOf[n]  t == TypeOf[n]  r == revision[f][t] + 1
    IN  /\ InApp
        /\ notif[f][t] = NoNotifier
        /\ r <= MaxStart
        /\ \/ sn[f] # 0 /\ UNCHANGED <<sn, made>>
           \/ /\ sn[f] = 0 /\ made < MaxStart
              /\ made' = made + 1
              /\ sn' = [sn EXCEPT ![f] = made + 1]
        /\ notif' = [notif EXCEPT ![f][t] = n]
        /\ revision' = [revision EXCEPT ![f][t] = r]
        /\ pending' = [pending EXCEPT ![f] = @ + 1]
        /\ ops' = ops \cup {Op(f, t, r, n)}
        /\ UNCHANGED <<loop, service, timer>>

\* sn->sd->cancel(), when no notifier of the descriptor is left
Cancelled(f) == {[o EXCEPT !.st = IF o.fd = f /\ o.st = "waits" THEN "aborted" ELSE @] : o \in ops}

\* Mutant: the revision is bumped only when a notifier is enabled.
SameRevision(f, t) == UNCHANGED revision

NextRevision(f, t) == revision' = [revision EXCEPT ![f][t] = @ + 1]

Unregister(n) ==
    LET f == FdOf[n]  t == TypeOf[n]
    IN  /\ InApp
        /\ notif[f][t] = n
        /\ notif' = [notif EXCEPT ![f][t] = NoNotifier]
        /\ NextRevision(f, t)
        /\ ops' = IF \A u \in Type : notif'[f][u] = NoNotifier THEN Cancelled(f) ELSE ops
        /\ UNCHANGED <<loop, service, timer, sn, made, pending>>

\* The descriptor has become readable or writable.
BecomesReady == \E o \in ops :
    /\ o.st = "waits"
    /\ ops' = (ops \ {o}) \cup {[o EXCEPT !.st = "ready"]}
    /\ UNCHANGED <<loop, service, timer, sn, made, notif, revision, pending>>

\* Mutants: the operation is not started again; it is not counted.
NotRestarted(o) == /\ ops' = ops \ {o}
                   /\ pending' = [pending EXCEPT ![o.fd] = @ - 1]
NotCounted(o) == /\ ops' = (ops \ {o}) \cup {[o EXCEPT !.st = "waits"]}
                 /\ pending' = [pending EXCEPT ![o.fd] = @ - 1]

\* pending_operations-- and fdReadStart / fdWriteStart
Restarted(o) == /\ ops' = (ops \ {o}) \cup {[o EXCEPT !.st = "waits"]}
                /\ UNCHANGED pending

\* fdReadReady / fdWriteReady.
Handler(o) ==
    /\ o.st # "waits"
    /\ IF o.rev = revision[o.fd][o.type] /\ o.st = "ready"
       THEN /\ Restarted(o)
            /\ pc' = Event
       ELSE /\ ops' = ops \ {o}
            /\ pending' = [pending EXCEPT ![o.fd] = @ - 1]
            /\ pc' = Return
    /\ UNCHANGED <<service, timer, sn, made, notif, revision>>

\* Mutant: operations that are pending do not count.
UnusedOnly(f) == \A t \in Type : notif[f][t] = NoNotifier

Removable(f) == pending[f] = 0

\* cleanupSocketNotifiers
Cleanup ==
    /\ sn' = [f \in Fd |-> IF Removable(f) THEN 0 ELSE sn[f]]
    /\ notif' = [f \in Fd |-> IF Removable(f) THEN [t \in Type |-> NoNotifier] ELSE notif[f]]
    /\ revision' = [f \in Fd |-> IF Removable(f) THEN [t \in Type |-> 0] ELSE revision[f]]
    /\ pending' = [f \in Fd |-> IF Removable(f) THEN 0 ELSE pending[f]]
    /\ UNCHANGED <<made, ops>>

-----------------------------------------------------------------------------
(* Timers. *)

RegisterTimer == /\ InApp /\ ~timers
                 /\ timers' = TRUE
                 /\ UNCHANGED <<loop, service, timerWait, timerDone, socks>>

UnregisterTimer == /\ InApp /\ timers
                   /\ timers' = FALSE
                   /\ UNCHANGED <<loop, service, timerWait, timerDone, socks>>

\* timerStart(): a wait that is going on is cancelled, which ends it.
TimerStart == IF timers
              THEN /\ timerDone' = IF timerWait THEN timerDone \cup {"aborted"} ELSE timerDone
                   /\ timerWait' = TRUE
                   /\ UNCHANGED timers
              ELSE UNCHANGED timer

TimerExpires == /\ timerWait
                /\ timerWait' = FALSE
                /\ timerDone' = timerDone \cup {"expired"}
                /\ UNCHANGED <<loop, service, timers, socks>>

-----------------------------------------------------------------------------
(* processEvents. *)

\* Up to the first sendPostedEvents.
ProcessEvents == /\ pc = "app"
                 /\ interrupt' = FALSE
                 /\ pc' = "sent"
                 /\ UNCHANGED <<events, stopped, timer, socks>>

Interrupted == /\ pc = "sent" /\ interrupt
               /\ pc' = "app"
               /\ UNCHANGED <<events, service, timer, socks>>

\* With WaitForMoreEvents or without.
Enter == /\ pc = "sent" /\ ~interrupt
         /\ TimerStart
         /\ pc' \in {"block", "loop"}
         /\ UNCHANGED <<events, service, socks>>

\* reset() before run_one() forgets a stop() that has come since the check.
Block == /\ pc = "block"
         /\ stopped' = FALSE
         /\ pc' = "run"
         /\ UNCHANGED <<events, interrupt, timer, socks>>

\* The head of the do loop.
LoopStart == /\ pc = "loop"
             /\ TimerStart
             /\ stopped' = FALSE
             /\ events' = FALSE
             /\ pc' = "poll"
             /\ UNCHANGED <<interrupt, socks>>

Running == pc \in {"run", "poll"} /\ ~stopped

RunSocket == /\ Running
             /\ \E o \in ops : Handler(o)
             /\ events' = TRUE

\* timerTimeout: only a wait that has expired sends timer events.
RunTimer == /\ Running
            /\ \E end \in timerDone : /\ timerDone' = timerDone \ {end}
                                     /\ pc' = IF end = "expired" THEN Event ELSE Return
            /\ events' = TRUE
            /\ UNCHANGED <<service, timers, timerWait, socks>>

EventDone == /\ \/ pc = "eventInRun" /\ pc' = "loop"
                \/ pc = "eventInPoll" /\ pc' = "poll"
             /\ UNCHANGED <<events, service, timer, socks>>

\* run_one() returns when stopped, or when there is nothing to wait for.
RunOneReturns == /\ pc = "run"
                 /\ stopped \/ (ops = {} /\ ~timerWait /\ timerDone = {})
                 /\ pc' = "loop"
                 /\ UNCHANGED <<events, service, timer, socks>>

\* poll() returns when stopped, or when no handler is ready; posted events
\* are sent.
PollReturns == /\ pc = "poll"
               /\ stopped \/ (timerDone = {} /\ \A o \in ops : o.st = "waits")
               /\ pc' = "resent"
               /\ UNCHANGED <<events, service, timer, socks>>

\* while(events > 0), and then the cleanup.
LoopEnd == /\ pc = "resent"
           /\ \/ events /\ pc' = "loop" /\ UNCHANGED socks
              \/ ~events /\ pc' = "app" /\ Cleanup
           /\ UNCHANGED <<events, service, timer>>

-----------------------------------------------------------------------------
(* Other threads. *)

WakeUp == /\ stopped' = TRUE
          /\ UNCHANGED <<loop, interrupt, timer, socks>>

Interrupt == /\ interrupt' = TRUE
             /\ stopped' = TRUE
             /\ UNCHANGED <<loop, timer, socks>>

-----------------------------------------------------------------------------
Loop == \/ ProcessEvents \/ Interrupted \/ Enter \/ Block \/ LoopStart
        \/ RunSocket \/ RunTimer \/ EventDone \/ RunOneReturns
        \/ PollReturns \/ LoopEnd

Application == \/ \E n \in Notifier : Register(n) \/ Unregister(n)
               \/ RegisterTimer \/ UnregisterTimer

Environment == BecomesReady \/ TimerExpires \/ WakeUp \/ Interrupt

Next == Loop \/ Application \/ Environment

Spec == Init /\ [][Next]_vars

\* The thread goes on.
FairSpec == Spec /\ WF_vars(Loop)
=============================================================================
