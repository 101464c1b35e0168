------------------------- MODULE AsioDispatcherProps -----------------------
(* What the event dispatcher must guarantee. *)
EXTENDS AsioDispatcher

Operation == [fd : Fd, sn : 1..MaxStart, type : Type, rev : Nat, for : Notifier,
              st : {"waits", "ready", "aborted"}]

TypeOK ==
    /\ pc \in {"app", "sent", "block", "run", "loop", "poll", "eventInRun", "eventInPoll", "resent"}
    /\ events \in BOOLEAN
    /\ stopped \in BOOLEAN /\ interrupt \in BOOLEAN
    /\ timers \in BOOLEAN /\ timerWait \in BOOLEAN /\ timerDone \subseteq {"aborted", "expired"}
    /\ sn \in [Fd -> 0..MaxStart] /\ made \in 0..MaxStart
    /\ notif \in [Fd -> [Type -> Notifier \cup {NoNotifier}]]
    /\ revision \in [Fd -> [Type -> Nat]]
    /\ pending \in [Fd -> Nat]
    /\ ops \subseteq Operation

\* The operations of a notifier that count: those of its revision.
Current(f, t) == {o \in ops : o.fd = f /\ o.type = t /\ o.rev = revision[f][t]}

\* A handler that takes itself for up to date belongs to the notifier that
\* is enabled now, so the event goes to the notifier the operation was
\* started for, never to one enabled later or to a null pointer.
NoStaleEvent == \A f \in Fd, t \in Type : \A o \in Current(f, t) : notif[f][t] = o.for

\* An enabled notifier has exactly one operation that counts, through every
\* sequence of enabling and disabling: it is never left unwatched and its
\* events are never sent twice.
EnabledIsWatched ==
    \A f \in Fd, t \in Type :
        notif[f][t] # NoNotifier => Cardinality(Current(f, t)) = 1

\* A QAsioSockNotifier lives as long as an operation points to it.
HandlersHaveNotifier ==
    \A o \in ops : sn[o.fd] = o.sn

\* When nothing happens any more but the steps of the thread, the loop in
\* processEvents comes to its end ("return true if we handled events, false
\* otherwise", qasioeventdispatcher.cpp:429).  Fails while a timer is
\* registered: timerStart() cancels the wait of the round before, poll() runs
\* the handler of the cancelled wait and so there is always another round.
ProcessEventsReturns == <>[][Loop]_vars => []<>(pc \in {"app", "run"})
=============================================================================
