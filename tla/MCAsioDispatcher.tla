-------------------------- MODULE MCAsioDispatcher -------------------------
(* Small instances of AsioDispatcher for TLC. *)
EXTENDS AsioDispatcherProps

CONSTANTS r1, r2, w1   \* two read notifiers and a write notifier
MCNotifier == {r1, r2, w1}
MCFdOf == [n \in MCNotifier |-> 0]
MCTypeOf == [n \in MCNotifier |-> IF n = w1 THEN "write" ELSE "read"]
=============================================================================
