\* One descriptor, two read notifiers and a write notifier.
CONSTANTS
  r1 = r1
  r2 = r2
  w1 = w1
  Notifier <- MCNotifier
  NoNotifier = NoNotifier
  FdOf <- MCFdOf
  TypeOf <- MCTypeOf
  MaxStart = 3
SPECIFICATION Spec
INVARIANTS
  TypeOK
  NoStaleEvent
  EnabledIsWatched
  HandlersHaveNotifier
