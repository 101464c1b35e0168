\* A timer is registered: the loop never ends.
CONSTANTS
  r1 = r1
  r2 = r2
  w1 = w1
  Notifier <- MCNotifier
  NoNotifier = NoNotifier
  FdOf <- MCFdOf
  TypeOf <- MCTypeOf
  MaxStart = 1
SPECIFICATION FairSpec
PROPERTIES
  ProcessEventsReturns
