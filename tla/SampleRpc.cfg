\* Two requests, the first cancelled at most once, every pair of programs, a pool
\* of one thread, failing connects and accepts.
CONSTANTS
  Requests <- MCRequests
  ClientPrograms = {"AsyncTCPClient", "RequestOp"}
  ServerPrograms = {"iterative", "parallel", "async", "daytime", "t_msg"}
  Faults = TRUE
  MaxCancels <- MCMaxCancels
  PoolSize = 1
SPECIFICATION FairSpec
CHECK_DEADLOCK FALSE
INVARIANTS
  TypeOK
  CancelledNeverSucceeds
  EmbraceTakesTwo
  OneLateAccept
PROPERTIES
  ImplementsPromise
  EveryRequestEnds
  CancelEnds
  ServiceEnds
