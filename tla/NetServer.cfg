\* Three connections, one message from each.
CONSTANTS
  c1 = c1
  c2 = c2
  c3 = c3
  Conn <- MCConn
  NoConn = NoConn
  MaxSend = 1
SPECIFICATION Spec
SYMMETRY Symmetry
CHECK_DEADLOCK FALSE
INVARIANTS
  TypeOK
  NeverVisitsNull
  BroadcastReaches
