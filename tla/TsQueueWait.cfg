\* The server: Update(2, true), two pushing threads.
CONSTANTS
  Producers = {p1, p2}
  Consumer = app
  NoThread = none
  MaxPush = 2
  MaxMessages = 2
  BWait = TRUE
SPECIFICATION FairSpec
INVARIANTS
  TypeOK
  LocksMatchPoints
  PopFindsItem
  NothingLost
PROPERTIES
  ImplementsChannel
  NotifiedPushDrains
