\* The server with one io thread: a wake-up lost between empty() and wait().
CONSTANTS
  Producers = {p1}
  Consumer = app
  NoThread = none
  MaxPush = 2
  MaxMessages = 2
  BWait = TRUE
SPECIFICATION FairSpec
PROPERTIES
  EveryMessageHandled
