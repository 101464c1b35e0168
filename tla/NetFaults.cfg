\* The client may send at any time, the network may fail, either end may hang up.
CONSTANTS
  text = text
  accept = accept
  Msg <- MCMsg
  Sized <- MCSized
  NoMsg = NoMsg
  Word <- MCWord
  Scramble <- MCScramble
  Nonce = 0
  Greeting <- MCGreeting
  MaxSend <- MCOneTwo
  EarlySend = TRUE
  Faults = TRUE
SPECIFICATION FairSpec
CHECK_DEADLOCK FALSE
INVARIANTS
  PumpAlive
  RefusedOnlyIfEarly
  SizedMessagesWhole
PROPERTIES
  CloseSpreads
