\* The client waits for the server's greeting before it sends; no faults.
CONSTANTS
  text = text
  accept = accept
  Msg <- MCMsg
  Sized <- MCSized
  NoMsg = NoMsg
  Word <- MCWord
  Scramble <- MCScramble
  Nonce = 0
  Greeting <- MCGreeting
  MaxSend <- MCTwoEach
  EarlySend = FALSE
  Faults = FALSE
SPECIFICATION FairSpec
CHECK_DEADLOCK FALSE
INVARIANTS
  TypeOK
  PumpWritesFront
  FramingAligned
  ServerChallengesFirst
PROPERTIES
  ServerChannel
  ClientChannel
  EventuallyDelivered
