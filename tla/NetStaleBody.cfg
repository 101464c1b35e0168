\* A message without a body arrives with the body of the one before it.
CONSTANTS
  text = text
  accept = accept
  Msg <- MCMsg
  Sized <- MCSized
  NoMsg = NoMsg
  Word <- MCWord
  Scramble <- MCScramble
  Nonce = 0
  Greeting <- MCGreeting
  MaxSend <- MCOneTwo
  EarlySend = FALSE
  Faults = FALSE
SPECIFICATION FairSpec
CHECK_DEADLOCK FALSE
INVARIANTS
  DeliveredWhole
