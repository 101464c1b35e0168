\* A chat_client with two endpoints and two messages, the second too long,
\* beside a client of any behaviour with one; a history of one.
CONSTANTS
  s1 = s1
  s2 = s2
  Sessions <- MCSessions
  MaxRecent = 1
  MaxSay <- MCMaxSay
  Own = s1
  Endpoints = 2
  Size <- MCSize
SPECIFICATION FairSystem
CHECK_DEADLOCK FALSE
INVARIANTS
  SystemTypeOK
  HistoryThenLive
  StretchAfterLeaving
  NoMuteParticipant
  TalksUnlessEarly
PROPERTIES
  TypedToRoom
  EveryoneHears
  GoneLeaves
