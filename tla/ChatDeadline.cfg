\* The same instance, for the deadline alone.
CONSTANTS
  s1 = s1
  s2 = s2
  Sessions <- MCSessions
  MaxRecent = 1
  MaxSay <- MCMaxSay
  Own = s1
  Endpoints = 2
  Size <- MCSize
SPECIFICATION FairSystem
CHECK_DEADLOCK FALSE
PROPERTY DeadlineForConnectOnly
