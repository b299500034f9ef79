\* A hidden terminal under listen-before-talk, with a radio retuned while
\* transmissions are on air and random interference.
CONSTANTS
  c1 = c1
  c2 = c2
  NodeCount = 3
  Links <- HiddenTerminalLinks
  Channel = {c1, c2}
  CodingRate = {5}
  StartConfig <- StartOnC1
  Airtimes = {1, 3}
  TickMillis = 1
  CadMax = 0
  Interference = TRUE
  MaxSends = 3
  MaxTime = 4
  MaxRetunes = 1
SPECIFICATION Spec
INVARIANT TypeOK VerdictsExact KeptOnlyWhileOverlapping InboxDrained DeliveredWhileListening ListenBeforeTalk StatsBalance
PROPERTY EverySendEnds ImplementsEther
CHECK_DEADLOCK FALSE
