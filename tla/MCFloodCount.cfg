\* A flood along a line, with a count, a path and a flood_max of the same size as
\* in the default build (64 each), here three.
CONSTANTS
  a = a
  b = b
  c = c
  d = d
  e = e
  p1 = p1
  p2 = p2
  Node = {a, b, c, d, e}
  Links <- Line
  Repeater = {b, c, d, e}
  PubKey <- Keys
  LoopMax <- Off
  Payload = {p1, p2}
  Nothing = Nothing
  TableSize = 2
  CountLimit = 3
  MaxPathSize = 3
  FloodMax = 3
  Traffic <- OneFlood
  Lossy = FALSE
SPECIFICATION Spec
INVARIANT LowerPriorityOutwards
CHECK_DEADLOCK FALSE
