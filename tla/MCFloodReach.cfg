\* Floods from both ends of a network with two ways through it, with a flood_max
\* just large enough, nothing lost and nothing forgotten.
CONSTANTS
  a = a
  b = b
  c = c
  d = d
  e = e
  p1 = p1
  p2 = p2
  Node = {a, b, c, d, e}
  Links <- SquareAndTail
  Repeater = {b, c, d}
  PubKey <- Keys
  LoopMax <- Off
  Payload = {p1, p2}
  Nothing = Nothing
  TableSize = 2
  CountLimit = 4
  MaxPathSize = 4
  FloodMax = 2
  Traffic <- OppositeFloods
  Lossy = FALSE
SPECIFICATION Spec
PROPERTY FloodReaches
CHECK_DEADLOCK FALSE
