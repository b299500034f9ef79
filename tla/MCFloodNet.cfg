\* Three repeaters in a ring, two floods and a table of one entry: a flood is
\* forgotten while copies of it are still under way, and lost by any receiver.
CONSTANTS
  a = a
  b = b
  c = c
  d = d
  e = e
  p1 = p1
  p2 = p2
  Node = {a, b, c}
  Links <- Ring
  Repeater = {a, b, c}
  PubKey <- Keys
  LoopMax <- Moderate
  Payload = {p1, p2}
  Nothing = Nothing
  TableSize = 1
  CountLimit = 4
  MaxPathSize = 4
  FloodMax = 3
  Traffic <- TwoFloods
  Lossy = TRUE
SPECIFICATION Spec
INVARIANT TypeOK PathIsRoute LoopsAreCut
PROPERTY NoEcho FloodsDie
CHECK_DEADLOCK FALSE
