CONSTANTS
  a = a
  b = b
  r = r
  q = q
  text = text
  Node = {a, b, r, q}
  Links <- Shortcut
  Repeater = {r, q}
  PubKey <- Keys
  LoopMax <- Minimal
  Payload <- Payloads1
  Nothing = Nothing
  TableSize = 12
  CountLimit = 64
  MaxPathSize = 64
  FloodMax = 63
  Message = {text}
  Sender <- From
  Recipient <- To
  AttemptValues = 4
  AckTableSize = 2
  HashSize = 1
  ExtraAcks <- AtRB
  MaxAttempts <- Twice
  MaxLoss = 1
SPECIFICATION Spec
INVARIANT TypeOK RoutesLead
PROPERTY Implements 
CHECK_DEADLOCK FALSE
