CONSTANTS
  MaxConnections = 2
  QueueSize = 2
  NumContacts = 1
  MaxMessages = 3
SPECIFICATION Spec
INVARIANT TypeOK  InOrder FreshAfterStart ListComplete
PROPERTY EventuallyRead
CHECK_DEADLOCK FALSE
