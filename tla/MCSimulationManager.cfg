CONSTANTS
  Threads = {t1, t2}
  MaxProcesses = 2
  MaxTransmissions = 1
SPECIFICATION Spec
INVARIANT TypeOK Supervised PortsAreOwn 
PROPERTY RequestsAnswered
