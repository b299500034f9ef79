\* Two packets and a clock that wraps every 32 ms, for a node that is never
\* without a send for longer than MaxIdle; a busy channel, but a sound radio.
CONSTANTS
  Packet = {p1, p2}
  WordSize = 32
  Priorities = {0}
  TxDelays = {0, 2}
  RxDelays = {2}
  CadMax = 1
  CadRetry = 1
  RadioFails = FALSE
  Steps = {1}
  MaxIdle = 3
  MaxTime = 32
  Divisor = 2
  Window = 4
  Reserve = 1
  MaxAirtime = 2
  Airtimes = {2}
SPECIFICATION Spec
INVARIANT NeverEarly
 
CHECK_DEADLOCK FALSE
