\* Three packets of two priorities, delayed or not, sent by a radio that may
\* fail, within a clock that does not wrap.
CONSTANTS
  Packet = {p1, p2, p3}
  WordSize = 64
  Priorities = {0, 1}
  TxDelays = {0, 2}
  RxDelays = {2}
  CadMax = 1
  CadRetry = 1
  RadioFails = TRUE
  Steps = {1, 2}
  MaxIdle = 63
  MaxTime = 8
  Divisor = 2
  Window = 4
  Reserve = 1
  MaxAirtime = 2
  Airtimes = {1, 2}
SPECIFICATION Spec
INVARIANT TypeOK PoolConserved NeverEarly
PROPERTY MostUrgentFirst
SYMMETRY PacketSymmetry
CHECK_DEADLOCK FALSE
