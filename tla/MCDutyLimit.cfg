\* The same node, asked whether it keeps to its duty cycle.
CONSTANTS
  Divisor = 4
  Window = 32
  Reserve = 1
  MaxAirtime = 8
  Airtimes = {3, 8}
  CadRetry = 2
  MaxTime = 60
SPECIFICATION Spec
INVARIANT DutyCycleLimit
CHECK_DEADLOCK FALSE
