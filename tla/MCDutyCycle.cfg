\* A 25% duty cycle with sends up to twice the budget checkSend() asks for.
CONSTANTS
  Divisor = 4
  Window = 16
  Reserve = 1
  MaxAirtime = 8
  Airtimes = {3, 8}
  CadRetry = 2
  MaxTime = 45
SPECIFICATION Spec
INVARIANT TypeOK 
CHECK_DEADLOCK FALSE
