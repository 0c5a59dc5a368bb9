SPECIFICATION Spec
CONSTANTS
  Pages = 2
  Symbols = {RELIANCE, TCS}
  DefaultSymbol = RELIANCE
  Disturbances = 1
  None = None
INVARIANT GaugeCountsInFlight
CHECK_DEADLOCK FALSE
